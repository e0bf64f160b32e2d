# A TLA+ model of libpmemobj-cpp

libpmemobj-cpp (`include/libpmemobj++/`) is a header-only C++ library over
libpmemobj: transactions, smart pointers and containers for persistent memory.
This directory holds TLA+ modules translated from its headers, the TLC runs that
check them on small instances, and TLAPS proofs for every value of the constants.
Paths below are relative to `include/libpmemobj++/`.

## Inventory

| part | state | operations | what is hard | what makes it correct |
|---|---|---|---|---|
| `transaction.hpp`, `p.hpp`, `detail/common.hpp` | libpmemobj's stage, undo log and locks per thread; `nested` per scope; callbacks in `tx_data` | `manual`, `automatic`, `run`, `commit`, `abort`, `snapshot`, `register_callback`, assignment to `p<>` | nesting, exceptions caught at other levels than they are thrown at, flat and basic scopes mixed, crashes | all or nothing; a normal return means committed; callbacks follow the outermost outcome |
| `detail/ringbuf.hpp` | `next`, `end`, `written`, `seen_off` per worker: atomics | register, acquire, produce, consume, release | lock-free producers, wrap-around, relaxed stores | ranges never overlap; consumption in acquisition order, of produced ranges only |
| `experimental/mpsc_queue.hpp` | persistent log and `written`; ring buffer; consume in progress | `try_produce`, `try_consume_batch`, recovery in the constructor | crash between stores, callbacks that throw, restart with a partly filled log | no element lost, torn, repeated or reordered, also across restarts |
| `detail/ebr.hpp` | global epoch, one epoch per worker, a mutex | `critical`, `sync`, `full_sync`, register/unregister | epochs loaded long before they are stored; scan not atomic | nothing is freed inside a critical section that may use it |
| `experimental/radix_tree.hpp` | the tree, three garbage lists | find, bounds, insert, erase, iterate; `garbage_collect(_force)` | one writer and many readers (MtMode), path compression | ordered map; readers see old or new value |
| `container/concurrent_hash_map.hpp` | buckets in segments, mask, on-demand size, bucket and node locks | find, insert, erase, defragment, rehash, `runtime_initialize` | lazy rehash, lock upgrade, mask race, crash in insert/erase | every element reachable from exactly one bucket |
| `container/detail/concurrent_skip_list_impl.hpp`, `experimental/concurrent_map.hpp` | node levels, per-node locks, per-thread insert log | concurrent find and insert, unsafe erase, recovery | linking level by level, crash in between | sorted; every level a sublist of the one below; nothing leaked |
| `detail/enumerable_thread_specific.hpp` | persistent slots per thread id, cached size, id manager | `local`, `clear`, ids | ids reused across threads and restarts | two live threads never share a slot |
| `detail/volatile_state.hpp` | process-wide map from objects to volatile state | `get`, `destroy`, `clear_from_pool` | two locks, destruction deferred to commit | no state of a destroyed object or of a closed pool |
| `container/vector.hpp`, `segment_vector.hpp`, `basic_string.hpp`, `array.hpp`, `experimental/inline_string.hpp`, `slice.hpp`, `contiguous_iterator.hpp` | size, capacity, data pointer(s) | the standard containers' | each operation in a transaction; what is snapshotted; forms that share memory | equal to the standard container; unchanged after an abort; nothing leaked |
| `string_view.hpp` | none | searches, comparisons | index arithmetic on unsigned numbers | equal to `std::string_view` |
| `make_persistent*.hpp`, `allocator.hpp`, `pool.hpp`, `persistent_ptr*.hpp`, `self_relative_ptr*.hpp`, `atomic_*ptr.hpp`, `tagged_ptr.hpp` | objects and pointers | allocate, construct, free, convert | throwing constructors; the null of a self-relative pointer; the dirty flag | no leak, no dangling pointer |
| mutexes, `condition_variable.hpp`, `experimental/v.hpp` | runid of the pool | lock, wait, `v::get` | first use after a restart by several threads | initialised once per run |
| `defrag.hpp`, `utils.hpp`, traits | none or transient | | | |

Interaction: containers run their updates inside `flat_transaction::run` and
store through `p<>` and persistent pointers; `mpsc_queue` drives `ringbuf`
(volatile) and a persistent log; `radix_tree` in MtMode drives `ebr`;
`basic_string` and `segment_vector` are made of `vector`s;
`concurrent_hash_map` and the skip list use `enumerable_thread_specific`, which
uses `volatile_state` and the id manager.

`PROJECT.json` lists every component with its status, and the hazards line by line.

## Modules

| module | models | composed from |
|---|---|---|
| `Ebr` | `detail/ebr.hpp` | |
| `RadixReclaim` | reclamation in `experimental/radix_tree.hpp` | `Ebr` |
| `RadixTree` | nodes, searches and updates of `experimental/radix_tree.hpp` | |
| `ConcurrentRadixTree` | its writer and a reader in MtMode | `RadixTree` |
| `RingBufOps` | the offset arithmetic of `detail/ringbuf.hpp` | |
| `RingBuf` | `detail/ringbuf.hpp`, one step per atomic access | `RingBufOps` |
| `MpscQueue` | `experimental/mpsc_queue.hpp` | `RingBufOps` |
| `PmemobjTx` | libpmemobj's transactions (external) and `c_callback` | |
| `Transaction` | `transaction.hpp`, `p.hpp` | `PmemobjTx` |
| `TxHeap` | a pool inside a transaction: blocks, undo log, flushes (external) | |
| `TxContainer` | an application that uses containers in transactions | `TxHeap` |
| `VectorOps`, `Vector` | `container/vector.hpp` | `TxContainer` |
| `SegmentVectorOps`, `SegmentVector` | `container/segment_vector.hpp`, `detail/segment_vector_policies.hpp` | `VectorOps`, `TxContainer` |
| `BasicStringOps`, `BasicStringSearch`, `BasicString` | `container/basic_string.hpp` | `VectorOps`, `StringView`, `TxContainer` |
| `InlineString` | `experimental/inline_string.hpp` | `StringView`, `TxContainer` |
| `Array` | `container/array.hpp`, `slice.hpp`, `detail/contiguous_iterator.hpp` | `TxContainer` |
| `StringView` | `string_view.hpp` | |
| `Relational` | the comparison operators of the containers | |
| `ThreadSpecific` | `detail/enumerable_thread_specific.hpp` | |
| `ConcurrentMap` | what `concurrent_hash_map` promises (abstract) | |
| `HashMapTable`, `ConcurrentHashMap` | `container/concurrent_hash_map.hpp`; implements `ConcurrentMap` | `ThreadSpecific` |
| `ConcurrentOrderedMap` | what `concurrent_map` promises (abstract) | |
| `SkipList`, `ConcurrentSkipList` | `container/detail/concurrent_skip_list_impl.hpp`; implements `ConcurrentOrderedMap` | |
| `MC*` | instances for TLC; where a configuration file says all, it is of the module itself | |
| `RadixReclaim_proofs`, `Transaction_proofs`, `RingBuf_proofs`, `MpscQueue_proofs` | theorems | the module they are about |
| `Array_proofs` | theorems, and before them lemmas about what each operation on a pool does to a rollback | `Array`, `TxHeap` |
| `HashMapTable_proofs` | lemmas about masks and buckets, and what each operation on a table preserves | `HashMapTable` |
| `ConcurrentHashMap_proofs` | theorems about the threads: locks, buckets and nodes | `ConcurrentHashMap`, `HashMapTable_proofs` |
| `HashMapPromise_proofs` | theorems about what callers see: keys, sizes, and the refinement of `ConcurrentMap` | `ConcurrentHashMap_proofs` |

**Ebr, RadixReclaim.** A reader's `critical` is three steps: load the global
epoch (`critical_load`), store it with the active flag (`critical_store`), reset
it (`critical_end`). `sync` is a load, taking `mtx`, one step per worker in any
order, and the store of the next epoch; `full_sync` repeats it. The atomics are
sequentially consistent in the code, so interleaving is what the build can do.
The tree is reduced to which allocations are reachable, unlinked, staged as
garbage or free. `may_hold[t]` is what the reader `t` can have a pointer to: all
that was reachable at some moment since it stored its epoch.

**RingBuf.** Each access of a shared atomic is an action named after its place
in `ringbuf_acquire`, `ringbuf_consume` or `ringbuf_release`. The relaxed store
of `seen_off` becomes visible at any time before the compare-and-swap that
follows it (`mark_pending`, `mark_seen`). The weak compare-and-swap may fail for
no reason. The 64-bit word `next` is a record of offset, wrap-around counter and
lock bit; the counter's modulus is the constant `WrapModulus > 1`, and `NoFullLap`
forbids that it runs a full lap while another worker holds an old word (2^31
wrap-arounds in the code). Loads of `written` and `end` by the only thread that
stores them are merged with their neighbours. `queue` is a history variable.

**MpscQueue.** The unit is the cacheline. `try_produce` is `Acquire_cachelines`,
`store_first`, `store_rest`, `store_drain`, `store_clean` and
`produce_cachelines`; the ring buffer's operations are single steps, because
`RingBuf` checks their interleavings. `try_consume_batch` is the call, the
consume, the transaction (commit, or rolled back when the callback throws) and
the release, up to two times. `Crash` ends the process anywhere: stores that were not
drained may or may not persist, cacheline by cacheline; the first block is
stored with a drain. `Open` is the constructor with `restore_offsets`, computed
with the ring buffer's own operations as the code does. Elements are numbers in
acquisition order.

**PmemobjTx, Transaction.** libpmemobj is modelled from how the headers use it:
a record with the stage, the error, the memory, the undo log, locks and
callbacks, and one function per call. `Transaction` has a stack of scopes
(`frames`), the exception in flight (`unwinding`), and whether the innermost
scope's body is over (`leaving`): for `run` and `automatic`, the body's return
does the automatic commit or throws, and then `manual`'s destructor runs, as in
the code. The application between the calls is arbitrary: any operation in any
order, exceptions thrown and caught at any level. After `commit()` it does not
assign (`commit`'s documentation makes that the caller's duty). The constant
`WriteAfterAbort` says whether it assigns to a `p<>` after an abort.

**TxHeap, TxContainer and the sequential containers.** A container is used by
one thread, so a method is one step: a function from a heap to the next one,
composed of the operations the code makes (adding a range with or without a
snapshot, allocating, freeing, storing). What matters is not the order of the
steps but which of them are undone: `TxHeap` keeps the undo log, which locations
the transaction has added, and what the medium holds where a store is not known
to be flushed. A store that was not added is therefore visible to the properties
as a value that an abort does not restore or that a power failure loses; a range
added with `POBJ_XADD_NO_SNAPSHOT` is flushed but not restored. An allocation
may fail at any point (`oom` says which one of a transaction), and methods throw:
the rest of the method is skipped (`failed`) and what it has done stays done, since
a method's flat transaction is set to `POBJ_TX_FAILURE_RETURN` and, nested in
the application's, aborts nothing. `TxContainer` adds the application: it calls up
to `MaxOps` methods in a transaction, commits, aborts, or is cut off by a power
failure, and creates and deletes the second container. What a method throws, it
catches outside of its transaction, which aborts it (a method called outside of
any is its own outermost transaction), or inside and goes on. `spoilt` says that
it caught an exception of a method that had already changed something; from then
on it calls no more methods and ends the transaction, and commits it only with
`"catch"` in `Misuse`. `cur` and `committed` are what containers of the standard
library hold after the same calls; a method that throws changes neither.

`VectorOps` translates `vector.hpp`. A range of elements that is passed to a
method is a sequence of sources: values, elements read at the moment they are
copied, elements moved from; this is what makes self-insertion and moving
visible. `SegmentVectorOps` has both size policies and both storages on top of
the vectors of `VectorOps`. A `basic_string` is four cells that are its size and
an array of characters, or a vector which shares them: the switch between the
forms overwrites one by the other. `InlineString` has the characters behind the
object. `Array` has the iterators of `range(start, n, snapshot_size)`, which add
a chunk to the transaction when they enter it; `SizeType` is where its sizes wrap. A
method that assigns a whole array stores to its cells at once (`StoreCells`): no
other array shares them, and a crash between two of the stores is undone as
one after them is. The constant `Misuse` of these
modules names what an application must avoid for the properties to hold, each
form with its meaning in the module.

**ConcurrentHashMap.** `HashMapTable` is the state and what one thread does to
it; a transaction is one step, because the lists it changes are locked. The list
of a bucket is a set of nodes: no key is there twice, so that nothing depends on
the order. The loops of `reserve`, `rehash_bucket`, `internal_copy`
and `clear` that go through segments or nodes one by one, within a transaction or
with no other thread about, are written as what they amount to. In
`ConcurrentHashMap` a call reads the mask, locks a bucket (and its parents while
it must be rehashed), searches, tries the element's lock, counts, inserts or
erases, and grows the table, each a step. `rehashed` is a flag outside of
transactions: set, and persisted in the next step; a crash in between may lose
it. `size_diff` is kept in `ThreadSpecific`, whose storage grows in two steps.
The abstract map has a call, its one indivisible effect, its answer, and
accessors as locks on elements. A crash may come at every step; `Restart` is
`runtime_initialize`. `consistent` says whether the pool keeps sizes.

**ConcurrentSkipList.** A search is one step per pointer followed; an insertion
locks the predecessors level by level, checks that they still are, creates the
node in a transaction that also writes the log, then stores the pointers
one by one, each followed by a persist of its own. `undo` is the store that is
not persistent yet. Recovery is one step per log entry (`CompleteInsert`,
`DropInsert`) and may be cut off by another crash. The abstract map allows an
insertion that a crash cut short to have taken effect or not, but never to take
back what another call has seen.

**RadixTree, ConcurrentRadixTree.** A key is a sequence of bytes of two slices.
A search is a record that `Step` takes from one load of a child or parent pointer
to the next, with the validation of the path that the code makes before it
returns. The writer runs the same searches to the end (`Run`) and then makes its
stores one at a time, in the order of the code; a reader's loads come between
any two of them. What was unlinked stays as it was for a reader that still holds
it: `RadixReclaim` shows that it is not freed. `seen` records the elements that
were there at some moment and at every moment of the call. Transactions are
rolled back when nobody reads.

## Runs

| run | instance | shows |
|---|---|---|
| `radix_reclaim` | 2 readers, 2 allocations | `NoUseAfterFree`; `FullSyncReturns` |
| `ring_buffer` | 2 producers, 4 units of space | `NoOverlap`, `ConsumesProducedPrefix`, `EmptyMeansEmpty`, the code's assertions (`Asserts`) |
| `mpsc_queue` | 2 producers, 4 cachelines, 3 elements | `ProducesIntoZeroed`, `OnlyWholeElements`, `ConsumedInOrder`, `NothingLost`; `EverythingConsumed` |
| `mpsc_queue_stale_wrap` | the same, 5 elements | finding: `NothingLost` fails after a restart at the wrong moment |
| `transaction` | 3 levels, 2 cells, 1 lock | `AllOrNothing`, `ReturnMeansCommitted`, `AbortsWhenDue`, `CallbacksMatchOutcome` |
| `vectors` | five kinds of vectors and segment_vectors, two methods, see `MCVectors` | `Consistent`, `SameAsStd`, `AtomicAndDurable`, `NothingLeaked` |
| `vector_reuse` | one vector of a trivially destructible type | finding: `AtomicAndDurable` fails when elements are removed and appended in an aborted transaction |
| `vector_caught` | one vector of a type with a destructor | finding: `AtomicAndDurable` fails when an exception of a method is caught inside a transaction that then commits |
| `strings` | one string and one method; two strings, arrays, inline strings and two methods, see `MCStrings` | `StringSameAsStd`, `StringAtomic`, `NoStringLeaked`, `QueriesAsStd`; `FixedSameAsStd`, `FixedAtomic`, `FixedQueriesAsStd` |
| `concurrent_hash_map` | 2 threads, 3 keys in one bucket of two | the map implements `ConcurrentMap` (`KeepsPromise`); `SizeIsDistance`, `Asserts`, `DefragmentsAlone`; `EveryCallReturns` |
| `concurrent_map` | 2 threads, 3 keys, 2 levels | the skip list implements `ConcurrentOrderedMap` (`KeepsPromise`); `LevelsNested`, `Accounted`; `EveryCallReturns` |
| `radix_tree` | 6 keys alone, 4 keys beside a reader | `AsOrderedMap`, `ReadsHold`; `ReadsReturn` |

### Findings

* *Stale wrap* (`mpsc_queue_stale_wrap`). When the consumer reaches the end of
  the ring buffer, `ringbuf_consume` moves `written` to 0 at once;
  `pmem->written` follows with the next commit. From then on producers use the
  space at the end of the log. A process that ends in between (or whose callback
  threw and which then closed the queue) leaves the old `pmem->written`, and
  recovery lets a producer overwrite produced elements. The passing run excludes
  a restart in that window (`StaleWrapRestart = FALSE`), and no other.
* *Reuse* (`vector_reuse`). `shrink()` of a vector of a trivially destructible
  type snapshots nothing, and `add_data_to_tx()` adds the slots behind `size()`
  without a snapshot: a transaction that removes elements, appends others and
  aborts leaves the appended ones. The passing run excludes it (`Misuse = {}`).
* *Caught* (`vector_caught`). `realloc` and `internal_insert` set `_data` to null
  and `_size` and `_capacity` to 0 and then call `alloc`, which may throw
  (`length_error`, or after it has set `_capacity` because the allocation failed).
  Nothing restores the fields. The comment there says that a failed allocation
  aborts the transaction (`vector.hpp:2048-2050`); with flat transactions it does
  not (`transaction.hpp:713-716`), and an application that catches the exception
  inside its own transaction and commits has lost the elements, and the old
  block has no owner. The passing runs let the application catch what it
  likes, but not commit after a method that had changed something before it threw.

### Other disagreements

The passing runs exclude what follows; each item says with which constants TLC
shows it.

* `mpsc_queue`: the size 0 of an element without data is what a free cacheline
  has (`EmptyElements = {1}`: `NothingLost`). `restore_offsets` acquires a
  length of 0 when `pmem->written` is one cacheline, against
  `ringbuf_acquire`'s assertion (`mpsc_queue.hpp:321`;
  `RestoreAcquiresSomething`). Without assertions this is harmless, and the
  passing run covers it.
* `transaction`: after an inner transaction aborted and its exception was caught
  in the outer body, `conditional_add_to_tx` takes no snapshot, and an assignment
  is not undone (`WriteAfterAbort = TRUE`, `MaxDepth = 2`: `AllOrNothing`).
* `vector`, `segment_vector`: references to the vector's own elements passed to
  `insert` and the like (`Misuse = {"own"}`: `SameAsStd`), an empty insertion
  before an element (`{"none"}`, kind `objects`), growing by `resize` within the
  capacity (`{"grow"}`, kind `pods`: `AtomicAndDurable`), resizing with a value to
  exactly the capacity (`{"exact", "grow"}`: `SameAsStd`), and *reuse* as above
  for `segment_vector` (`{"reuse"}`). `erase` never destroys the tail it leaves
  behind (`vector.hpp:1846`); the model has no destructors to show it.
* `basic_string`: *reuse* (`{"reuse"}`, kind `two`), inserting a part of the
  string into itself (`{"own"}`, kind `one`), and moving from a large string
  (`{"short"}`, `{"hollow"}`, `{"refill"}`, kind `two`).
* *Caught* of the others (`{"catch"}`). `MCVectors`: `NothingLeaked` and
  `AtomicAndDurable` for `objects`, `pods` and `pair`, `NothingLeaked` for
  `shelves` (and `AtomicAndDurable` for `segments` when its `Ooms` gets a 2). A
  method called later on a container without its block stops TLC. A segment that
  could not be allocated is left with a null pointer and its capacity set, and a
  constructor that throws leaves the block that `make_persistent` has allocated
  (`make_persistent.hpp` frees it nowhere). `MCStrings`: `StringAtomic` and
  `NoStringLeaked` for the kind `one`; `destroy_data` and `disable_sso` come
  before the allocation that fails. Arrays and inline strings change nothing
  before they throw: `FixedAtomic` holds with `{"catch"}` too.
* `inline_string` loses its `'\0'` after an abort of a transaction that made it
  shorter and longer (`MCStrings`, kind `inline`, `{"reuse"}`: `FixedAtomic`).
* `array::range` accepts a slice beyond the end when `start + n` wraps around
  (`MCStrings`, kind `array`, `{"wrap"}`: `RangeThrows`).
* `string_view::find` finds text that begins in the view and ends behind it
  (`string_view.hpp:568`; `FindsAsStd` of `MCStrings`, kind `inline`).
* `concurrent_hash_map`: `internal_swap` exchanges `tls_ptr` and not
  `on_init_size` (`:1348`; a scenario with `any_sizes` and `alone = {"swap"}`:
  `SizeIsDistance`); an aborted swap restores the mask and size of one map only
  (`:1332`; `any_sizes` and `alone = {"undone swap"}`). A transaction that throws in
  `rehash_bucket` leaves a waiting thread with a bucket that was not rehashed
  (`:1774`; not modelled), and `operator==` calls `equal_range`, which the class
  does not have (`:3456`).
* Skip list: `swap` does not exchange the threads' `size_diff` (`impl:2134`) and
  `internal_move` leaves the sizes of the source (`impl:2348`; `any_sizes` with
  `alone = {"move"}` or `{"swap"}`: `Accounted`). `tls_restore` asserts
  `on_init_size > abs(last_run_size)` where its comment says `>= 0`.
  `equal_range` is two searches and may give a range whose end comes before its
  beginning (`impl:2175`).
* `radix_tree`: "leaf is root, there is no other leaf in the tree"
  (`:3192`) is not so when `++` is called on an element that was the only one
  when it was erased or replaced: it goes to `end()` although elements were
  inserted since (`Iterate` with `strict = TRUE`: `ReadsHold`; the run asks it
  only of elements that were there since the critical section began). Beside two operations
  the bounds need not be the answer of a single moment (`Beside` with `ops = 2`,
  and `beside <= 2` in `ReadsHold`): `upper_bound` does not validate the path of an exact match, and
  siblings are not validated.

### Bounds

* `radix_reclaim`: one reader per epoch that may be active besides the current
  one. The theorem covers the rest.
* `ring_buffer`: `Space = 4`, `WrapModulus = 2`, all lengths 1 to 4: an element
  can end before, at, and beyond the end of the buffer, and a producer can be a
  wrap-around behind. No bound on the number of operations; the theorems cover
  any space and any number of workers. Four is
  the smallest space in which a producer can leave a tail of the buffer unused
  (`acquire_set_end`).
* Queue: four cachelines, elements of one and two: three elements go round the
  buffer, with restarts anywhere; five are what the finding needs. The theorems
  cover any log, lengths and number of workers and elements; `EverythingConsumed`
  is for this instance.
* Transactions: three levels (outermost, one with both an outer and an inner
  scope, innermost), two cells with two values, one lock. The theorems cover any
  number. Cells are symmetric.
* Sequential containers: two methods in a transaction are what it takes to
  disturb one another's snapshots; `MaxSize` lets a vector be reallocated twice
  and exceeded, a string be on either side of `sso_capacity` with room to spare,
  a `segment_vector` have two segments. No allocation of a transaction fails, or
  one does (`Ooms`): the first for `objects`, `one` and `arrays`, whose methods
  allocate once; the second for `pair` and `shelves`, where it comes after another
  one has succeeded, the elements after the object or one segment after another.
  In the other instances, which differ from these in the elements or the policy
  (`pods`, `segments`), run the string's code with a second one beside it (`two`),
  or allocate nothing in a method, methods fail by an exceeded `max_size()` or a
  bad position only. Between transactions any number of them follows. States that differ in the numbers of blocks, or in memory that no
  operation reads before it writes it, are one state (`View`); so are states in
  which only the end of the transaction is left and which differ in what a method
  could still do.
* Hash map, skip list: scenarios bound the number of calls (two or three) and
  crashes (one or two), not their order. Keys collide so that buckets split
  twice; nodes are on one or two levels, chosen freely. Calls that stop when
  their bound is reached are why these runs do not check deadlock; waiting for
  ever is what `EveryCallReturns` is about.
* Radix tree: every tree over the keys of a scenario, with keys that differ in
  either slice and keys that are beginnings of others; one operation beside any
  read, two beside the reads that go back up the tree. The runs were also made
  with slices of four values.

### Fairness

* `radix_reclaim`: the thread inside `garbage_collect*` keeps running, and a
  critical section that was entered ends (`critical` runs a function of the user
  that returns). Nobody has to enter one.
* `mpsc_queue`: threads keep running; the consumer calls
  `try_consume_batch` again and again (the queue's documentation asks for it); the
  callback does not throw every time (strong fairness of `consume_commit`); a
  worker whose `on_produce` threw is destroyed. The property only speaks of
  behaviours in which, from some moment on, the queue stays open.
* `concurrent_hash_map`, `concurrent_map`: weak fairness of the steps of each
  thread that is in a call, and a thread that holds an accessor releases it.
  Locks need not be fair: with the calls of a scenario bounded nobody can take a
  lock away for ever.
* `radix_tree`: weak fairness of the writer within a transaction and of the
  reader within a call, written out because TLC is slow to find out whether
  these steps are enabled. The writer's operations are bounded: a reader starts
  over when the writer has changed its path, so that it returns once the writer
  is done, which is all the code can promise.

Deadlock is checked in every other passing run.

## Proofs

`RadixReclaim_proofs` proves `Spec => []TypeOK` and `Spec => []NoUseAfterFree`
for any set of threads and objects, from no assumption. `NoUseAfterFree` is not
inductive. The invariant adds where `sync` can be relative to the global epoch,
that a reader whose announced epoch is the current or the previous one is all
that `sync` lets pass, and that what a reader may hold and is already garbage
lies in a list whose epoch the reader keeps from being collected.

`Transaction_proofs` proves, under the assumption that the application does not
assign after an abort (`~WriteAfterAbort`; with it the property is false, see
the finding), `TypeOK`, `AllOrNothing`, `ReturnMeansCommitted` and
`AbortsWhenDue` as invariants of `Spec`, for any cells, values, locks and depth
of nesting. The inductive invariant `IInv` adds

* `LogInv`: while the outermost transaction is open, rolling back the undo log
  gives the memory it found; after a commit, an abort or the end the log is empty;
* `StageInv`: inside a transaction, an abort is due exactly when the stage is
  ONABORT and libpmemobj holds an error; the outcome is open until the outermost
  commit; a scope whose `run` or `automatic` body returned is committed or throws;
* `FrameInv`: a scope is `nested` exactly when it is not the outermost one, which
  is what lets the destructor of a nested flat scope commit.

The lemmas before the steps say what each libpmemobj call does to the record;
then there is one lemma for each kind of action. `CallbacksMatchOutcome` needs
`CallbackInv` besides: inside a transaction only callbacks that are registered
have run, hence none before its outcome is decided.

`RingBuf_proofs` proves `TypeOK`, `NoOverlap`, `ConsumesProducedPrefix`,
`EmptyMeansEmpty` and `Asserts` for any space and number of workers, with every
interleaving of the atomic accesses. The assumptions are those of the model:
`WrapModulus > 1`, and `NoFullLap` in the actions. None of the properties is
inductive; `IInv` adds

* `WordInv`, on what producers hold: a word loaded from `next` is stable and not
  ahead of `next` in its lap; a producer that passed the checks may rely on them
  for as long as its compare-and-swap would succeed (this is what the wrap-around
  counter is for); it has published the offset it loaded; at most one worker
  holds `WRAP_LOCK_BIT`;
* how the queue of acquired ranges lies in the buffer: the ranges of the
  consumer's lap from `written` up to `next` or the cut, the others from 0 up to
  `next`, without gaps, so that a producer's checks against `written` are enough;
* the offsets of the workers that own ranges, and what the consumer's scan has
  established about the workers it has visited: whatever it will return ends at
  the border of two ranges, and no producer in flight is below that border.

`MpscQueue_proofs` proves `TypeOK`, `ProducesIntoZeroed`, `OnlyWholeElements`,
`ConsumedInOrder` and `NothingLost`, for any log, number of workers, lengths and
number of elements. The hypotheses are the ones of the passing run, without which
the properties are false: no restart in the window of the finding
(`~StaleWrapRestart`) and, for `NothingLost`, no elements without data
(`EmptyElements = {}`). The argument is about *blocks*, the space of one element,
whether a producer has acquired it or its first cacheline is in the log:

* `BlocksInv`: blocks do not overlap, lie between `written` and `next` going
  round, and are numbered upwards in that direction. While no process runs this is
  said of the ring buffer that the next one will restore. `RestoreOffsets` shows
  that the calls of `restore_offsets` put the producer one cacheline behind the
  consumer for every size, and `RestoreFits` that all blocks fit again;
* `LinesInv`, `StoresInv`: every cacheline that is not zeroed belongs to a block;
  a block is complete unless it is dirty, which is all that a crash can disturb;
* `SeenInv`, `ConsumeInv`: what the consumer gets begins at `written` and ends at
  the border of a block, with no producer's block in it;
* `OrderInv`, `CompletedInv`: what was consumed comes before all blocks; what was
  produced and not consumed is a clean block.

What the iterator sees in a range is a recursive function over the log. The
induction over it (`SeenExists`, `BatchIsAllBetween`) is by least
counterexample: `Least` derives from the library's well-founded orders that every
set of naturals has a least element, which needs no induction scheme.

`Array_proofs` begins with what the operations on a pool do to what a rollback would
give (`Back`): `Logged` says that every cell of a range was saved or is in a block
that the transaction allocated, and that nothing outside was stored to; then a
snapshot, a store to a cell in a range, stores to a set of them, an allocation and
`pmemobj_tx_free` leave `Back` alone, an abort and a crash give it, and a commit
gives the memory. `StoreLogs` is where the order matters: a store to a cell that
is not in a range yet has no such lemma. `ThrowChangesNothing` is about the two
calls of an array that throw, `at()` of a slice and the allocation of
`make_persistent`: both leave the pool as it was, so that the application may catch
what they throw and commit.

It uses them to prove `AtomicAndDurable`, `SameAsStd` and `Covered` of
`Array` as invariants of its specification: what `FixedAtomic` and
`FixedSameAsStd` check of arrays of two and four elements in the run `strings`, for
every size, every set of values, every snapshot size and any number of methods in
a transaction. The hypothesis `Sizes` says that the array has at least one
element and that the sum of two of its sizes does not wrap, as is so of
whatever fits in the address space; without it `range()` accepts slices
that reach behind the array (see above). It is a hypothesis of each theorem and no
assumption of the module. None of the three is inductive; `IInv` adds

* `ArrayHeap`: the pool is `Logged`, no assertion has failed, block 0 holds the
  root and every other block an array, before and after a rollback, and what
  the root points at is not to be freed;
* a rollback gives what was committed last, and the memory holds what
  `std::array` would; outside transactions nothing waits to be written back, and
  no method that threw has changed anything (`~spoilt`);
* `ItInv`: an iterator lies within a slice of an array that exists; the range of
  snapshots it is in is in the transaction, and so is the range of the slice's
  end. The latter is needed since `conditional_snapshot_range` takes no snapshot
  when the iterator reaches the end, nor when it comes back from there into a last
  range that is shorter than `snapshot_size`; it is `range()` that makes it hold,
  by making `end()`.
  `RangeBegin` and `RangeEnd` are the arithmetic of multiples of `snapshot_size`.

TLC checked this invariant on three elements and three methods before it was
proved.

`ConcurrentHashMap_proofs` proves `Asserts` and `DefragmentsAlone`, which the run
`concurrent_hash_map` checks of two threads and eight buckets, and besides that
buckets are locked exclusively (`LocksExclude`) and that each node is in one
list, of a bucket that its hash code leads to (`NodesInPlace`): for any number of
threads, keys, nodes and calls, any hash function, any `first_block` and up to
the 32 segments that a mask of 32 bits has. The assumptions on the constants are
`HashAssumption`, `NodeIdAssumption`, `SegmentAssumption`, `NoneAssumption`,
`ThreadAssumption` and `ScenarioAssumption`; they say what the constants are (threads
are finitely many, `None` is no key and no value), and that a list which the map is
made of has each key once: `internal_copy` inserts what it is given without looking
whether the key is there. The theorems have one
hypothesis, `UndoneSwapsMatch`: a scenario in which maps of different sizes may be swapped has no
swap that is undone. Without it `Asserts` is false: an aborted swap leaves
the other map with a mask that is not its own (see above). The passing run
satisfies it.

Neither property is inductive. What a thread knows of a bucket it knows because
it has locked it; so the invariant `Inv` has a part for each thread, `ThreadOK`,
and parts that relate threads:

* `PathOK`, `LocksHeld`, `LocksExplained`: the buckets that a thread has locked on
  its way up are each other's parents, smaller and smaller, and are locked for
  writing; a locked bucket is rehashed, or is one of those. `LocksExplained` is
  needed when a lock is let go: nobody unlocks a bucket that is not rehashed;
* `KeyedOK`: the bucket that a call goes to is one that some mask leads to for its
  key, not necessarily the mask of now. With `Congruent` this is the assertion of
  `rehash_bucket`;
* `ItemOK`, `SavedOK`: the node that a call works on is in the bucket it has
  locked; what `defragment` has saved is in buckets it has locked for writing, all
  of them above the one it is at;
* `Exclusive`, with which the first three survive the steps of other threads:
  `Grows` says what a step does to the table outside of the buckets that its
  thread has locked for writing (nodes stay, flags that are set stay set, the mask
  does not shrink), and `ThreadStep` that this keeps `ThreadOK` of all others;
* `Waited`: a thread that waits in `acquire` does not look at the flag again
  once it has the lock. It need not, since the bucket was rehashed already or is
  locked by another thread, which sets the flag before it lets go;
* `GrowerOK`, `SegmentsOK`: who holds `my_segment_enable_mutex` has read the mask
  of now; the segments are those the mask tells of, or the next ones too while
  they are about to be published, or after a crash in between;
* `NotSaved`, `Assigning`: no accessor is for a node that `defragment` has saved.

`Quiescent` is this invariant when nobody is in a call, and all that a crash or
an operation of one thread alone has to establish. `HashMapTable_proofs` has a
lemma for what each operation does to a table: `MoveOK` (the transaction of
`rehash_bucket`), `RehashOK`, `ReserveOK`, `CopyOK`, `ClearTableOK`, `SwapOK`,
`InitializeOK` and so on, from the arithmetic of masks: `ParentBefore` (a
bucket's parent is a smaller bucket), `OwnMaskFits` (a bucket that some mask leads
to is the one its own mask leads to), `MaskMask`. The provers know `2 ^ k`
of a numeral `k` only, so that `Powers` goes through the exponents one by one.
TLC checked `Inv` on the instance of the run, and with three threads, before it
was proved.

`HashMapPromise_proofs` proves what callers of the map rely on, on top of `Inv`:
that no key is in it twice (`NoKeyTwice`), that its size is right (`SizeIsRight`,
which is `SizeIsDistance`), and that every step of `ConcurrentHashMap` is a step of
`ConcurrentMap` or is not seen (`PromiseKept`, which is `KeepsPromise`). The abstract
map has no fairness; that calls return is for TLC. The hypothesis of all of them is
`SwapsMatch`: no scenario swaps maps whose `on_init_size` differs, or undoes a swap of
maps whose mask or size does. Without it `SizeIsDistance` is false, since a swap leaves
`on_init_size` behind and an aborted one the mask and the size (see above). The passing
run satisfies it. The invariant is `Promise`:

* `Placed`, of either table: the buckets that some mask leads to for a key are a
  chain, each the parent of the next, and an element is in the last of them that
  was reached, which is to say marked or not empty. From that `KeysUnique` follows;
  `Placed` needs of one list only that it has no key twice;
* `CallerOK`, of a thread: the mask it read is one that the table had; what `Absent`
  says of the key that it is about to insert: no element has it and no later
  bucket of its chain was reached; while it fills a bucket, what it took from the
  parent; the key of the node that it works on; and which answers are still to come;
* `Marking`: a bucket that was reached and is not marked, or whose parent is not, is
  about to be marked, or was in use when all calls that are under way read the
  mask. The latter is what a crash leaves, which takes back flags that were not
  flushed: a thread that finds nothing must not take such a bucket for one that was
  never reached;
* `AccessorsOK`, `Accessed`, `Owned`: whose accessors are for which nodes, in which
  mode; nobody has one for a node that is being inserted or erased;
* `SizesOK`: what threads have counted and `on_init_size` add up to the number of
  elements at every step, `my_size` up to the threads that are between a
  transaction and its count.

The argument for `check_mask_race` is `NoneLater`: a thread that finds nothing in its
bucket and no mask race (`check_rehashing_collision` looks at the flag of the next
bucket of the chain only) knows `Absent`. No other thread makes it false while
the bucket is locked (`OthersFresh`): to reach a later bucket of the chain one has to
lock this one or a bucket that was reached from it. `Evolves` is what a step
does to the keys of a table outside of the buckets that its thread has locked, and
`OthersKept` that this keeps the `CallerOK` of the others. `HashMapTable_proofs` has the
lemmas about tables: `MovePlaced`, `RehashPlaced`, `FilledPlaced`, `ClearPlaced`,
`SwapPlaced`, `InitializePlaced`. The sum over `size_diff` is a recursive function;
`TotalAdd` and `TotalResize`, on what a thread's count and the growth of the storage do
to it, are by least counterexample, as above.

For the refinement there is a lemma per action, named after it (`SearchHitSeen`,
`InsertNodeSeen`). `KeyFree` is the link between node locks and keys: if the
lock of a node can be taken in some mode, then the abstract `Free` holds of its key,
as whoever holds the key's element has an accessor for this very node, or has just
inserted it and has its bucket locked. TLC checked the parts of `Promise` on the
instance of the run.

Only model-checked are the other containers (vectors, strings, inline strings),
the skip list and its refinement, the radix tree, and the
comparisons and searches (`FixedQueriesAsStd`). Most of these models compute with
recursive operators, folds or whole contents, which takes induction over data; the
plan says where a proof is in reach. All that holds under fairness
(`FullSyncReturns`, `EverythingConsumed`, `EveryCallReturns`, `ReadsReturn`) and
the absence of deadlock are out of the prover's reach.

## Plan

The models are in place; what is left are proofs, in this order:

1. inline strings, on the lemmas about pools in `Array_proofs`: a cell that is added without
   a snapshot lies behind the committed characters, which is what the finding
   about `'\0'` contradicts when a string was made shorter before; `std::copy` is a
   recursive function over positions, where an argument by least counterexample
   as in `MpscQueue_proofs` applies;
2. the skip list's locks under insertion. Its levels are found by recursive
   searches and stay with TLC.

`RadixTree` and the models of vectors and of `basic_string` use recursion over
data, or compute whole contents, and stay with TLC.

## Not modelled

* `volatile_state` and the id manager: where a model needs them, a restart resets
  the volatile state, and threads have fixed ids. With one queue or map per
  process that is what they give.
* Allocation outside of transactions, pools, persistent and self-relative
  pointers, mutexes, condition variables, `v<>`, `defrag`: thin wrappers of
  libpmemobj or arithmetic on addresses; the models use what they give.
* `radix_tree`: swapping, moving and copying whole trees, printing, the layout of
  leaves, and the mode without readers, which assigns in place and frees at once.
  A rollback beside a reader is left out: what was linked in the transaction is
  freed, and what a reader then loads is not defined.
* `basic_string`: streams, hashing, numeric conversions.
* Sequential containers: a snapshot or a `pmemobj_tx_free` that fails; calling
  methods of a container after one threw half-way and the application caught it
  in the same transaction: most would go through a null pointer.
  `LIBPMEMOBJ_CPP_FLAT_TX_USE_FAILURE_RETURN` is at its default.
* Formatting, exceptions' texts, type traits, Valgrind annotations; libpmemobj
  itself beyond its contract; moving an `ebr` or queue worker; the failure of an
  outermost `pmemobj_tx_begin`. Weak memory orders are modelled where the
  code relies on more than the atomics' sequential consistency (`seen_off`).

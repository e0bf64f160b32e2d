-------------------------- MODULE ConcurrentHashMap -------------------------
(***************************************************************************)
(* concurrent_hash_map: threads that look up, insert and erase elements of *)
(* a table whose buckets double while they work, and a crash at any step.  *)
(*                                                                         *)
(* A call reads the mask once, locks the bucket the mask leads to and      *)
(* searches its list.  A bucket that was added since is filled from its    *)
(* parent by the first thread that locks it (rehash_bucket), which locks   *)
(* the parent too, and so on up.  A thread that finds nothing must make    *)
(* sure that the mask it used is not out of date.  What a call returns may *)
(* be an accessor: a lock on the node.  Locks are those of the default     *)
(* ScopedLockType, which are taken in their final mode at once.            *)
(*                                                                         *)
(* A transaction is one step: no other thread sees the lists of the        *)
(* buckets that it changes, and a crash keeps all of it or nothing.        *)
(***************************************************************************)
EXTENDS HashMapTable

CONSTANTS
    Threads,            \* by their ids, from 0 on
    Scenarios           \* what the threads may do, see below

(***************************************************************************)
(* A scenario bounds a behaviour:                                          *)
(*   lists     what the map may hold at first, or be assigned, each key    *)
(*             once: internal_copy() does not look whether it is there       *)
(*   ops       the calls that threads make, each <<function, mode of the   *)
(*             accessor it asks for>>                                      *)
(*   keys      the keys they are about                                     *)
(*   values    the values they give                                        *)
(*   ranges    <<start_percent, amount_percent>> of defragment()           *)
(*   alone     the calls that one thread makes alone                       *)
(*   any_sizes whether maps of different sizes may be swapped              *)
(*   calls     the number of calls                                         *)
(*   crashes   the number of crashes                                       *)
(***************************************************************************)
ASSUME ThreadAssumption == Threads \subseteq Nat /\ IsFiniteSet(Threads) /\ None \notin Threads
ASSUME ScenarioAssumption ==
    \A s \in Scenarios :
        /\ s.keys \subseteq Keys /\ s.values \subseteq Values
        /\ \A list \in s.lists :
            /\ list \in Seq([key : Keys, val : Values])
            /\ Len(list) <= 2 ^ number_of_segments
            /\ \A i, k \in DOMAIN list : list[i].key = list[k].key => i = k
        /\ \A r \in s.ranges : r[1] \in Nat /\ r[2] \in Nat /\ r[1] + r[2] <= 100

VARIABLES
    table,              \* the map
    other,              \* another map, to swap with
    th,                 \* what each thread is doing
    acc,                \* the accessor of each thread
    grower,             \* the owner of my_segment_enable_mutex
    tlslock,            \* the owner of the mutex of tls
    up,                 \* runtime_initialize() has run
    calls, crashes,     \* how many are left
    scenario

vars == <<table, other, th, acc, grower, tlslock, up, calls, crashes, scenario>>
env == <<other, up, calls, crashes, scenario>>

NoAccessor == [id |-> None, mode |-> "none"]
NoCall == [op |-> "none", key |-> None, val |-> None, mode |-> "none", ret |-> "none"]

\* A thread between two calls.
AfterCall(call) ==
    [pc |-> "idle", call |-> call, m |-> 0, path |-> <<>>, locks |-> {}, id |-> None,
     new_size |-> 0, from |-> 0, saved |-> {}]

Idle == [t \in Threads |-> AfterCall(NoCall)]

Hash(t) == hasher[th[t].call.key]

\* The bucket a thread is about to lock, or has locked last.
Top(t) == Last(th[t].path)

\* The bucket that a call is about.
Target(t) == Head(th[t].path)

UsedIds == {n.id : n \in NodesIn(table) \cup NodesIn(other)}
FreeIds == NodeIds \ UsedIds

\* The addresses that an allocator would choose.
ListIds(list) == CHOOSE ids \in Addresses(list, FreeIds) : TRUE
HasRoom(list) == Addresses(list, FreeIds) # {}

Quiet == up /\ \A t \in Threads : th[t].pc = "idle" /\ acc[t] = NoAccessor

-----------------------------------------------------------------------------
(* Locks.  `locks' is the set of the buckets that a thread has locked, each *)
(* with the mode.  A mutex is not recursive.                                *)

Compatible(mode1, mode2) == mode1 = "read" /\ mode2 = "read"

BucketFree(b, mode) ==
    \A u \in Threads : \A l \in th[u].locks : l[1] = b => Compatible(l[2], mode)

ItemFree(id, mode) ==
    \A u \in Threads : acc[u].id = id => Compatible(acc[u].mode, mode)

\* initial_rw_state(): the mode in which a call locks its bucket.
BucketMode(op) == IF op \in {"count", "find"} THEN "read" ELSE "write"

-----------------------------------------------------------------------------
(* Calls *)

\* Every call starts by reading the mask.
Start(t, call, m, bucket, from) ==
    /\ up /\ th[t].pc = "idle" /\ acc[t] = NoAccessor
    /\ calls > 0 /\ calls' = calls - 1
    /\ th' = [th EXCEPT ![t] = [AfterCall(call) EXCEPT !.pc = "bucket", !.m = m,
                                    !.path = <<bucket>>, !.from = from]]
    /\ UNCHANGED <<table, other, acc, grower, tlslock, up, crashes, scenario>>

Request(op, k, v, mode) == [op |-> op, key |-> k, val |-> v, mode |-> mode, ret |-> "pending"]

Keyed(t, op, k, v, mode) ==
    /\ <<op, mode>> \in scenario.ops
    /\ Start(t, Request(op, k, v, mode), table.my_mask, Masked(hasher[k], table.my_mask), 0)

count(t) == \E k \in scenario.keys : Keyed(t, "count", k, None, "none")
find(t) == \E k \in scenario.keys, mode \in {"read", "write"} : Keyed(t, "find", k, None, mode)
insert(t) ==
    \E k \in scenario.keys, v \in scenario.values, mode \in {"none", "read", "write"} : Keyed(t, "insert", k, v, mode)
insert_or_assign(t) ==
    \E k \in scenario.keys, v \in scenario.values : Keyed(t, "insert_or_assign", k, v, "write")
erase(t) == \E k \in scenario.keys : Keyed(t, "erase", k, None, "none")

\* defragment() locks a range of buckets, from the last to the first.
defragment(t) ==
    \E r \in scenario.ranges :
        Start(t, Request("defragment", None, None, "none"), table.my_mask,
              ((r[1] + r[2]) * table.my_mask) \div 100, (r[1] * table.my_mask) \div 100)

\* The accessor a call was given is used, and at last released.
StoreThroughAccessor(t) ==
    /\ th[t].pc = "idle" /\ acc[t].mode = "write"
    /\ \E v \in scenario.values : table' = StoreValue(table, acc[t].id, v)
    /\ UNCHANGED <<th, acc, grower, tlslock, env>>

ReleaseAccessor(t) ==
    /\ th[t].pc = "idle" /\ acc[t] # NoAccessor
    /\ acc' = [acc EXCEPT ![t] = NoAccessor]
    /\ UNCHANGED <<table, th, grower, tlslock, env>>

-----------------------------------------------------------------------------
(* bucket_accessor::acquire() and rehash_bucket() *)

\* The bucket at the end of the path is locked and rehashed: it was the one
\* the call wanted, or the parent that rehash_bucket() of the bucket before it
\* waits for.
Acquired(r) ==
    IF Len(r.path) = 1 THEN [r EXCEPT !.pc = "search"]
    ELSE [r EXCEPT !.pc = "move", !.path = Front(@)]

\* The flag is read before the bucket is locked.
CheckRehashed(t) ==
    /\ th[t].pc = "bucket"
    /\ th' = [th EXCEPT ![t].pc = IF Top(t) \in table.rehashed THEN "lock" ELSE "try"]
    /\ UNCHANGED <<table, acc, grower, tlslock, env>>

\* try_acquire(): whoever gets the lock first rehashes the bucket, unless it
\* was rehashed since the flag was read.
TryLock(t) ==
    /\ th[t].pc = "try"
    /\ LET b == Top(t)
           locked == [th[t] EXCEPT !.locks = @ \cup {<<b, "write">>}]
       IN  \/ /\ ~BucketFree(b, "write")
              /\ th' = [th EXCEPT ![t].pc = "lock"]
              /\ UNCHANGED table
           \/ /\ BucketFree(b, "write") /\ b \in table.rehashed
              /\ th' = [th EXCEPT ![t] = Acquired(locked)]
              /\ UNCHANGED table
           \/ /\ BucketFree(b, "write") /\ b \notin table.rehashed
              /\ MovedBeforeCrash(table, b)
              /\ th' = [th EXCEPT ![t] = [locked EXCEPT !.pc = "persist"]]
              /\ table' = set_rehashed(table, b)
           \/ /\ BucketFree(b, "write") /\ b \notin table.rehashed
              /\ ~MovedBeforeCrash(table, b)
              /\ th' = [th EXCEPT ![t] = [locked EXCEPT !.pc = "bucket",
                                                        !.path = Append(@, Parent(b))]]
              /\ UNCHANGED table
    /\ UNCHANGED <<acc, grower, tlslock, env>>

\* acquire() of the lock: it waits.  A parent is locked for writing.
LockBucket(t) ==
    /\ th[t].pc = "lock"
    /\ LET mode == IF Len(th[t].path) > 1 THEN "write" ELSE BucketMode(th[t].call.op)
           locked == [th[t] EXCEPT !.locks = @ \cup {<<Top(t), mode>>}]
       IN  /\ BucketFree(Top(t), mode)
           /\ th' = [th EXCEPT ![t] = Acquired(locked)]
    /\ UNCHANGED <<table, acc, grower, tlslock, env>>

\* The transaction of rehash_bucket().
RehashBucket(t) ==
    /\ th[t].pc = "move"
    /\ table' = MoveNodes(table, Top(t))
    /\ th' = [th EXCEPT ![t].pc = "mark"]
    /\ UNCHANGED <<acc, grower, tlslock, env>>

MarkRehashed(t) ==
    /\ th[t].pc = "mark"
    /\ table' = set_rehashed(table, Top(t))
    /\ th' = [th EXCEPT ![t].pc = "persist"]
    /\ UNCHANGED <<acc, grower, tlslock, env>>

\* rehash_bucket() returns, which unlocks the parent.
PersistRehashed(t) ==
    /\ th[t].pc = "persist"
    /\ table' = persist_rehashed(table, Top(t))
    /\ LET unlocked == [th[t] EXCEPT !.locks = {l \in @ : l[1] # Parent(Top(t))}]
       IN  th' = [th EXCEPT ![t] = Acquired(unlocked)]
    /\ UNCHANGED <<acc, grower, tlslock, env>>

-----------------------------------------------------------------------------
(* internal_find(), internal_insert() and internal_erase() with the bucket  *)
(* locked                                                                   *)

Answered(r, ret) == [r EXCEPT !.call.ret = IF ret THEN "true" ELSE "false"]

\* The call returns; insert_or_assign() destroys its accessor.
Return(t, r) ==
    /\ th' = [th EXCEPT ![t] = AfterCall(r.call)]
    /\ acc' = IF r.call.op = "insert_or_assign" THEN [acc EXCEPT ![t] = NoAccessor] ELSE acc

\* Mutant: the bucket is not released.
Retry_NoRelease(t) ==
    th' = [th EXCEPT ![t] = [@ EXCEPT !.pc = "bucket", !.m = table.my_mask,
                                      !.path = <<Masked(Hash(t), table.my_mask)>>]]

\* The bucket is released and the call starts over with the mask of now.
Retry(t) ==
    th' = [th EXCEPT ![t] = [@ EXCEPT !.pc = "bucket", !.m = table.my_mask, !.locks = {},
                                      !.path = <<Masked(Hash(t), table.my_mask)>>]]

SearchMiss(t) ==
    /\ th[t].pc = "search" /\ th[t].call.op # "defragment"
    /\ search_bucket(table, Target(t), th[t].call.key) = {}
    /\ \/ /\ check_mask_race(table, Hash(t), th[t].m)
          /\ Retry(t)
          /\ UNCHANGED acc
       \/ /\ ~check_mask_race(table, Hash(t), th[t].m)
          /\ th[t].call.op \in {"insert", "insert_or_assign"}
          /\ th' = [th EXCEPT ![t].pc = "local", ![t].m = table.my_mask]
          /\ UNCHANGED acc
       \/ /\ ~check_mask_race(table, Hash(t), th[t].m)
          /\ th[t].call.op \in {"count", "find", "erase"}
          /\ Return(t, Answered(th[t], FALSE))
    /\ UNCHANGED <<table, grower, tlslock, env>>

SearchHit(t) ==
    /\ th[t].pc = "search" /\ th[t].call.op # "defragment"
    /\ LET found == search_bucket(table, Target(t), th[t].call.key)
       IN  /\ found # {}
           /\ IF th[t].call.mode = "none" /\ th[t].call.op # "erase"
              THEN Return(t, Answered(th[t], th[t].call.op = "count"))
              ELSE /\ th' = [th EXCEPT ![t].pc = "item", ![t].id = (CHOOSE n \in found : TRUE).id]
                   /\ UNCHANGED acc
    /\ UNCHANGED <<table, grower, tlslock, env>>

\* try_acquire_item() gives up after a while, with the bucket still locked.
TryItem(t) ==
    /\ th[t].pc = "item"
    /\ LET r == th[t]
           mode == IF r.call.op = "erase" THEN "write" ELSE r.call.mode
           unlocked == [r EXCEPT !.locks = {}]
       IN  \/ /\ ~ItemFree(r.id, mode)
              /\ Retry(t)
              /\ UNCHANGED acc
           \/ /\ ItemFree(r.id, mode) /\ r.call.op = "erase"
              /\ th' = [th EXCEPT ![t].pc = "local"]
              /\ UNCHANGED acc
           \/ /\ ItemFree(r.id, mode) /\ r.call.op # "erase"
              /\ acc' = [acc EXCEPT ![t] = [id |-> r.id, mode |-> mode]]
              /\ th' = [th EXCEPT ![t] =
                    IF r.call.ret = "true" THEN [unlocked EXCEPT !.pc = "grow"]
                    ELSE IF r.call.op = "insert_or_assign" THEN [unlocked EXCEPT !.pc = "assign"]
                    ELSE AfterCall(Answered(r, r.call.op = "find").call)]
    /\ UNCHANGED <<table, grower, tlslock, env>>

\* thread_size_diff(): tls_ptr->local().
ChangePc(op) == IF op = "erase" THEN "erase" ELSE "insert"

LocalSizeDiff(t) ==
    /\ th[t].pc = "local"
    /\ IF FastPath(table.tls, t)
       THEN th' = [th EXCEPT ![t].pc = ChangePc(th[t].call.op)] /\ UNCHANGED <<table, tlslock>>
       ELSE /\ tlslock = None
            /\ tlslock' = t
            /\ table' = [table EXCEPT !.tls = resize(@, t)]
            /\ th' = [th EXCEPT ![t].pc = "cache"]
    /\ UNCHANGED <<acc, grower, env>>

CacheTlsSize(t) ==
    /\ th[t].pc = "cache"
    /\ table' = [table EXCEPT !.tls = set_cached_size(@)]
    /\ tlslock' = None
    /\ th' = [th EXCEPT ![t].pc = ChangePc(th[t].call.op)]
    /\ UNCHANGED <<acc, grower, env>>

\* The transaction of insert_new_node().
InsertNode(t) ==
    /\ th[t].pc = "insert" /\ FreeIds # {}
    /\ LET n == [id |-> CHOOSE id \in FreeIds : TRUE, key |-> th[t].call.key, val |-> th[t].call.val]
       IN  /\ table' = [insert_new_node_internal(table, Target(t), n) EXCEPT !.tls = Add(@, t, 1)]
           /\ th' = [th EXCEPT ![t] = [Answered(@, TRUE) EXCEPT !.pc = "count", !.id = n.id]]
    /\ UNCHANGED <<acc, grower, tlslock, env>>

\* The size that all threads see is counted apart.
CountInserted(t) ==
    /\ th[t].pc = "count"
    /\ table' = [table EXCEPT !.my_size = @ + 1]
    /\ LET counted == [th[t] EXCEPT !.new_size = table.my_size + 1]
       IN  th' = [th EXCEPT ![t] =
                    IF th[t].call.mode = "none" THEN [counted EXCEPT !.pc = "grow", !.locks = {}]
                    ELSE [counted EXCEPT !.pc = "item"]]
    /\ UNCHANGED <<acc, grower, tlslock, env>>

\* insert_or_assign() of a key that is there, in a transaction.
AssignItem(t) ==
    /\ th[t].pc = "assign"
    /\ table' = StoreValue(table, th[t].id, th[t].call.val)
    /\ Return(t, Answered(th[t], FALSE))
    /\ UNCHANGED <<grower, tlslock, env>>

\* The transaction of internal_erase().
EraseNode(t) ==
    /\ th[t].pc = "erase"
    /\ table' = [delete_node(table, Target(t), th[t].id) EXCEPT !.tls = Add(@, t, -1)]
    /\ th' = [th EXCEPT ![t] = [Answered(@, TRUE) EXCEPT !.pc = "uncount"]]
    /\ UNCHANGED <<acc, grower, tlslock, env>>

CountErased(t) ==
    /\ th[t].pc = "uncount"
    /\ table' = [table EXCEPT !.my_size = @ - 1]
    /\ Return(t, th[t])
    /\ UNCHANGED <<grower, tlslock, env>>

-----------------------------------------------------------------------------
(* check_growth() and enable_segment(), with no bucket locked *)

NewSegment(t) == Log2(th[t].m + 1)

\* The number of segments is bounded.
CheckGrowth(t) ==
    /\ th[t].pc = "grow"
    /\ IF /\ th[t].new_size >= th[t].m /\ grower = None /\ table.my_mask = th[t].m
          /\ NewSegment(t) < number_of_segments
       THEN grower' = t /\ th' = [th EXCEPT ![t].pc = "enable"] /\ UNCHANGED acc
       ELSE Return(t, th[t]) /\ UNCHANGED grower
    /\ UNCHANGED <<table, tlslock, env>>

\* The transaction that allocates the segment.
EnableSegment(t) ==
    /\ th[t].pc = "enable"
    /\ table' = IF is_valid(table, NewSegment(t)) THEN table ELSE enable(table, NewSegment(t))
    /\ th' = [th EXCEPT ![t].pc = "publish"]
    /\ UNCHANGED <<acc, grower, tlslock, env>>

\* The new mask is stored, and the mutex released.
PublishMask(t) ==
    /\ th[t].pc = "publish"
    /\ table' = [table EXCEPT !.my_mask = NewMask(NewSegment(t))]
    /\ grower' = None
    /\ Return(t, th[t])
    /\ UNCHANGED <<tlslock, env>>

-----------------------------------------------------------------------------
(* defragment() with another bucket of its range locked *)

\* Mutant: nothing is skipped.
SaveNodes_All(t) ==
    /\ th[t].pc = "search" /\ th[t].call.op = "defragment"
    /\ LET b == Target(t)
           ids == {n.id : n \in table.node_list[b]}
           usable == TRUE
           seen == [th[t] EXCEPT !.locks = IF usable THEN @ ELSE @ \ {<<b, "write">>},
                                 !.saved = IF usable THEN @ \cup ids ELSE @]
       IN  th' = [th EXCEPT ![t] = IF b = seen.from THEN [seen EXCEPT !.pc = "defrag"]
                                   ELSE [seen EXCEPT !.pc = "bucket", !.path = <<b - 1>>]]
    /\ UNCHANGED <<table, acc, grower, tlslock, env>>

\* push_and_try_lock(): the bucket is skipped if an element of it is in use.
SaveNodes(t) ==
    /\ th[t].pc = "search" /\ th[t].call.op = "defragment"
    /\ LET b == Target(t)
           ids == {n.id : n \in table.node_list[b]}
           usable == \A id \in ids : ItemFree(id, "write")
           seen == [th[t] EXCEPT !.locks = IF usable THEN @ ELSE @ \ {<<b, "write">>},
                                 !.saved = IF usable THEN @ \cup ids ELSE @]
       IN  th' = [th EXCEPT ![t] = IF b = seen.from THEN [seen EXCEPT !.pc = "defrag"]
                                   ELSE [seen EXCEPT !.pc = "bucket", !.path = <<b - 1>>]]
    /\ UNCHANGED <<table, acc, grower, tlslock, env>>

RunDefrag(t) ==
    /\ th[t].pc = "defrag"
    /\ Return(t, Answered(th[t], TRUE))
    /\ UNCHANGED <<table, grower, tlslock, env>>

-----------------------------------------------------------------------------
(* Operations of one thread alone *)

\* An operation that no other thread may overlap.
Alone(name) ==
    /\ name \in scenario.alone
    /\ Quiet
    /\ calls > 0 /\ calls' = calls - 1
    /\ UNCHANGED <<acc, grower, tlslock, scenario>>

clear_map ==
    /\ Alone("clear")
    /\ table' = ClearTable(table)
    /\ UNCHANGED <<other, th, up, crashes>>

rehash_map ==
    /\ Alone("rehash")
    /\ \E n \in 1 .. 2 ^ number_of_segments : table' = rehash(table, n)
    /\ UNCHANGED <<other, th, up, crashes>>

assign_list ==
    /\ Alone("assign")
    /\ \E list \in scenario.lists, in_tx \in BOOLEAN :
        HasRoom(list) /\ table' = AssignTable(table, list, ListIds(list), in_tx, 0)
    /\ UNCHANGED <<other, th, up, crashes>>

\* Outside a transaction an assignment is several: a crash may come between
\* two of them.
assign_list_cut ==
    /\ Alone("assign")
    /\ crashes > 0 /\ crashes' = crashes - 1
    /\ \E list \in scenario.lists : \E n \in 0 .. Len(list) :
        /\ HasRoom(list)
        /\ table' = internal_copy(reserve(ClearTable(table), Len(list)), SubSeq(list, 1, n),
                                  ListIds(list), FALSE, 0)
    /\ th' = Idle /\ up' = FALSE
    /\ UNCHANGED other

\* With the code as it is the number of elements that a swap leaves behind is
\* right only while on_init_size is the same in both maps.
swap ==
    /\ Alone("swap")
    /\ scenario.any_sizes \/ table.on_init_size = other.on_init_size
    /\ table' = internal_swap(table, other) /\ other' = internal_swap(other, table)
    /\ UNCHANGED <<th, up, crashes>>

\* A swap in a transaction that is aborted.  With the code as it is the mask and
\* the size of the other map stay swapped, which is right only if they are equal.
swap_undone ==
    /\ Alone("undone swap")
    /\ \/ scenario.any_sizes
       \/ other.my_mask = table.my_mask /\ other.my_size = table.my_size
    /\ other' = SwapUndone(table, other)
    /\ UNCHANGED <<table, th, up, crashes>>

-----------------------------------------------------------------------------
(* Crashes *)

\* Locks, the mask, the size and what the threads were doing are lost, and
\* any flag that was not yet flushed may be.
Crash ==
    /\ up /\ crashes > 0 /\ crashes' = crashes - 1
    /\ \E kept \in SUBSET (table.rehashed \ table.durable) :
        table' = [table EXCEPT !.rehashed = table.durable \cup kept,
                               !.durable = table.durable \cup kept]
    /\ th' = Idle /\ acc' = [t \in Threads |-> NoAccessor]
    /\ grower' = None /\ tlslock' = None /\ up' = FALSE
    /\ UNCHANGED <<other, calls, scenario>>

Restart ==
    /\ ~up /\ up' = TRUE
    /\ table' = runtime_initialize(table)
    /\ other' = runtime_initialize(other)
    /\ UNCHANGED <<th, acc, grower, tlslock, calls, crashes, scenario>>

-----------------------------------------------------------------------------
\* A pool that is about to be opened, made by this version or an older one.
Init ==
    /\ scenario \in Scenarios
    /\ calls = scenario.calls /\ crashes = scenario.crashes
    /\ \E list \in scenario.lists, consistent \in BOOLEAN :
        LET built == ConstructFrom(list, CHOOSE ids \in Addresses(list, NodeIds) : TRUE, TRUE, 0)
        IN  /\ Addresses(list, NodeIds) # {}
            /\ table = IF consistent THEN built
                    ELSE [built EXCEPT !.consistent = FALSE, !.on_init_size = 0]
    /\ other = Constructed
    /\ th = Idle
    /\ acc = [t \in Threads |-> NoAccessor]
    /\ grower = None /\ tlslock = None /\ up = FALSE

Calls(t) ==
    count(t) \/ find(t) \/ insert(t) \/ insert_or_assign(t) \/ erase(t) \/ defragment(t)

\* What a thread does once it is in a call, or holds an accessor.
Step(t) ==
    \/ CheckRehashed(t) \/ TryLock(t) \/ LockBucket(t)
    \/ RehashBucket(t) \/ MarkRehashed(t) \/ PersistRehashed(t)
    \/ SearchMiss(t) \/ SearchHit(t) \/ TryItem(t) \/ LocalSizeDiff(t) \/ CacheTlsSize(t)
    \/ InsertNode(t) \/ CountInserted(t) \/ AssignItem(t) \/ EraseNode(t) \/ CountErased(t)
    \/ CheckGrowth(t) \/ EnableSegment(t) \/ PublishMask(t)
    \/ SaveNodes(t) \/ RunDefrag(t)
    \/ ReleaseAccessor(t)

Next ==
    \/ \E t \in Threads : Calls(t) \/ Step(t) \/ StoreThroughAccessor(t)
    \/ clear_map \/ rehash_map \/ assign_list \/ assign_list_cut \/ swap \/ swap_undone
    \/ Crash \/ Restart

Spec == Init /\ [][Next]_vars /\ \A t \in Threads : WF_vars(Step(t))

-----------------------------------------------------------------------------
(* Properties *)

\* What each step of a call has already done for a caller who cannot see inside
\* the table.  A node is in the map from the transaction that links it to the
\* one that unlinks it; an accessor that a call was promised with the node it
\* inserted counts as held at once, since the bucket is still locked.
Promised ==
    INSTANCE ConcurrentMap WITH
        Assigned <- {Contents(ConstructFrom(list, [i \in DOMAIN list |-> i], TRUE, 0)) :
                        list \in UNION {s.lists : s \in Scenarios}},
        map <- Contents(table),
        spare <- Contents(other),
        call <- [t \in Threads |-> th[t].call],
        held <- [t \in Threads |->
            LET c == th[t].call
                granted == \/ acc[t] # NoAccessor
                           \/ th[t].pc \in {"count", "item"} /\ c.ret = "true" /\ c.mode # "none"
            IN  IF granted /\ c.op # "insert_or_assign"
                THEN [key |-> c.key, mode |-> c.mode] ELSE [key |-> None, mode |-> "none"]]

\* concurrent_hash_map keeps the promise: whichever way the steps of the calls,
\* of the rehashing of buckets and of the growth of the table interleave, and
\* wherever a crash comes, no element is lost, doubled or found when it is not
\* there, no answer is wrong, and no accessor's element is taken from it.
KeepsPromise == Promised!Spec

\* No call waits for ever: threads that lock buckets and their parents do not
\* wait for each other, and a call that starts over does so for the last time
\* once the accessor in its way is released (internal_insert's loop).
EveryCallReturns == \A t \in Threads : th[t].pc # "idle" ~> th[t].pc = "idle"

\* The size that is kept in parts, by thread and since the pool was opened, is
\* the number of elements (runtime_initialize asserts it after a restart).
SizeIsDistance ==
    Quiet => table.my_size = distance(table) /\ other.my_size = distance(other)

\* Assertions of the code: a bucket that is searched was rehashed, and so was
\* a parent (search_bucket, acquire); buckets are in segments that exist
\* (get_bucket); a parent has no node of another bucket than its own and the
\* ones that split off it (rehash_bucket); no segment is allocated beyond those
\* the mask tells of (clear); the element of tls that a thread counts in exists
\* (local).
Asserts ==
    /\ \A t \in Threads :
        /\ th[t].pc \in {"insert", "erase"} => t < Len(table.tls.storage)
        /\ th[t].pc \in {"search", "item", "insert", "erase"} => Target(t) \in table.rehashed
        /\ th[t].pc = "move" => Parent(Top(t)) \in table.rehashed
        /\ \A i \in DOMAIN th[t].path : get_bucket(table, th[t].path[i])
    /\ \A b \in Buckets : \A n \in table.node_list[b] : Masked(hasher[n.key], OwnMask(b)) = b
    /\ Quiet => table.segments = 0 .. segment_index_of(table.my_mask)

\* While defragment() moves what the nodes of its buckets point to, no thread
\* has an accessor for one of them or is about to read or change it.
DefragmentsAlone ==
    \A t, u \in Threads :
        th[t].pc = "defrag" /\ u # t =>
            /\ acc[u].id \notin th[t].saved
            /\ th[u].pc \in {"item", "assign", "erase"} => th[u].id \notin th[t].saved
=============================================================================

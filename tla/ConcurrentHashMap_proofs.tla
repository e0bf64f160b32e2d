----------------------- MODULE ConcurrentHashMap_proofs -----------------------
(***************************************************************************)
(* The assertions of the hash map's code hold, and defragment() is alone   *)
(* with the elements it moves, for any number of threads, keys, buckets    *)
(* and calls, in whichever order their steps come, with crashes anywhere.  *)
(*                                                                         *)
(* The argument is about locks.  What a thread knows of a bucket it knows  *)
(* because it has locked it (ThreadOK), no two threads have locked a       *)
(* bucket unless both only read it (Exclusive), and a step takes nodes     *)
(* only from buckets that its thread has locked for writing (Grows).  A    *)
(* thread that waits for a lock need not look at the flag again, since     *)
(* whoever holds that lock sets the flag before it lets go (Waited).       *)
(***************************************************************************)
EXTENDS ConcurrentHashMap, HashMapTable_proofs

-----------------------------------------------------------------------------
(* The inductive invariant *)

\* A thread and what it is doing.
Keyed_ops == {"count", "find", "insert", "insert_or_assign", "erase"}
Call == [op : Keyed_ops \cup {"none", "defragment"}, key : Keys \cup {None}, val : Values \cup {None},
         mode : {"none", "read", "write"}, ret : {"none", "pending", "true", "false"}]

Descending == {"bucket", "try", "lock"}
Rehashing == {"move", "mark", "persist"}
Changing == {"local", "cache", "insert", "erase", "count", "uncount"}
Working == {"search", "item"} \cup Changing
InTable == Descending \cup Rehashing \cup Working
Unlocked == {"idle", "assign", "grow", "enable", "publish"}

Lock == Buckets \X {"read", "write"}

ThreadType(r) ==
    r \in [pc : InTable \cup Unlocked \cup {"defrag"}, call : Call, m : Nat, path : Seq(Buckets),
           locks : SUBSET Lock, id : NodeIds \cup {None}, new_size : {r.new_size},
           from : Nat, saved : SUBSET NodeIds]

Writes(r, b) == <<b, "write">> \in r.locks

\* Each bucket of the path is split off the next one.
PathOK(r) ==
    /\ r.path # <<>>
    /\ \A i, k \in 1 .. Len(r.path) : i < k => r.path[k] < r.path[i]
    /\ \A i \in 1 .. (Len(r.path) - 1) : r.path[i] >= 2 /\ r.path[i + 1] = Parent(r.path[i])
    /\ r.pc \in Working => Len(r.path) = 1

\* The bucket of a key is one that some mask leads to.
KeyedOK(r) ==
    r.call.op # "defragment" =>
        /\ r.call.op # "none" /\ r.call.key \in Keys
        /\ Masked(hasher[r.call.key], OwnMask(Head(r.path))) = Head(r.path)

TopOf(r) == r.path[Len(r.path)]

\* The locks that the thread has at least, and
LocksHeld(r) ==
    /\ \A i \in 1 .. (Len(r.path) - 1) : Writes(r, r.path[i])
    /\ r.pc \in Rehashing => TopOf(r) >= 2 /\ Writes(r, TopOf(r))
    /\ r.pc \in {"move", "mark"} => Writes(r, Parent(TopOf(r)))
    /\ r.pc \in Working => \E l \in r.locks : l[1] = TopOf(r)
    /\ r.pc \in Working /\ r.call.op \notin {"count", "find"} => Writes(r, TopOf(r))

\* what is to be said of all it has.
LocksExplained(r, tab) ==
    \A l \in r.locks :
        \/ l[1] \in tab.rehashed
        \/ /\ r.pc \in Descending \cup Rehashing /\ l[2] = "write"
           /\ \E i \in 1 .. Len(r.path) : r.path[i] = l[1]

CallOK(r) ==
    /\ r.pc \in {"item"} \cup Changing => r.call.op # "defragment"
    /\ r.pc \in {"insert", "count"} => r.call.op \in {"insert", "insert_or_assign"}
    /\ r.pc \in {"erase", "uncount"} => r.call.op = "erase"
    /\ r.pc = "assign" => r.call.op = "insert_or_assign"
    /\ r.pc \in {"local", "cache"} => r.call.op \in {"insert", "insert_or_assign", "erase"}
    /\ r.pc # "idle" /\ r.call.op \in {"insert", "insert_or_assign"} => r.call.val \in Values

\* The node that a call works on is in the bucket it has locked.
HasItem(r) ==
    \/ r.pc \in {"item", "erase", "count"}
    \/ r.pc \in {"local", "cache"} /\ r.call.op = "erase"
ItemOK(r, tab) == HasItem(r) => r.id \in IdsOf(tab, Head(r.path))

\* What defragment() has saved is in buckets that it has locked, and these come
\* after the bucket it is at.
SavedOK(r, tab) ==
    \A id \in r.saved :
        \E b \in Buckets :
            Writes(r, b) /\ id \in IdsOf(tab, b) /\ (r.pc \in InTable => b > Head(r.path))

\* The bucket defragment() is at is of the range.
RangeOK(r) == r.call.op = "defragment" => r.from <= Head(r.path)

ThreadOK(t, r, tab) ==
    /\ ThreadType(r)
    /\ CallOK(r)
    /\ r.pc = "idle" => r = AfterCall(r.call)
    /\ r.pc \in Unlocked => r.locks = {} /\ r.saved = {}
    /\ \A i \in 1 .. Len(r.path) : r.path[i] <= tab.my_mask
    /\ r.pc \in InTable => PathOK(r) /\ KeyedOK(r) /\ LocksHeld(r) /\ RangeOK(r)
    /\ r.pc = "persist" => TopOf(r) \in tab.rehashed
    /\ LocksExplained(r, tab)
    /\ ItemOK(r, tab)
    /\ SavedOK(r, tab)
    /\ r.saved # {} => r.call.op = "defragment"
    /\ r.pc \in {"cache", "insert", "erase"} => t < Len(tab.tls.storage)

\* A bucket is locked by one thread, unless by several that only read it.
Exclusive ==
    \A t, u \in Threads : \A k \in th[t].locks, l \in th[u].locks :
        k[1] = l[1] => (t = u /\ k = l) \/ Compatible(k[2], l[2])

\* A thread waits for a lock on a bucket that is rehashed or locked.
Waited ==
    \A t \in Threads : th[t].pc = "lock" =>
        Top(t) \in table.rehashed \/ \E u \in Threads : \E l \in th[u].locks : l[1] = Top(t)

AccessorType == [id : NodeIds \cup {None}, mode : {"none", "read", "write"}]

\* An element that defragment() has saved has no accessor.
NotSaved == \A t, u \in Threads : acc[u].id \notin th[t].saved

\* insert_or_assign() has an accessor for the element it assigns to.
Assigning == \A t \in Threads : th[t].pc = "assign" => acc[t].id = th[t].id

\* The mutex is held while a segment is added.
GrowerOK ==
    /\ grower \in Threads \cup {None}
    /\ \A t \in Threads : th[t].pc \in {"enable", "publish"} <=> grower = t
    /\ \A t \in Threads : grower = t =>
        th[t].m = table.my_mask /\ Log2(th[t].m + 1) < number_of_segments

Publishing == \E t \in Threads : th[t].pc = "publish"

SegmentsOK ==
    /\ AllInUse(table) \/ OneToPublish(table)
    /\ Publishing => OneToPublish(table)
    /\ up /\ ~Publishing => AllInUse(table)

\* What is lost in a crash.
DownOK ==
    ~up => th = Idle /\ acc = [t \in Threads |-> NoAccessor] /\ grower = None

ThreadsOK == \A t \in Threads : ThreadOK(t, th[t], table)

Inv ==
    /\ scenario \in Scenarios
    /\ up \in BOOLEAN
    /\ DOMAIN th = Threads /\ th = [t \in Threads |-> th[t]] /\ acc \in [Threads -> AccessorType]
    /\ TableOK(table) /\ TableOK(other) /\ AllInUse(other)
    /\ ThreadsOK
    /\ Exclusive /\ Waited /\ NotSaved /\ Assigning /\ GrowerOK /\ SegmentsOK /\ DownOK

-----------------------------------------------------------------------------
(* What a step of one thread leaves to the others *)

\* The buckets that a thread has locked for writing.
Written(t) == {b \in Buckets : Writes(th[t], b)}

\* The flags that were set, the elements of tls and the nodes of the buckets
\* that did not change are still there.
Grows(tab, new, changed) ==
    /\ tab.rehashed \subseteq new.rehashed
    /\ tab.my_mask <= new.my_mask
    /\ Len(tab.tls.storage) <= Len(new.tls.storage)
    /\ \A b \in Buckets \ changed : IdsOf(tab, b) \subseteq IdsOf(new, b)

LEMMA TableFacts ==
    ASSUME NEW tab, TableOK(tab)
    PROVE  /\ tab.my_mask \in Nat /\ Len(tab.tls.storage) \in Nat /\ TlsOK(tab.tls)
           /\ \A b \in Buckets : IdsOf(tab, b) \subseteq NodeIds
<1>1. tab.my_mask \in Nat /\ TlsOK(tab.tls)
  BY DEF TableOK, TableType, TlsOK
<1>2. Len(tab.tls.storage) \in Nat
  BY <1>1 DEF TlsOK
<1>3. \A b \in Buckets : \A n \in tab.node_list[b] : n.id \in NodeIds
  BY DEF TableOK, TableType, Node
<1>4. \A b \in Buckets : IdsOf(tab, b) \subseteq NodeIds
  BY <1>3 DEF IdsOf
<1> QED BY <1>1, <1>2, <1>4

\* An id is in the list of one bucket.
LEMMA OneBucket ==
    ASSUME NEW tab, TableOK(tab), NEW b \in Buckets, NEW c \in Buckets, NEW id,
           id \in IdsOf(tab, b), id \in IdsOf(tab, c)
    PROVE  b = c
<1>1. PICK n \in tab.node_list[b] : n.id = id
  BY DEF IdsOf
<1>2. PICK m \in tab.node_list[c] : m.id = id
  BY DEF IdsOf
<1> QED BY <1>1, <1>2 DEF TableOK, OneHome

\* A bucket that a thread has locked, another has not locked for writing.
LEMMA NotWritten ==
    ASSUME Inv, NEW t \in Threads, NEW u \in Threads, u # t, NEW l \in th[u].locks
    PROVE  ~Writes(th[t], l[1])
<1>1. SUFFICES ASSUME Writes(th[t], l[1]) PROVE FALSE
  OBVIOUS
<1>2. PICK k \in th[t].locks : k = <<l[1], "write">>
  BY <1>1 DEF Writes
<1>3. k[1] = l[1] /\ k[2] = "write"
  BY <1>2
<1>4. (t = u /\ k = l) \/ Compatible(k[2], l[2])
  BY <1>3 DEF Inv, Exclusive
<1> QED BY <1>3, <1>4 DEF Compatible

\* A thread in a list has locked the list's bucket.
LEMMA WorkingBucket ==
    ASSUME NEW t, NEW r, NEW tab, ThreadOK(t, r, tab), r.pc \in Working
    PROVE  /\ Head(r.path) = TopOf(r) /\ Head(r.path) \in Buckets /\ Len(r.path) = 1
           /\ \E l \in r.locks : l[1] = Head(r.path)
           /\ \A l \in r.locks : l[1] \in tab.rehashed
           /\ Head(r.path) \in tab.rehashed
<1>1. Len(r.path) = 1 /\ r.path \in Seq(Buckets)
  BY DEF ThreadOK, PathOK, InTable, ThreadType
<1>2. Head(r.path) = r.path[1] /\ r.path[1] \in Buckets
  BY <1>1
<1>3. \E l \in r.locks : l[1] = TopOf(r)
  BY DEF ThreadOK, LocksHeld, InTable
<1>4. \A l \in r.locks : l[1] \in tab.rehashed
  BY DEF ThreadOK, LocksExplained, Working, Changing, Descending, Rehashing
<1> QED BY <1>1, <1>2, <1>3, <1>4 DEF TopOf

LEMMA OtherThread ==
    ASSUME Inv, NEW t \in Threads, NEW u \in Threads, u # t,
           NEW new, TableOK(new), Grows(table, new, Written(t))
    PROVE  ThreadOK(u, th[u], new)
<1> DEFINE r == th[u]
<1>1. ThreadOK(u, r, table) /\ TableOK(table) /\ u \in Nat
  BY ThreadAssumption DEF Inv, ThreadsOK
<1>2. \A l \in r.locks : l[1] \notin Written(t)
  BY NotWritten DEF Written
<1>3. table.my_mask \in Nat /\ new.my_mask \in Nat /\ Len(table.tls.storage) \in Nat
      /\ Len(new.tls.storage) \in Nat
  BY <1>1, TableFacts
<1> HIDE DEF r
<1>4. r.path \in Seq(Buckets)
  BY <1>1 DEF ThreadOK, ThreadType
<1>5. \A i \in 1 .. Len(r.path) : r.path[i] <= new.my_mask
  <2>1. \A i \in 1 .. Len(r.path) : r.path[i] \in Buckets
    BY <1>4
  <2>2. \A i \in 1 .. Len(r.path) : r.path[i] \in Nat
    BY <2>1, BucketsAreNumbers
  <2>3. \A i \in 1 .. Len(r.path) : r.path[i] <= table.my_mask
    BY <1>1 DEF ThreadOK
  <2>4. table.my_mask <= new.my_mask
    BY DEF Grows
  <2> QED BY <2>2, <2>3, <2>4, <1>3
<1>6. r.pc = "persist" => TopOf(r) \in new.rehashed
  BY <1>1 DEF ThreadOK, Grows
<1>7. LocksExplained(r, new)
  BY <1>1 DEF ThreadOK, LocksExplained, Grows
<1>8. ItemOK(r, new)
  <2>1. SUFFICES ASSUME HasItem(r) PROVE r.id \in IdsOf(new, Head(r.path))
    BY DEF ItemOK
  <2>2. r.pc \in Working
    BY <2>1 DEF HasItem, Working, Changing
  <2>3. Head(r.path) \in Buckets /\ Head(r.path) \notin Written(t)
    BY <1>1, <1>2, <2>2, WorkingBucket
  <2> QED BY <2>1, <2>3, <1>1 DEF ThreadOK, ItemOK, Grows
<1>9. SavedOK(r, new)
  <2>1. SUFFICES ASSUME NEW id \in r.saved
                 PROVE  \E b \in Buckets : Writes(r, b) /\ id \in IdsOf(new, b)
                                           /\ (r.pc \in InTable => b > Head(r.path))
    BY DEF SavedOK
  <2>2. PICK b \in Buckets : Writes(r, b) /\ id \in IdsOf(table, b)
                             /\ (r.pc \in InTable => b > Head(r.path))
    BY <1>1 DEF ThreadOK, SavedOK
  <2>3. b \notin Written(t)
    <3>1. PICK l \in r.locks : l = <<b, "write">>
      BY <2>2 DEF Writes
    <3> QED BY <3>1, <1>2
  <2> QED BY <2>2, <2>3 DEF Grows
<1>10. r.pc \in {"cache", "insert", "erase"} => u < Len(new.tls.storage)
  BY <1>1, <1>3 DEF ThreadOK, Grows
<1> QED BY <1>1, <1>5, <1>6, <1>7, <1>8, <1>9, <1>10 DEF ThreadOK, r

\* The locks of a thread after a step: at most one, l0, is new, and it was free;
LocksOnly(t, r, l0) ==
    \A l \in r.locks : l \in th[t].locks \/ (l = l0 /\ BucketFree(l[1], l[2]))

\* those that are given up are of buckets that are rehashed;
Lets(t, r) ==
    \A l \in th[t].locks : l[1] \in (table').rehashed \/ \E k \in r.locks : k[1] = l[1]

\* and a thread that will wait for one need not look at the flag again.
WaitsFor(r) ==
    r.pc = "lock" => \/ TopOf(r) \in (table').rehashed
                     \/ \E u \in Threads : \E l \in th[u].locks : l[1] = TopOf(r)

LEMMA StepExclusive ==
    ASSUME Inv, NEW t \in Threads, NEW r, NEW l0,
           th' = [th EXCEPT ![t] = r],
           LocksOnly(t, r, l0)
    PROVE  Exclusive'
<1>1. SUFFICES ASSUME NEW u \in Threads, NEW v \in Threads, NEW k \in th'[u].locks,
                      NEW l \in th'[v].locks, k[1] = l[1]
               PROVE  (u = v /\ k = l) \/ Compatible(k[2], l[2])
  BY DEF Exclusive
<1>2. \A w \in Threads : th'[w] = IF w = t THEN r ELSE th[w]
  BY DEF Inv
<1>3. k \in th[u].locks \/ (u = t /\ k = l0 /\ BucketFree(k[1], k[2]))
  BY <1>2 DEF LocksOnly
<1>4. l \in th[v].locks \/ (v = t /\ l = l0 /\ BucketFree(l[1], l[2]))
  BY <1>2 DEF LocksOnly
<1>5. CASE k \in th[u].locks /\ l \in th[v].locks
  BY <1>1, <1>5 DEF Inv, Exclusive
<1>6. CASE k \in th[u].locks /\ BucketFree(l[1], l[2])
  BY <1>1, <1>6 DEF BucketFree
<1>7. CASE l \in th[v].locks /\ BucketFree(k[1], k[2])
  BY <1>1, <1>7 DEF BucketFree, Compatible
<1>8. CASE u = t /\ v = t /\ k = l0 /\ l = l0
  BY <1>8
<1> QED BY <1>3, <1>4, <1>5, <1>6, <1>7, <1>8

LEMMA StepWaited ==
    ASSUME Inv, NEW t \in Threads, NEW r, th' = [th EXCEPT ![t] = r],
           table.rehashed \subseteq (table').rehashed,
           Lets(t, r), WaitsFor(r)
    PROVE  Waited'
<1>1. \A w \in Threads : th'[w] = IF w = t THEN r ELSE th[w]
  BY DEF Inv
<1>2. SUFFICES ASSUME NEW w \in Threads, th'[w].pc = "lock"
               PROVE  TopOf(th'[w]) \in (table').rehashed
                      \/ \E u \in Threads : \E l \in th'[u].locks : l[1] = TopOf(th'[w])
  BY DEF Waited, Top, Last, TopOf
<1> DEFINE b == TopOf(th'[w])
<1>3. b \in (table').rehashed \/ \E u \in Threads : \E l \in th[u].locks : l[1] = b
  <2>1. CASE w = t
    BY <1>1, <1>2, <2>1 DEF WaitsFor
  <2>2. CASE w # t
    <3>1. Waited
      BY DEF Inv
    <3> QED BY <1>1, <1>2, <2>2, <3>1 DEF Waited, Top, Last, TopOf
  <2> QED BY <2>1, <2>2
<1> HIDE DEF b
<1>4. ASSUME NEW u \in Threads, NEW l \in th[u].locks, l[1] = b
      PROVE  b \in (table').rehashed \/ \E v \in Threads : \E k \in th'[v].locks : k[1] = b
  <2>1. CASE u = t
    BY <1>1, <1>4, <2>1 DEF Lets
  <2>2. CASE u # t
    BY <1>1, <1>4, <2>2
  <2> QED BY <2>1, <2>2
<1> QED BY <1>3, <1>4 DEF b

\* A step of one thread, from what it does to its own record, its accessor and
\* the table.
LEMMA ThreadStep ==
    ASSUME Inv, NEW t \in Threads, NEW r, NEW a \in AccessorType, NEW l0, up,
           th' = [th EXCEPT ![t] = r], acc' = [acc EXCEPT ![t] = a],
           UNCHANGED <<other, up, scenario>>,
           TableOK(table'), Grows(table, table', Written(t)), ThreadOK(t, r, table'),
           LocksOnly(t, r, l0),
           Lets(t, r), WaitsFor(r),
           r.pc = "assign" => a.id = r.id,
           \A u \in Threads : a.id \notin th'[u].saved /\ acc'[u].id \notin r.saved,
           GrowerOK', SegmentsOK'
    PROVE  Inv'
<1>1. \A w \in Threads : th'[w] = IF w = t THEN r ELSE th[w]
  BY DEF Inv
<1>2. DOMAIN th' = Threads /\ th' = [w \in Threads |-> th'[w]]
  BY DEF Inv
<1>3. acc' \in [Threads -> AccessorType] /\ \A w \in Threads : acc'[w] = IF w = t THEN a ELSE acc[w]
  BY DEF Inv
<1>4. ThreadsOK'
  <2>1. SUFFICES ASSUME NEW w \in Threads PROVE ThreadOK(w, th'[w], table')
    BY DEF ThreadsOK
  <2> QED BY <1>1, OtherThread
<1>5. Exclusive'
  BY StepExclusive
<1>6. Waited'
  BY StepWaited DEF Grows
<1>7. NotSaved'
  <2>1. SUFFICES ASSUME NEW u \in Threads, NEW v \in Threads PROVE acc'[v].id \notin th'[u].saved
    BY DEF NotSaved
  <2>2. CASE u = t \/ v = t
    BY <2>2, <1>1, <1>3
  <2>3. CASE u # t /\ v # t
    BY <2>3, <1>1, <1>3 DEF Inv, NotSaved
  <2> QED BY <2>2, <2>3
<1>8. Assigning'
  BY <1>1, <1>3 DEF Inv, Assigning
<1>9. DownOK'
  BY DEF DownOK
<1>10. (scenario \in Scenarios)' /\ (up \in BOOLEAN)' /\ TableOK(other') /\ AllInUse(other')
  BY DEF Inv
<1> QED BY <1>2, <1>3, <1>4, <1>5, <1>6, <1>7, <1>8, <1>9, <1>10 DEF Inv

LEMMA IsUp ==
    ASSUME Inv, NEW t \in Threads, th[t].pc # "idle" \/ acc[t] # NoAccessor
    PROVE  up
  BY DEF Inv, DownOK, Idle, AfterCall, NoCall

\* Most steps have nothing to do with the growth of the table.
LEMMA NoGrowth ==
    ASSUME Inv, NEW t \in Threads, NEW r, th' = [th EXCEPT ![t] = r],
           th[t].pc \notin {"enable", "publish"}, r.pc \notin {"enable", "publish"},
           (table').my_mask = table.my_mask, (table').segments = table.segments,
           UNCHANGED <<grower, up>>
    PROVE  GrowerOK' /\ SegmentsOK'
<1>1. \A w \in Threads : th'[w] = IF w = t THEN r ELSE th[w]
  BY DEF Inv
<1>2. GrowerOK'
  BY <1>1 DEF Inv, GrowerOK
<1>3. AllInUse(table') = AllInUse(table) /\ OneToPublish(table') = OneToPublish(table)
  BY SameSegments
<1>4. Publishing' = Publishing
  BY <1>1 DEF Publishing
<1> QED BY <1>2, <1>3, <1>4 DEF Inv, SegmentsOK

\* A step within a call that leaves the accessor alone.
LEMMA Advance ==
    ASSUME Inv, NEW t \in Threads, NEW r, NEW l0, th[t].pc # "idle",
           th' = [th EXCEPT ![t] = r], UNCHANGED <<acc, other, up, scenario, grower>>,
           th[t].pc \notin {"enable", "publish"}, r.pc \notin {"enable", "publish", "assign"},
           (table').my_mask = table.my_mask, (table').segments = table.segments,
           TableOK(table'), Grows(table, table', Written(t)), ThreadOK(t, r, table'),
           LocksOnly(t, r, l0),
           Lets(t, r), WaitsFor(r),
           r.saved \subseteq th[t].saved
    PROVE  Inv'
<1>1. up
  BY IsUp
<1>2. GrowerOK' /\ SegmentsOK'
  BY NoGrowth
<1> DEFINE a == acc[t]
<1>3. a \in AccessorType /\ acc' = [acc EXCEPT ![t] = a]
  BY DEF Inv
<1>4. \A u \in Threads : a.id \notin th'[u].saved /\ acc'[u].id \notin r.saved
  BY DEF Inv, NotSaved
<1> HIDE DEF a
<1> QED BY <1>1, <1>2, <1>3, <1>4, ThreadStep

\* The same, when no lock is new.
LEMMA AdvanceNoLock ==
    ASSUME Inv, NEW t \in Threads, NEW r, th[t].pc # "idle",
           th' = [th EXCEPT ![t] = r], UNCHANGED <<acc, other, up, scenario, grower>>,
           th[t].pc \notin {"enable", "publish"}, r.pc \notin {"enable", "publish", "assign"},
           (table').my_mask = table.my_mask, (table').segments = table.segments,
           TableOK(table'), Grows(table, table', Written(t)), ThreadOK(t, r, table'),
           r.locks \subseteq th[t].locks,
           Lets(t, r), WaitsFor(r),
           r.saved \subseteq th[t].saved
    PROVE  Inv'
<1>1. LocksOnly(t, r, None)
  BY DEF LocksOnly
<1> QED BY <1>1, Advance

\* A step that does not change the table.
LEMMA TableKept ==
    ASSUME Inv, UNCHANGED table, NEW t \in Threads
    PROVE  /\ TableOK(table') /\ Grows(table, table', Written(t))
           /\ (table').my_mask = table.my_mask /\ (table').segments = table.segments
<1>1. TableOK(table) /\ table.my_mask \in Nat /\ Len(table.tls.storage) \in Nat
  BY TableFacts DEF Inv
<1> QED BY <1>1 DEF Grows

-----------------------------------------------------------------------------
(* acquire() and rehash_bucket() *)

LEMMA PathFacts ==
    ASSUME NEW t, NEW r, NEW tab, ThreadOK(t, r, tab), r.pc \in InTable
    PROVE  /\ r.path \in Seq(Buckets) /\ Len(r.path) \in Nat /\ Len(r.path) >= 1
           /\ Head(r.path) = r.path[1] /\ r.path[1] \in Buckets
           /\ TopOf(r) \in Buckets /\ Last(r.path) = TopOf(r)
           /\ \A i \in 1 .. Len(r.path) : r.path[i] \in Buckets /\ r.path[i] \in Nat /\ TopOf(r) <= r.path[i]
<1>1. r.path \in Seq(Buckets) /\ r.path # <<>> /\ PathOK(r)
  BY DEF ThreadOK, ThreadType, PathOK
<1>2. Len(r.path) \in Nat /\ Len(r.path) >= 1 /\ Head(r.path) = r.path[1]
  BY <1>1
<1>3. \A i \in 1 .. Len(r.path) : r.path[i] \in Buckets
  BY <1>1
<1>4. \A i \in 1 .. Len(r.path) : r.path[i] \in Nat
  BY <1>3, BucketsAreNumbers
<1>5. TopOf(r) \in Buckets /\ TopOf(r) \in Nat /\ r.path[1] \in Buckets /\ Last(r.path) = TopOf(r)
  BY <1>2, <1>3, <1>4 DEF TopOf, Last
<1>6. \A i \in 1 .. Len(r.path) : TopOf(r) <= r.path[i]
  <2>1. SUFFICES ASSUME NEW i \in 1 .. Len(r.path) PROVE TopOf(r) <= r.path[i]
    OBVIOUS
  <2>2. CASE i = Len(r.path)
    BY <2>2, <1>5 DEF TopOf
  <2>3. CASE i < Len(r.path)
    <3>1. r.path[Len(r.path)] < r.path[i]
      BY <1>1, <1>2, <2>3 DEF PathOK
    <3> QED BY <3>1, <1>2, <1>4 DEF TopOf
  <2> QED BY <2>2, <2>3, <1>2
<1> QED BY <1>1, <1>2, <1>3, <1>4, <1>5, <1>6

\* A thread that has locked the bucket at the end of its path, and found it
\* rehashed, or rehashed it.
LEMMA AcquiredOK ==
    ASSUME NEW t, NEW q, NEW tab,
           ThreadType(q), CallOK(q), q.pc \in {"try", "lock", "persist"},
           \A i \in 1 .. Len(q.path) : q.path[i] <= tab.my_mask,
           PathOK(q), KeyedOK(q), RangeOK(q), LocksExplained(q, tab), SavedOK(q, tab),
           q.saved # {} => q.call.op = "defragment",
           \A i \in 1 .. (Len(q.path) - 1) : Writes(q, q.path[i]),
           TopOf(q) \in tab.rehashed,
           \E l \in q.locks : l[1] = TopOf(q),
           Len(q.path) > 1 \/ q.call.op \notin {"count", "find"} => Writes(q, TopOf(q))
    PROVE  /\ ThreadOK(t, Acquired(q), tab)
           /\ Acquired(q).locks = q.locks /\ Acquired(q).saved = q.saved
           /\ Acquired(q).pc \in {"search", "move"}
<1> DEFINE n == Len(q.path)
<1>1. q.path \in Seq(Buckets) /\ n \in Nat /\ n >= 1 /\ \A i \in 1 .. n : q.path[i] \in Nat
  <2>1. q.path \in Seq(Buckets) /\ n \in Nat /\ n >= 1
    BY DEF ThreadType, PathOK
  <2>2. \A i \in 1 .. n : q.path[i] \in Buckets
    BY <2>1
  <2> QED BY <2>1, <2>2, BucketsAreNumbers
<1>2. CASE n = 1
  <2> DEFINE r == [q EXCEPT !.pc = "search"]
  <2>1. Acquired(q) = r
    BY <1>2 DEF Acquired
  <2>2. /\ ThreadType(r) /\ r.pc = "search" /\ r.call = q.call /\ r.path = q.path
        /\ r.locks = q.locks /\ r.saved = q.saved /\ r.from = q.from
    BY DEF ThreadType, InTable, Working
  <2> HIDE DEF r
  <2>3. /\ r.pc \in Working /\ r.pc \in InTable /\ r.pc \notin Rehashing
        /\ r.pc \notin Unlocked /\ ~HasItem(r) /\ q.pc \in InTable
    BY <2>2 DEF HasItem, InTable, Descending, Rehashing, Working, Changing, Unlocked
  <2>4. CallOK(r)
    BY <2>2 DEF CallOK, Changing
  <2>5. PathOK(r) /\ KeyedOK(r) /\ RangeOK(r)
    BY <2>2, <2>3, <1>2 DEF PathOK, KeyedOK, RangeOK
  <2>6. LocksHeld(r)
    BY <2>2, <2>3, <1>2 DEF LocksHeld, Writes, TopOf
  <2>7. LocksExplained(r, tab)
    <3>1. \A i \in 1 .. n : q.path[i] = TopOf(q)
      BY <1>2 DEF TopOf
    <3> QED BY <2>2, <3>1 DEF LocksExplained
  <2>8. ItemOK(r, tab) /\ SavedOK(r, tab)
    BY <2>2, <2>3 DEF ItemOK, SavedOK, Writes
  <2>9. ThreadOK(t, r, tab)
    BY <2>2, <2>3, <2>4, <2>5, <2>6, <2>7, <2>8 DEF ThreadOK
  <2> QED BY <2>1, <2>2, <2>9
<1>3. CASE n > 1
  <2> DEFINE r == [q EXCEPT !.pc = "move", !.path = Front(@)]
  <2>1. Acquired(q) = r
    BY <1>1, <1>3 DEF Acquired
  <2>2. /\ Front(q.path) \in Seq(Buckets) /\ Len(Front(q.path)) = n - 1
        /\ \A i \in 1 .. (n - 1) : Front(q.path)[i] = q.path[i]
        /\ Head(Front(q.path)) = Head(q.path)
    BY <1>1, <1>3 DEF Front
  <2>3. /\ ThreadType(r) /\ r.pc = "move" /\ r.call = q.call /\ r.path = Front(q.path)
        /\ r.locks = q.locks /\ r.saved = q.saved /\ r.from = q.from
    BY <2>2 DEF ThreadType, InTable, Rehashing
  <2> HIDE DEF r
  <2>4. /\ r.pc \in Rehashing /\ r.pc \in InTable /\ r.pc \notin Working
        /\ r.pc \notin Unlocked /\ ~HasItem(r) /\ q.pc \in InTable
    BY <2>3 DEF HasItem, InTable, Descending, Rehashing, Working, Changing, Unlocked
  <2>5. CallOK(r)
    BY <2>3 DEF CallOK, Changing
  <2>6. PathOK(r)
    <3>1. r.path # <<>>
      BY <1>3, <2>2, <2>3
    <3>2. \A i, k \in 1 .. (n - 1) : i < k => q.path[k] < q.path[i]
      BY <1>1 DEF PathOK
    <3>3. \A i \in 1 .. (n - 2) : q.path[i] >= 2 /\ q.path[i + 1] = Parent(q.path[i])
      BY <1>1 DEF PathOK
    <3>4. \A i \in 1 .. (n - 2) : i + 1 \in 1 .. (n - 1) /\ i \in 1 .. (n - 1)
      BY <1>1
    <3>5. Len(r.path) = n - 1 /\ \A i \in 1 .. (n - 1) : r.path[i] = q.path[i]
      BY <2>2, <2>3
    <3>6. (n - 1) - 1 = n - 2
      BY <1>1
    <3> QED BY <3>1, <3>2, <3>3, <3>4, <3>5, <3>6, <2>4 DEF PathOK
  <2>7. KeyedOK(r) /\ RangeOK(r)
    BY <2>2, <2>3 DEF KeyedOK, RangeOK
  <2>8. /\ TopOf(r) = q.path[n - 1] /\ TopOf(q) = Parent(TopOf(r)) /\ TopOf(r) >= 2
        /\ Writes(r, TopOf(r))
    <3>1. TopOf(r) = q.path[n - 1]
      BY <1>1, <1>3, <2>2, <2>3 DEF TopOf
    <3>2. n - 1 \in 1 .. (n - 1) /\ (n - 1) + 1 = n
      BY <1>1, <1>3
    <3>3. q.path[n - 1] >= 2 /\ q.path[(n - 1) + 1] = Parent(q.path[n - 1])
      BY <3>2 DEF PathOK
    <3>4. Writes(q, q.path[n - 1])
      BY <3>2
    <3> QED BY <3>1, <3>2, <3>3, <3>4, <2>3 DEF TopOf, Writes
  <2>9. LocksHeld(r)
    <3>1. \A i \in 1 .. (Len(r.path) - 1) : Writes(r, r.path[i])
      <4>1. SUFFICES ASSUME NEW i \in 1 .. (Len(r.path) - 1) PROVE Writes(r, r.path[i])
        OBVIOUS
      <4>2. i \in 1 .. (n - 1) /\ r.path[i] = q.path[i]
        BY <1>1, <2>2, <2>3
      <4>3. Writes(q, q.path[i])
        BY <4>2
      <4> QED BY <4>2, <4>3, <2>3 DEF Writes
    <3>2. Writes(r, Parent(TopOf(r)))
      BY <1>3, <2>3, <2>8 DEF Writes
    <3> QED BY <3>1, <3>2, <2>4, <2>8 DEF LocksHeld
  <2>10. LocksExplained(r, tab)
    <3>1. SUFFICES ASSUME NEW l \in q.locks, l[1] \notin tab.rehashed
                   PROVE  l[2] = "write" /\ \E i \in 1 .. Len(r.path) : r.path[i] = l[1]
      BY <2>3, <2>4 DEF LocksExplained
    <3>2. PICK i \in 1 .. n : l[2] = "write" /\ q.path[i] = l[1]
      BY <3>1 DEF LocksExplained
    <3>3. i # n
      BY <3>1, <3>2 DEF TopOf
    <3>4. i \in 1 .. (n - 1)
      BY <3>3, <1>1
    <3> QED BY <3>2, <3>4, <2>2, <2>3
  <2>11. ItemOK(r, tab) /\ SavedOK(r, tab)
    BY <2>2, <2>3, <2>4 DEF ItemOK, SavedOK, Writes
  <2>12. \A i \in 1 .. Len(r.path) : r.path[i] <= tab.my_mask
    BY <1>1, <2>2, <2>3
  <2>13. ThreadOK(t, r, tab)
    BY <2>3, <2>4, <2>5, <2>6, <2>7, <2>9, <2>10, <2>11, <2>12 DEF ThreadOK
  <2> QED BY <2>1, <2>3, <2>13
<1>4. n = 1 \/ n > 1
  <2>1. n \in Nat /\ n >= 1
    BY <1>1
  <2> HIDE DEF n
  <2> QED BY <2>1
<1> QED BY <1>2, <1>3, <1>4

LEMMA LockBucketStep ==
    ASSUME Inv, NEW t \in Threads, LockBucket(t)
    PROVE  Inv'
<1> DEFINE mode == IF Len(th[t].path) > 1 THEN "write" ELSE BucketMode(th[t].call.op)
<1> DEFINE b == TopOf(th[t])
<1> DEFINE q == [th[t] EXCEPT !.locks = @ \cup {<<b, mode>>}]
<1>1. ThreadOK(t, th[t], table) /\ th[t].pc = "lock" /\ th[t].pc \in InTable
  BY DEF Inv, ThreadsOK, LockBucket, InTable, Descending
<1>2. b \in Buckets /\ Top(t) = b /\ mode \in {"read", "write"} /\ <<b, mode>> \in Lock
  BY <1>1, PathFacts DEF Top, BucketMode, Lock
<1>3. /\ BucketFree(b, mode) /\ th' = [th EXCEPT ![t] = Acquired(q)]
      /\ UNCHANGED <<table, acc, other, up, scenario, grower>>
  BY <1>2 DEF LockBucket, env
<1>4. /\ ThreadType(q) /\ q.pc = th[t].pc /\ q.call = th[t].call /\ q.path = th[t].path
      /\ q.locks = th[t].locks \cup {<<b, mode>>} /\ q.saved = th[t].saved /\ q.from = th[t].from
  BY <1>1, <1>2 DEF ThreadOK, ThreadType
\* The bucket is rehashed: whoever had it locked saw to that.
<1>5. b \in table.rehashed
  <2>1. SUFFICES ASSUME NEW u \in Threads, NEW l \in th[u].locks, l[1] = b
                 PROVE  b \in table.rehashed
    BY <1>1, <1>2 DEF Inv, Waited
  <2>2. l[2] = "read"
    BY <1>3, <2>1 DEF BucketFree, Compatible
  <2>3. LocksExplained(th[u], table)
    BY DEF Inv, ThreadsOK, ThreadOK
  <2> QED BY <2>1, <2>2, <2>3 DEF LocksExplained
<1>6. Len(q.path) > 1 \/ q.call.op \notin {"count", "find"} => mode = "write"
  BY <1>4 DEF BucketMode
<1> HIDE DEF q, mode, b
<1>7. CallOK(q) /\ PathOK(q) /\ KeyedOK(q) /\ RangeOK(q)
  BY <1>1, <1>4 DEF ThreadOK, CallOK, PathOK, KeyedOK, RangeOK
<1>8. LocksExplained(q, table)
  <2>1. SUFFICES ASSUME NEW l \in q.locks, l[1] \notin table.rehashed
                 PROVE  /\ q.pc \in Descending \cup Rehashing /\ l[2] = "write"
                        /\ \E i \in 1 .. Len(q.path) : q.path[i] = l[1]
    BY DEF LocksExplained
  <2>2. l \in th[t].locks
    <3>1. <<b, mode>>[1] = b
      OBVIOUS
    <3> QED BY <3>1, <2>1, <1>4, <1>5
  <2> QED BY <2>1, <2>2, <1>1, <1>4 DEF ThreadOK, LocksExplained
<1>9. SavedOK(q, table)
  BY <1>1, <1>4 DEF ThreadOK, SavedOK, Writes
<1>10. TopOf(q) = b /\ \A i \in 1 .. (Len(q.path) - 1) : Writes(q, q.path[i])
  BY <1>1, <1>4 DEF ThreadOK, LocksHeld, Writes, TopOf, b
<1>11. (\E l \in q.locks : l[1] = b) /\ (mode = "write" => Writes(q, b))
  <2>1. <<b, mode>> \in q.locks /\ <<b, mode>>[1] = b
    BY <1>4
  <2> QED BY <2>1 DEF Writes
<1> DEFINE r == Acquired(q)
<1>12. ThreadOK(t, r, table) /\ r.locks = q.locks /\ r.saved = q.saved /\ r.pc \in {"search", "move"}
  <2>1. \A i \in 1 .. Len(q.path) : q.path[i] <= table.my_mask
    BY <1>1, <1>4 DEF ThreadOK
  <2>2. (q.saved # {} => q.call.op = "defragment") /\ q.pc \in {"try", "lock", "persist"}
    BY <1>1, <1>4 DEF ThreadOK
  <2> QED BY <1>4, <1>5, <1>6, <1>7, <1>8, <1>9, <1>10, <1>11, <2>1, <2>2, AcquiredOK
<1> HIDE DEF r
<1>13. LocksOnly(t, r, <<b, mode>>)
  BY <1>3, <1>4, <1>12 DEF LocksOnly
<1>14. Lets(t, r) /\ WaitsFor(r)
  BY <1>4, <1>12 DEF Lets, WaitsFor
<1>15. TableOK(table') /\ Grows(table, table', Written(t)) /\ ThreadOK(t, r, table')
       /\ (table').my_mask = table.my_mask /\ (table').segments = table.segments
  BY <1>3, <1>12, TableKept
<1>16. th' = [th EXCEPT ![t] = r]
  BY <1>3 DEF r
<1> QED BY <1>1, <1>3, <1>4, <1>12, <1>13, <1>14, <1>15, <1>16, Advance

\* A thread that stays where it is on its path.
LEMMA SamePath ==
    ASSUME NEW t, NEW old, NEW tab, ThreadOK(t, old, tab), old.pc \in Descending \cup Rehashing,
           NEW r, NEW new, ThreadType(r), r.pc \in Descending \cup Rehashing,
           r.call = old.call, r.path = old.path, r.saved = old.saved, r.from = old.from,
           old.locks \subseteq r.locks,
           \A l \in r.locks : l \in old.locks \/ l = <<TopOf(old), "write">>,
           r.pc \in Rehashing => TopOf(r) >= 2 /\ Writes(r, TopOf(r)),
           r.pc \in {"move", "mark"} => Writes(r, Parent(TopOf(r))),
           r.pc = "persist" => TopOf(r) \in new.rehashed,
           tab.rehashed \subseteq new.rehashed, new.my_mask = tab.my_mask,
           \A b \in Buckets : b > Head(r.path) => IdsOf(tab, b) \subseteq IdsOf(new, b)
    PROVE  ThreadOK(t, r, new)
<1>1. /\ r.pc \in InTable /\ old.pc \in InTable /\ r.pc \notin Working /\ old.pc \notin Working
      /\ r.pc \notin Unlocked /\ r.pc # "idle" /\ ~HasItem(r)
      /\ r.pc \notin {"cache", "insert", "erase"}
  BY DEF HasItem, InTable, Descending, Rehashing, Working, Changing, Unlocked
<1>2. CallOK(r)
  <2>1. /\ r.pc \notin {"item"} \cup Changing /\ r.pc \notin {"insert", "count"}
        /\ r.pc \notin {"erase", "uncount"} /\ r.pc \notin {"local", "cache"} /\ r.pc # "assign"
    BY <1>1 DEF Working, Changing, Descending, Rehashing
  <2>2. old.call.op \in {"insert", "insert_or_assign"} => old.call.val \in Values
    BY DEF ThreadOK, CallOK, Descending, Rehashing
  <2> QED BY <2>1, <2>2 DEF CallOK
<1>3. PathOK(r) /\ KeyedOK(r) /\ RangeOK(r)
  BY <1>1 DEF ThreadOK, PathOK, KeyedOK, RangeOK
<1>4. LocksHeld(r)
  BY <1>1 DEF ThreadOK, LocksHeld, Writes
<1>5. LocksExplained(r, new)
  <2>1. SUFFICES ASSUME NEW l \in r.locks, l[1] \notin new.rehashed
                 PROVE  l[2] = "write" /\ \E i \in 1 .. Len(r.path) : r.path[i] = l[1]
    BY DEF LocksExplained
  <2>2. CASE l \in old.locks
    BY <2>1, <2>2 DEF ThreadOK, LocksExplained
  <2>3. CASE l = <<TopOf(old), "write">>
    <3>1. l[1] = TopOf(old) /\ l[2] = "write"
      BY <2>3
    <3>2. Len(r.path) \in 1 .. Len(r.path) /\ r.path[Len(r.path)] = TopOf(old)
      BY <1>1, PathFacts DEF TopOf
    <3> QED BY <3>1, <3>2
  <2> QED BY <2>2, <2>3
<1>6. SavedOK(r, new)
  BY <1>1 DEF ThreadOK, SavedOK, Writes
<1>7. ItemOK(r, new)
  BY <1>1 DEF ItemOK
<1> QED BY <1>1, <1>2, <1>3, <1>4, <1>5, <1>6, <1>7 DEF ThreadOK

LEMMA CheckRehashedStep ==
    ASSUME Inv, NEW t \in Threads, CheckRehashed(t)
    PROVE  Inv'
<1> DEFINE r == [th[t] EXCEPT !.pc = IF Top(t) \in table.rehashed THEN "lock" ELSE "try"]
<1>1. ThreadOK(t, th[t], table) /\ th[t].pc = "bucket"
  BY DEF Inv, ThreadsOK, CheckRehashed
<1>2. th' = [th EXCEPT ![t] = r] /\ UNCHANGED <<table, acc, other, up, scenario, grower>>
  BY DEF CheckRehashed, env, Inv
<1>3. /\ ThreadType(r) /\ r.pc \in {"lock", "try"} /\ r.call = th[t].call /\ r.path = th[t].path
      /\ r.locks = th[t].locks /\ r.saved = th[t].saved /\ r.from = th[t].from
      /\ r.pc = "lock" => Top(t) \in table.rehashed
  BY <1>1 DEF ThreadOK, ThreadType, InTable, Descending
<1> HIDE DEF r
<1>4. /\ th[t].pc \in Descending /\ r.pc \in Descending /\ r.pc \notin Rehashing
      /\ r.pc \notin {"move", "mark", "persist"}
  BY <1>1, <1>3 DEF Descending, Rehashing
<1>5. ThreadOK(t, r, table)
  BY <1>1, <1>3, <1>4, SamePath
<1>6. Lets(t, r) /\ WaitsFor(r)
  BY <1>2, <1>3 DEF Lets, WaitsFor, Top, TopOf, Last
<1>7. TableOK(table') /\ Grows(table, table', Written(t)) /\ ThreadOK(t, r, table')
      /\ (table').my_mask = table.my_mask /\ (table').segments = table.segments
  BY <1>2, <1>5, TableKept
<1> QED BY <1>1, <1>2, <1>3, <1>6, <1>7, AdvanceNoLock

LEMMA TryLockStep ==
    ASSUME Inv, NEW t \in Threads, TryLock(t)
    PROVE  Inv'
<1> DEFINE b == Top(t)
<1> DEFINE locked == [th[t] EXCEPT !.locks = @ \cup {<<b, "write">>}]
<1>1. ThreadOK(t, th[t], table) /\ th[t].pc = "try" /\ th[t].pc \in InTable /\ th[t].pc \in Descending
      /\ UNCHANGED <<acc, other, up, scenario, grower>>
  BY DEF Inv, ThreadsOK, TryLock, InTable, Descending, env
<1>2. b \in Buckets /\ TopOf(th[t]) = b /\ Len(th[t].path) \in Nat /\ Len(th[t].path) >= 1
  BY <1>1, PathFacts DEF Top
<1>3. /\ ThreadType(locked) /\ locked.pc = "try" /\ locked.call = th[t].call
      /\ locked.path = th[t].path /\ locked.saved = th[t].saved /\ locked.from = th[t].from
      /\ locked.locks = th[t].locks \cup {<<b, "write">>} /\ TopOf(locked) = b
      /\ Writes(locked, b)
  <2>1. <<b, "write">> \in Lock
    BY <1>2 DEF Lock
  <2>2. /\ ThreadType(locked) /\ locked.pc = "try" /\ locked.call = th[t].call
        /\ locked.path = th[t].path /\ locked.saved = th[t].saved /\ locked.from = th[t].from
        /\ locked.locks = th[t].locks \cup {<<b, "write">>}
    BY <1>1, <2>1 DEF ThreadOK, ThreadType
  <2> QED BY <1>2, <2>2 DEF TopOf, Writes
<1>4. /\ <<b, "write">>[1] = b /\ <<b, "write">>[2] = "write"
      /\ b \notin table.rehashed => b >= 2
  <2>1. {0, 1} \subseteq table.rehashed /\ b \in Nat
    BY <1>2, BucketsAreNumbers DEF Inv, TableOK
  <2> QED BY <2>1
<1>5. CASE /\ ~BucketFree(b, "write") /\ th' = [th EXCEPT ![t].pc = "lock"] /\ UNCHANGED table
  <2> DEFINE r == [th[t] EXCEPT !.pc = "lock"]
  <2>1. /\ ThreadType(r) /\ r.pc = "lock" /\ r.call = th[t].call /\ r.path = th[t].path
        /\ r.locks = th[t].locks /\ r.saved = th[t].saved /\ r.from = th[t].from
    BY <1>1 DEF ThreadOK, ThreadType, InTable, Descending
  <2>2. th' = [th EXCEPT ![t] = r]
    BY <1>5
  <2> HIDE DEF r
  <2>3. r.pc \in Descending /\ r.pc \notin Rehashing /\ TopOf(r) = b
    BY <1>2, <2>1 DEF Descending, Rehashing, TopOf
  <2>4. ThreadOK(t, r, table)
    BY <1>1, <2>1, <2>3, SamePath
  <2>5. Lets(t, r) /\ WaitsFor(r)
    BY <1>5, <2>1, <2>3 DEF Lets, WaitsFor, BucketFree
  <2>6. TableOK(table') /\ Grows(table, table', Written(t)) /\ ThreadOK(t, r, table')
        /\ (table').my_mask = table.my_mask /\ (table').segments = table.segments
    BY <1>5, <2>4, TableKept
  <2> QED BY <1>1, <2>1, <2>2, <2>5, <2>6, AdvanceNoLock
<1> HIDE DEF locked, b
<1>6. CASE /\ BucketFree(b, "write") /\ b \in table.rehashed
           /\ th' = [th EXCEPT ![t] = Acquired(locked)] /\ UNCHANGED table
  <2> DEFINE r == Acquired(locked)
  <2>1. CallOK(locked) /\ PathOK(locked) /\ KeyedOK(locked) /\ RangeOK(locked)
    BY <1>1, <1>3 DEF ThreadOK, CallOK, PathOK, KeyedOK, RangeOK
  <2>2. LocksExplained(locked, table) /\ SavedOK(locked, table)
    BY <1>1, <1>3, <1>4, <1>6 DEF ThreadOK, LocksExplained, SavedOK, Writes
  <2>3. /\ \A i \in 1 .. Len(locked.path) : locked.path[i] <= table.my_mask
        /\ locked.saved # {} => locked.call.op = "defragment"
        /\ \A i \in 1 .. (Len(locked.path) - 1) : Writes(locked, locked.path[i])
        /\ \E l \in locked.locks : l[1] = b
        /\ locked.pc \in {"try", "lock", "persist"}
    BY <1>1, <1>3, <1>4 DEF ThreadOK, LocksHeld, Writes
  <2>4. ThreadOK(t, r, table) /\ r.locks = locked.locks /\ r.saved = locked.saved /\ r.pc \in {"search", "move"}
    BY <1>3, <1>6, <2>1, <2>2, <2>3, AcquiredOK
  <2>5. th' = [th EXCEPT ![t] = r]
    BY <1>6
  <2> HIDE DEF r
  <2>6. LocksOnly(t, r, <<b, "write">>) /\ Lets(t, r) /\ WaitsFor(r)
    BY <1>3, <1>4, <1>6, <2>4 DEF LocksOnly, Lets, WaitsFor
  <2>7. TableOK(table') /\ Grows(table, table', Written(t)) /\ ThreadOK(t, r, table')
        /\ (table').my_mask = table.my_mask /\ (table').segments = table.segments
    BY <1>6, <2>4, TableKept
  <2> QED BY <1>1, <1>3, <2>4, <2>5, <2>6, <2>7, Advance
<1>7. CASE /\ BucketFree(b, "write") /\ b \notin table.rehashed
           /\ th' = [th EXCEPT ![t] = [locked EXCEPT !.pc = "persist"]]
           /\ table' = set_rehashed(table, b)
  <2> DEFINE r == [locked EXCEPT !.pc = "persist"]
  <2>1. /\ ThreadType(r) /\ r.pc = "persist" /\ r.call = th[t].call /\ r.path = th[t].path
        /\ r.locks = locked.locks /\ r.saved = th[t].saved /\ r.from = th[t].from
    BY <1>3 DEF ThreadType, InTable, Rehashing
  <2>2. th' = [th EXCEPT ![t] = r]
    BY <1>7
  <2> HIDE DEF r
  <2>3. r.pc \in Rehashing /\ TopOf(r) = b /\ Writes(r, b)
    BY <1>2, <1>3, <2>1 DEF Rehashing, TopOf, Writes
  <2>4. /\ TableOK(table') /\ (table').rehashed = table.rehashed \cup {b}
        /\ (table').my_mask = table.my_mask /\ (table').segments = table.segments
        /\ (table').node_list = table.node_list /\ (table').tls = table.tls
    <3>1. TableOK(table)
      BY DEF Inv
    <3> QED BY <1>7, <3>1, SetRehashedOK DEF set_rehashed, TableOK, TableType
  <2>5. Grows(table, table', Written(t))
    <3>1. table.my_mask \in Nat /\ Len(table.tls.storage) \in Nat
      BY TableFacts DEF Inv
    <3> QED BY <3>1, <2>4 DEF Grows, IdsOf
  <2>6. ThreadOK(t, r, table')
    <3>1. \A c \in Buckets : IdsOf(table, c) \subseteq IdsOf(table', c)
      BY <2>4 DEF IdsOf
    <3>2. /\ th[t].locks \subseteq r.locks
          /\ \A l \in r.locks : l \in th[t].locks \/ l = <<TopOf(th[t]), "write">>
      BY <1>2, <1>3, <2>1
    <3> QED BY <1>1, <1>4, <1>7, <2>1, <2>3, <2>4, <3>1, <3>2, SamePath
  <2>7. LocksOnly(t, r, <<b, "write">>) /\ Lets(t, r) /\ WaitsFor(r)
    BY <1>3, <1>4, <1>7, <2>1 DEF LocksOnly, Lets, WaitsFor
  <2> QED BY <1>1, <2>1, <2>2, <2>4, <2>5, <2>6, <2>7, Advance
<1>8. CASE /\ BucketFree(b, "write") /\ b \notin table.rehashed
           /\ th' = [th EXCEPT ![t] = [locked EXCEPT !.pc = "bucket", !.path = Append(@, Parent(b))]]
           /\ UNCHANGED table
  <2> DEFINE n == Len(th[t].path)
  <2> DEFINE path == Append(th[t].path, Parent(b))
  <2> DEFINE r == [locked EXCEPT !.pc = "bucket", !.path = path]
  <2>1. th' = [th EXCEPT ![t] = r]
    BY <1>3, <1>8
  <2>2. Parent(b) \in Buckets /\ Parent(b) < b /\ b >= 2 /\ Parent(b) \in Nat
    BY <1>2, <1>4, <1>8, ParentBefore, BucketsAreNumbers
  <2>3. th[t].path \in Seq(Buckets) /\ n \in Nat /\ n >= 1 /\ Head(th[t].path) = th[t].path[1]
        /\ th[t].path[n] = b
        /\ \A i \in 1 .. n : th[t].path[i] \in Nat /\ b <= th[t].path[i]
    BY <1>1, <1>2, PathFacts DEF TopOf
  <2>4. path \in Seq(Buckets) /\ Len(path) = n + 1 /\ path[n + 1] = Parent(b)
        /\ \A i \in 1 .. n : path[i] = th[t].path[i]
    BY <2>2, <2>3
  <2>5. Head(path) = Head(th[t].path) /\ path # <<>>
    BY <2>3, <2>4
  <2> HIDE DEF path
  <2>6. /\ ThreadType(r) /\ r.pc = "bucket" /\ r.call = th[t].call /\ r.path = path
        /\ r.locks = locked.locks /\ r.saved = th[t].saved /\ r.from = th[t].from
    BY <1>3, <2>4 DEF ThreadType, InTable, Descending
  <2> HIDE DEF r
  <2>7. /\ r.pc \in Descending /\ r.pc \in InTable /\ r.pc \notin Working /\ r.pc \notin Rehashing
        /\ r.pc \notin Unlocked /\ ~HasItem(r)
    BY <2>6 DEF HasItem, InTable, Descending, Rehashing, Working, Changing, Unlocked
  <2>8. CallOK(r) /\ KeyedOK(r) /\ RangeOK(r)
    BY <1>1, <2>5, <2>6 DEF ThreadOK, CallOK, KeyedOK, RangeOK, Changing
  <2>9. PathOK(r)
    <3>1. ASSUME NEW i \in 1 .. (n + 1), NEW k \in 1 .. (n + 1), i < k PROVE path[k] < path[i]
      <4>1. CASE k = n + 1
        <5>1. i \in 1 .. n /\ b <= th[t].path[i] /\ path[i] = th[t].path[i] /\ th[t].path[i] \in Nat
          BY <2>3, <2>4, <3>1, <4>1
        <5>2. path[k] = Parent(b)
          BY <4>1, <2>4
        <5>3. Parent(b) < b /\ Parent(b) \in Nat /\ b \in Nat
          BY <1>2, <2>2, BucketsAreNumbers
        <5> QED BY <5>1, <5>2, <5>3
      <4>2. CASE k # n + 1
        <5>1. i \in 1 .. n /\ k \in 1 .. n
          BY <2>3, <3>1, <4>2
        <5>2. th[t].path[k] < th[t].path[i]
          BY <1>1, <3>1, <5>1 DEF ThreadOK, PathOK
        <5> QED BY <5>1, <5>2, <2>4
      <4> QED BY <4>1, <4>2
    <3>2. ASSUME NEW i \in 1 .. n PROVE path[i] >= 2 /\ path[i + 1] = Parent(path[i])
      <4>1. CASE i = n
        BY <4>1, <2>2, <2>3, <2>4
      <4>2. CASE i # n
        <5>1. i \in 1 .. (n - 1) /\ i + 1 \in 1 .. n
          BY <2>3, <4>2
        <5>2. th[t].path[i] >= 2 /\ th[t].path[i + 1] = Parent(th[t].path[i])
          BY <1>1, <5>1 DEF ThreadOK, PathOK
        <5> QED BY <5>1, <5>2, <2>4
      <4> QED BY <4>1, <4>2
    <3>3. Len(r.path) = n + 1 /\ (n + 1) - 1 = n
      BY <2>3, <2>4, <2>6
    <3> QED BY <3>1, <3>2, <3>3, <2>5, <2>6, <2>7 DEF PathOK
  <2>10. LocksHeld(r)
    <3>1. ASSUME NEW i \in 1 .. n PROVE Writes(r, path[i])
      <4>1. CASE i = n
        BY <4>1, <1>3, <2>3, <2>4, <2>6 DEF Writes
      <4>2. CASE i # n
        <5>1. i \in 1 .. (n - 1) /\ i \in 1 .. n
          BY <2>3, <4>2
        <5>2. Writes(th[t], th[t].path[i])
          BY <1>1, <5>1 DEF ThreadOK, LocksHeld
        <5> QED BY <5>1, <5>2, <1>3, <2>4, <2>6 DEF Writes
      <4> QED BY <4>1, <4>2
    <3>2. Len(r.path) = n + 1 /\ (n + 1) - 1 = n
      BY <2>3, <2>4, <2>6
    <3> QED BY <3>1, <3>2, <2>6, <2>7 DEF LocksHeld, Rehashing
  <2>11. LocksExplained(r, table)
    <3>1. SUFFICES ASSUME NEW l \in r.locks, l[1] \notin table.rehashed
                   PROVE  l[2] = "write" /\ \E i \in 1 .. (n + 1) : path[i] = l[1]
      BY <2>4, <2>6, <2>7 DEF LocksExplained
    <3>2. l[2] = "write" /\ \E i \in 1 .. n : th[t].path[i] = l[1]
      <4>1. CASE l \in th[t].locks
        BY <1>1, <3>1, <4>1 DEF ThreadOK, LocksExplained
      <4>2. CASE l = <<b, "write">>
        <5>1. n \in 1 .. n /\ th[t].path[n] = b
          BY <2>3
        <5> QED BY <5>1, <4>2, <1>4
      <4> QED BY <4>1, <4>2, <3>1, <1>3, <2>6
    <3>3. \A i \in 1 .. n : i \in 1 .. (n + 1)
      BY <2>3
    <3> QED BY <3>2, <3>3, <2>4
  <2>12. ItemOK(r, table) /\ SavedOK(r, table)
    BY <1>1, <1>3, <2>5, <2>6, <2>7 DEF ThreadOK, ItemOK, SavedOK, Writes
  <2>13. \A i \in 1 .. Len(r.path) : r.path[i] <= table.my_mask
    <3>1. SUFFICES ASSUME NEW i \in 1 .. (n + 1) PROVE path[i] <= table.my_mask
      BY <2>4, <2>6
    <3>2. \A k \in 1 .. n : th[t].path[k] <= table.my_mask
      BY <1>1 DEF ThreadOK
    <3>3. table.my_mask \in Nat
      BY TableFacts DEF Inv
    <3>4. CASE i = n + 1
      <4>1. b <= table.my_mask /\ b \in Nat
        BY <2>3, <3>2, <1>2, BucketsAreNumbers
      <4> QED BY <4>1, <3>3, <3>4, <2>2, <2>4
    <3>5. CASE i # n + 1
      <4>1. i \in 1 .. n
        BY <3>5, <2>3
      <4> QED BY <4>1, <3>2, <2>4
    <3> QED BY <3>4, <3>5
  <2>14. ThreadOK(t, r, table)
    BY <1>1, <2>6, <2>7, <2>8, <2>9, <2>10, <2>11, <2>12, <2>13 DEF ThreadOK
  <2>15. LocksOnly(t, r, <<b, "write">>) /\ Lets(t, r) /\ WaitsFor(r)
    BY <1>3, <1>4, <1>8, <2>6 DEF LocksOnly, Lets, WaitsFor
  <2>16. TableOK(table') /\ Grows(table, table', Written(t)) /\ ThreadOK(t, r, table')
        /\ (table').my_mask = table.my_mask /\ (table').segments = table.segments
    BY <1>8, <2>14, TableKept
  <2> QED BY <1>1, <2>1, <2>6, <2>15, <2>16, Advance
<1> QED BY <1>5, <1>6, <1>7, <1>8 DEF TryLock, b, locked


\* rehash_bucket() has both buckets locked while it moves nodes.
LEMMA RehashBucketStep ==
    ASSUME Inv, NEW t \in Threads, RehashBucket(t)
    PROVE  Inv'
<1> DEFINE b == TopOf(th[t])
<1> DEFINE r == [th[t] EXCEPT !.pc = "mark"]
<1>1. ThreadOK(t, th[t], table) /\ th[t].pc = "move" /\ th[t].pc \in InTable /\ th[t].pc \in Rehashing
      /\ th' = [th EXCEPT ![t] = r] /\ UNCHANGED <<acc, other, up, scenario, grower>>
  BY DEF Inv, ThreadsOK, RehashBucket, InTable, Rehashing, env
<1>2. b \in Buckets /\ Top(t) = b /\ b >= 2 /\ Writes(th[t], b) /\ Writes(th[t], Parent(b))
  BY <1>1, PathFacts DEF Top, ThreadOK, LocksHeld
<1>3. Parent(b) \in Buckets /\ Parent(b) < b /\ Parent(b) \in Nat /\ b \in Nat
  BY <1>2, ParentBefore, BucketsAreNumbers
<1>4. /\ TableOK(table') /\ (table').rehashed = table.rehashed
      /\ (table').my_mask = table.my_mask /\ (table').segments = table.segments
      /\ (table').tls = table.tls
      /\ \A c \in Buckets \ {b, Parent(b)} : (table').node_list[c] = table.node_list[c]
  <2>1. TableOK(table) /\ table' = MoveNodes(table, b)
    BY <1>2 DEF Inv, RehashBucket
  <2> QED BY <2>1, <1>2, MoveOK
<1>5. /\ ThreadType(r) /\ r.pc = "mark" /\ r.call = th[t].call /\ r.path = th[t].path
      /\ r.locks = th[t].locks /\ r.saved = th[t].saved /\ r.from = th[t].from
  BY <1>1 DEF ThreadOK, ThreadType, InTable, Rehashing
<1>6. Head(th[t].path) \in Nat /\ b <= Head(th[t].path)
  BY <1>1, PathFacts
<1> HIDE DEF r, b
<1>7. r.pc \in Rehashing /\ TopOf(r) = b
  BY <1>5 DEF Rehashing, TopOf, b
<1>8. Grows(table, table', Written(t))
  <2>1. b \in Written(t) /\ Parent(b) \in Written(t)
    BY <1>2, <1>3 DEF Written
  <2>2. table.my_mask \in Nat /\ Len(table.tls.storage) \in Nat
    BY TableFacts DEF Inv
  <2> QED BY <1>4, <2>1, <2>2 DEF Grows, IdsOf
<1>9. ThreadOK(t, r, table')
  <2>1. ASSUME NEW c \in Buckets, c > Head(r.path) PROVE IdsOf(table, c) \subseteq IdsOf(table', c)
    <3>1. c # b /\ c # Parent(b)
      BY <2>1, <1>3, <1>5, <1>6, BucketsAreNumbers
    <3> QED BY <3>1, <1>4 DEF IdsOf
  <2>2. Writes(r, b) /\ Writes(r, Parent(b))
    BY <1>2, <1>5 DEF Writes
  <2> QED BY <1>1, <1>2, <1>4, <1>5, <1>7, <2>1, <2>2, SamePath
<1>10. Lets(t, r) /\ WaitsFor(r)
  BY <1>5 DEF Lets, WaitsFor
<1> QED BY <1>1, <1>4, <1>5, <1>8, <1>9, <1>10, AdvanceNoLock

LEMMA MarkRehashedStep ==
    ASSUME Inv, NEW t \in Threads, MarkRehashed(t)
    PROVE  Inv'
<1> DEFINE b == TopOf(th[t])
<1> DEFINE r == [th[t] EXCEPT !.pc = "persist"]
<1>1. ThreadOK(t, th[t], table) /\ th[t].pc = "mark" /\ th[t].pc \in InTable /\ th[t].pc \in Rehashing
      /\ th' = [th EXCEPT ![t] = r] /\ UNCHANGED <<acc, other, up, scenario, grower>>
  BY DEF Inv, ThreadsOK, MarkRehashed, InTable, Rehashing, env
<1>2. b \in Buckets /\ Top(t) = b /\ b >= 2 /\ Writes(th[t], b)
  BY <1>1, PathFacts DEF Top, ThreadOK, LocksHeld
<1>3. /\ TableOK(table') /\ (table').rehashed = table.rehashed \cup {b}
      /\ (table').my_mask = table.my_mask /\ (table').segments = table.segments
      /\ (table').tls = table.tls /\ (table').node_list = table.node_list
  <2>1. TableOK(table) /\ table' = set_rehashed(table, b)
    BY <1>2 DEF Inv, MarkRehashed
  <2> QED BY <2>1, SetRehashedOK DEF set_rehashed, TableOK, TableType
<1>4. /\ ThreadType(r) /\ r.pc = "persist" /\ r.call = th[t].call /\ r.path = th[t].path
      /\ r.locks = th[t].locks /\ r.saved = th[t].saved /\ r.from = th[t].from
  BY <1>1 DEF ThreadOK, ThreadType, InTable, Rehashing
<1> HIDE DEF r, b
<1>5. r.pc \in Rehashing /\ TopOf(r) = b /\ Writes(r, b)
  BY <1>2, <1>4 DEF Rehashing, TopOf, b, Writes
<1>6. Grows(table, table', Written(t))
  <2>1. table.my_mask \in Nat /\ Len(table.tls.storage) \in Nat
    BY TableFacts DEF Inv
  <2> QED BY <1>3, <2>1 DEF Grows, IdsOf
<1>7. ThreadOK(t, r, table')
  <2>1. \A c \in Buckets : IdsOf(table, c) \subseteq IdsOf(table', c)
    BY <1>3 DEF IdsOf
  <2> QED BY <1>1, <1>2, <1>3, <1>4, <1>5, <2>1, SamePath
<1>8. Lets(t, r) /\ WaitsFor(r)
  BY <1>4 DEF Lets, WaitsFor
<1> QED BY <1>1, <1>3, <1>4, <1>6, <1>7, <1>8, AdvanceNoLock

\* rehash_bucket() unlocks the parent, which is rehashed.
LEMMA PersistRehashedStep ==
    ASSUME Inv, NEW t \in Threads, PersistRehashed(t)
    PROVE  Inv'
<1> DEFINE b == TopOf(th[t])
<1> DEFINE q == [th[t] EXCEPT !.locks = {l \in @ : l[1] # Parent(b)}]
<1> DEFINE r == Acquired(q)
<1>1. ThreadOK(t, th[t], table) /\ th[t].pc = "persist" /\ th[t].pc \in InTable /\ th[t].pc \in Rehashing
      /\ UNCHANGED <<acc, other, up, scenario, grower>>
  BY DEF Inv, ThreadsOK, PersistRehashed, InTable, Rehashing, env
<1>2. b \in Buckets /\ Top(t) = b /\ b >= 2 /\ Writes(th[t], b) /\ b \in table.rehashed
  BY <1>1, PathFacts DEF Top, ThreadOK, LocksHeld
<1>3. th' = [th EXCEPT ![t] = r]
  BY <1>2 DEF PersistRehashed
<1>4. Parent(b) \in Buckets /\ Parent(b) < b /\ Parent(b) \in Nat /\ b \in Nat
  BY <1>2, ParentBefore, BucketsAreNumbers
<1>5. /\ TableOK(table') /\ (table').rehashed = table.rehashed
      /\ (table').my_mask = table.my_mask /\ (table').segments = table.segments
      /\ (table').tls = table.tls /\ (table').node_list = table.node_list
  <2>1. TableOK(table) /\ table' = persist_rehashed(table, b)
    BY <1>2 DEF Inv, PersistRehashed
  <2> QED BY <2>1, PersistRehashedOK DEF persist_rehashed, TableOK, TableType
<1>6. /\ ThreadType(q) /\ q.pc = "persist" /\ q.call = th[t].call /\ q.path = th[t].path
      /\ q.locks = {l \in th[t].locks : l[1] # Parent(b)}
      /\ q.saved = th[t].saved /\ q.from = th[t].from
  BY <1>1 DEF ThreadOK, ThreadType
<1>7. /\ th[t].path \in Seq(Buckets) /\ Len(th[t].path) \in Nat
      /\ Head(th[t].path) = th[t].path[1] /\ Head(th[t].path) \in Nat
      /\ \A i \in 1 .. Len(th[t].path) : th[t].path[i] \in Nat /\ b <= th[t].path[i]
      /\ b <= Head(th[t].path)
  BY <1>1, PathFacts
<1> HIDE DEF q, r, b
<1>8. TopOf(q) = b /\ \A i \in 1 .. Len(th[t].path) : th[t].path[i] # Parent(b)
  <2>1. TopOf(q) = b
    BY <1>6 DEF TopOf, b
  <2>2. ASSUME NEW i \in 1 .. Len(th[t].path), th[t].path[i] = Parent(b) PROVE FALSE
    BY <1>4, <1>7, <2>2
  <2> QED BY <2>1, <2>2
\* The buckets of the path, and those that are saved, stay locked.
<1>9. \A c \in Buckets : c # Parent(b) /\ Writes(th[t], c) => Writes(q, c)
  <2>1. SUFFICES ASSUME NEW c \in Buckets, c # Parent(b), Writes(th[t], c) PROVE Writes(q, c)
    OBVIOUS
  <2>2. <<c, "write">>[1] = c
    OBVIOUS
  <2> QED BY <2>1, <2>2, <1>6 DEF Writes
<1>10. CallOK(q) /\ PathOK(q) /\ KeyedOK(q) /\ RangeOK(q)
  BY <1>1, <1>6 DEF ThreadOK, CallOK, PathOK, KeyedOK, RangeOK
<1>11. LocksExplained(q, table')
  BY <1>1, <1>5, <1>6 DEF ThreadOK, LocksExplained
<1>12. SavedOK(q, table')
  <2>1. SUFFICES ASSUME NEW id \in th[t].saved
                 PROVE  \E c \in Buckets : Writes(q, c) /\ id \in IdsOf(table', c) /\ c > Head(q.path)
    BY <1>6 DEF SavedOK
  <2>2. PICK c \in Buckets : Writes(th[t], c) /\ id \in IdsOf(table, c) /\ c > Head(th[t].path)
    BY <1>1 DEF ThreadOK, SavedOK
  <2>3. c # Parent(b)
    <3>1. c \in Nat
      BY BucketsAreNumbers
    <3> QED BY <3>1, <2>2, <1>4, <1>7
  <2> QED BY <2>2, <2>3, <1>5, <1>6, <1>9 DEF IdsOf
<1>13. \A i \in 1 .. (Len(q.path) - 1) : Writes(q, q.path[i])
  <2>1. SUFFICES ASSUME NEW i \in 1 .. (Len(th[t].path) - 1) PROVE Writes(q, th[t].path[i])
    BY <1>6
  <2>2. Writes(th[t], th[t].path[i]) /\ i \in 1 .. Len(th[t].path)
    BY <1>1, <1>7 DEF ThreadOK, LocksHeld
  <2>3. th[t].path[i] \in Buckets
    BY <2>2, <1>7
  <2> QED BY <2>2, <2>3, <1>8, <1>9
<1>14. Writes(q, b) /\ \E l \in q.locks : l[1] = b
  <2>1. b # Parent(b)
    BY <1>4
  <2>2. Writes(q, b)
    BY <2>1, <1>2, <1>9
  <2>3. <<b, "write">>[1] = b
    OBVIOUS
  <2> QED BY <2>2, <2>3 DEF Writes
<1>15. /\ ThreadOK(t, r, table') /\ r.locks = q.locks /\ r.saved = q.saved
       /\ r.pc \in {"search", "move"}
  <2>1. \A i \in 1 .. Len(q.path) : q.path[i] <= (table').my_mask
    BY <1>1, <1>5, <1>6 DEF ThreadOK
  <2>2. (q.saved # {} => q.call.op = "defragment") /\ q.pc \in {"try", "lock", "persist"}
    BY <1>1, <1>6 DEF ThreadOK
  <2>3. TopOf(q) \in (table').rehashed
    BY <1>2, <1>5, <1>8
  <2> QED BY <1>6, <1>8, <1>10, <1>11, <1>12, <1>13, <1>14, <2>1, <2>2, <2>3, AcquiredOK DEF r
<1>16. Grows(table, table', Written(t))
  <2>1. table.my_mask \in Nat /\ Len(table.tls.storage) \in Nat
    BY TableFacts DEF Inv
  <2> QED BY <1>5, <2>1 DEF Grows, IdsOf
<1>17. Lets(t, r) /\ WaitsFor(r)
  <2>1. SUFFICES ASSUME NEW l \in th[t].locks, l[1] \notin table.rehashed
                 PROVE  \E k \in r.locks : k[1] = l[1]
    BY <1>5, <1>15 DEF Lets, WaitsFor
  <2>2. PICK i \in 1 .. Len(th[t].path) : th[t].path[i] = l[1]
    BY <1>1, <2>1 DEF ThreadOK, LocksExplained
  <2>3. l \in q.locks
    BY <2>1, <2>2, <1>6, <1>8
  <2> QED BY <2>3, <1>15
<1>18. r.locks \subseteq th[t].locks
  BY <1>6, <1>15
<1> QED BY <1>1, <1>3, <1>5, <1>6, <1>15, <1>16, <1>17, <1>18, AdvanceNoLock

-----------------------------------------------------------------------------
(* What the thread does with a bucket that it has locked *)

LEMMA TlsChanged ==
    ASSUME NEW tab, TableOK(tab), NEW e, TlsOK(e)
    PROVE  LET new == [tab EXCEPT !.tls = e]
           IN  /\ TableOK(new) /\ new.node_list = tab.node_list /\ new.rehashed = tab.rehashed
               /\ new.segments = tab.segments /\ new.my_mask = tab.my_mask /\ new.tls = e
<1> DEFINE new == [tab EXCEPT !.tls = e]
<1>1. /\ TableType(new) /\ new.node_list = tab.node_list /\ new.rehashed = tab.rehashed
      /\ new.segments = tab.segments /\ new.my_mask = tab.my_mask /\ new.tls = e
      /\ new.durable = tab.durable
  BY DEF TableOK, TableType, TlsOK
<1> HIDE DEF new
<1>2. TableOK(new)
  BY <1>1, SameNodes DEF TableOK, TlsOK
<1> QED BY <1>1, <1>2 DEF new

LEMMA SizeChanged ==
    ASSUME NEW tab, TableOK(tab), NEW size
    PROVE  LET new == [tab EXCEPT !.my_size = size]
           IN  /\ TableOK(new) /\ new.node_list = tab.node_list /\ new.rehashed = tab.rehashed
               /\ new.segments = tab.segments /\ new.my_mask = tab.my_mask /\ new.tls = tab.tls
<1> DEFINE new == [tab EXCEPT !.my_size = size]
<1>1. /\ TableType(new) /\ new.node_list = tab.node_list /\ new.rehashed = tab.rehashed
      /\ new.segments = tab.segments /\ new.my_mask = tab.my_mask /\ new.tls = tab.tls
      /\ new.durable = tab.durable
  BY DEF TableOK, TableType
<1> HIDE DEF new
<1>2. TableOK(new)
  BY <1>1, SameNodes DEF TableOK
<1> QED BY <1>1, <1>2 DEF new

\* A thread between two calls needs nothing of the table.
LEMMA IdleOK ==
    ASSUME NEW t, NEW call \in Call, NEW tab
    PROVE  /\ ThreadOK(t, AfterCall(call), tab)
           /\ AfterCall(call).locks = {} /\ AfterCall(call).saved = {} /\ AfterCall(call).pc = "idle"
<1> DEFINE r == AfterCall(call)
<1>1. /\ r.pc = "idle" /\ r.call = call /\ r.locks = {} /\ r.saved = {} /\ r.path = <<>>
      /\ ThreadType(r)
  BY DEF AfterCall, ThreadType, Unlocked
<1>2. r = AfterCall(r.call)
  BY <1>1
<1> HIDE DEF r
<1>3. r.pc \notin InTable /\ ~HasItem(r) /\ r.pc \notin {"cache", "insert", "erase", "persist"}
  BY <1>1 DEF HasItem, InTable, Descending, Rehashing, Working, Changing
<1>4. CallOK(r)
  BY <1>1 DEF CallOK, Changing
<1>5. \A i \in 1 .. Len(r.path) : r.path[i] <= tab.my_mask
  BY <1>1
<1>6. ThreadOK(t, r, tab)
  BY <1>1, <1>2, <1>3, <1>4, <1>5 DEF ThreadOK, LocksExplained, ItemOK, SavedOK
<1> QED BY <1>1, <1>6 DEF r

\* A thread in a call that has let go of everything.
LEMMA UnlockedOK ==
    ASSUME NEW t, NEW r, NEW tab, ThreadType(r), CallOK(r),
           r.pc \in {"assign", "grow", "enable", "publish"}, r.locks = {}, r.saved = {},
           \A i \in 1 .. Len(r.path) : r.path[i] <= tab.my_mask
    PROVE  ThreadOK(t, r, tab)
<1>1. /\ r.pc \notin InTable /\ ~HasItem(r) /\ r.pc \notin {"cache", "insert", "erase", "persist"}
      /\ r.pc # "idle"
  BY DEF HasItem, InTable, Descending, Rehashing, Working, Changing
<1> QED BY <1>1 DEF ThreadOK, LocksExplained, ItemOK, SavedOK

\* All that a thread has locked is rehashed, unless it goes down its path.
LEMMA LocksRehashed ==
    ASSUME NEW t, NEW r, NEW tab, ThreadOK(t, r, tab), r.pc \notin Descending \cup Rehashing
    PROVE  \A l \in r.locks : l[1] \in tab.rehashed
  BY DEF ThreadOK, LocksExplained

\* A call that returns.
LEMMA ReturnStep ==
    ASSUME Inv, NEW t \in Threads, NEW q, q.call \in Call, Return(t, q),
           th[t].pc # "idle", th[t].pc \notin Descending \cup Rehashing,
           UNCHANGED <<other, up, scenario>>,
           TableOK(table'), Grows(table, table', Written(t)), GrowerOK', SegmentsOK'
    PROVE  Inv'
<1> DEFINE r == AfterCall(q.call)
<1> DEFINE a == IF q.call.op = "insert_or_assign" THEN NoAccessor ELSE acc[t]
<1>1. up /\ th' = [th EXCEPT ![t] = r]
  BY IsUp DEF Return
<1>2. acc' = [acc EXCEPT ![t] = a] /\ a \in AccessorType
  BY DEF Return, Inv, AccessorType, NoAccessor
<1>3. ThreadOK(t, r, table') /\ r.locks = {} /\ r.saved = {} /\ r.pc = "idle"
  BY IdleOK
<1> HIDE DEF r
<1>4. \A u \in Threads : a.id \notin th'[u].saved /\ acc'[u].id \notin r.saved
  <2>1. SUFFICES ASSUME NEW u \in Threads PROVE a.id \notin th'[u].saved
    BY <1>3
  <2>2. CASE u = t
    BY <2>2, <1>1, <1>3 DEF Inv
  <2>3. CASE u # t
    <3>1. th'[u] = th[u] /\ th[u].saved \subseteq NodeIds
      BY <2>3, <1>1 DEF Inv, ThreadsOK, ThreadOK, ThreadType
    <3> QED BY <3>1, NodeIdAssumption DEF NoAccessor, Inv, NotSaved
  <2> QED BY <2>2, <2>3
<1>5. Lets(t, r) /\ WaitsFor(r) /\ LocksOnly(t, r, None)
  <2>1. \A l \in th[t].locks : l[1] \in table.rehashed
    BY LocksRehashed DEF Inv, ThreadsOK
  <2> QED BY <2>1, <1>3 DEF Lets, WaitsFor, LocksOnly, Grows
<1> HIDE DEF a
<1> QED BY <1>1, <1>2, <1>3, <1>4, <1>5, ThreadStep

\* A call that returns and leaves the table as it is.
LEMMA ReturnKept ==
    ASSUME Inv, NEW t \in Threads, NEW q, q.call \in Call, Return(t, q),
           th[t].pc # "idle", th[t].pc \notin Descending \cup Rehashing,
           th[t].pc \notin {"enable", "publish"},
           UNCHANGED <<table, grower, env>>
    PROVE  Inv'
<1>1. AfterCall(q.call).pc \notin {"enable", "publish"}
  BY DEF AfterCall
<1>2. TableOK(table') /\ Grows(table, table', Written(t))
      /\ (table').my_mask = table.my_mask /\ (table').segments = table.segments
  BY TableKept
<1>3. GrowerOK' /\ SegmentsOK'
  BY <1>1, <1>2, NoGrowth DEF Return, env
<1> QED BY <1>2, <1>3, ReturnStep DEF env

\* A thread that goes on in the list of its bucket.
LEMMA SameWork ==
    ASSUME NEW t, NEW old, NEW tab, ThreadOK(t, old, tab), old.pc \in Working,
           NEW r, NEW new, ThreadType(r), r.pc \in Working, CallOK(r),
           r.call.op = old.call.op, r.call.key = old.call.key,
           r.path = old.path, r.locks = old.locks, r.saved = old.saved, r.from = old.from,
           old.call.op # "defragment",
           tab.rehashed \subseteq new.rehashed, new.my_mask = tab.my_mask,
           ItemOK(r, new),
           r.pc \in {"cache", "insert", "erase"} => t < Len(new.tls.storage)
    PROVE  ThreadOK(t, r, new)
<1>1. /\ r.pc \in InTable /\ old.pc \in InTable /\ r.pc \notin Rehashing
      /\ r.pc \notin Unlocked /\ r.pc \notin Descending /\ r.pc \notin {"persist", "move", "mark", "idle"}
      /\ old.pc \notin Descending \cup Rehashing
  BY DEF InTable, Descending, Rehashing, Working, Changing, Unlocked
<1>2. PathOK(r) /\ KeyedOK(r) /\ RangeOK(r)
  BY <1>1 DEF ThreadOK, PathOK, KeyedOK, RangeOK
<1>3. LocksHeld(r)
  BY <1>1 DEF ThreadOK, LocksHeld, Writes, TopOf
<1>4. LocksExplained(r, new)
  BY <1>1, LocksRehashed DEF LocksExplained
<1>5. r.saved = {}
  BY DEF ThreadOK
<1> QED BY <1>1, <1>2, <1>3, <1>4, <1>5 DEF ThreadOK, SavedOK

\* A call that starts over.
LEMMA RetryStep ==
    ASSUME Inv, NEW t \in Threads, th[t].pc \in {"search", "item"}, th[t].call.op # "defragment",
           Retry(t), UNCHANGED <<table, acc, grower, env>>
    PROVE  Inv'
<1> DEFINE b == Masked(Hash(t), table.my_mask)
<1> DEFINE r == [th[t] EXCEPT !.pc = "bucket", !.m = table.my_mask, !.locks = {}, !.path = <<b>>]
<1>1. /\ ThreadOK(t, th[t], table) /\ th[t].pc \in InTable /\ th[t].pc # "idle"
      /\ th[t].pc \notin {"enable", "publish"} /\ th[t].pc \notin Descending \cup Rehashing
  BY DEF Inv, ThreadsOK, InTable, Working, Descending, Rehashing
<1>2. th' = [th EXCEPT ![t] = r] /\ UNCHANGED <<acc, other, up, scenario, grower>>
  BY DEF Retry, env, Inv
<1>3. /\ th[t].call.op # "none" /\ th[t].call.key \in Keys
      /\ Hash(t) = hasher[th[t].call.key] /\ Hash(t) \in Nat
  BY <1>1, HashAssumption DEF ThreadOK, KeyedOK, Hash
<1>4. /\ b \in Buckets /\ b <= table.my_mask /\ Masked(Hash(t), OwnMask(b)) = b
  BY <1>3, MaskedBucket DEF Inv, SegmentsOK
<1>5. table.my_mask \in Nat
  BY TableFacts DEF Inv
<1> HIDE DEF b
<1>6. <<b>> \in Seq(Buckets) /\ Len(<<b>>) = 1 /\ Head(<<b>>) = b /\ <<b>>[1] = b /\ <<b>> # <<>>
  BY <1>4
<1>7. /\ ThreadType(r) /\ r.pc = "bucket" /\ r.call = th[t].call /\ r.path = <<b>>
      /\ r.locks = {} /\ r.saved = th[t].saved
  BY <1>1, <1>5, <1>6 DEF ThreadOK, ThreadType, InTable, Descending
<1>8. th[t].saved = {}
  BY <1>1 DEF ThreadOK
<1> HIDE DEF r
<1>9. /\ r.pc \in InTable /\ r.pc \notin Working /\ r.pc \notin Unlocked /\ r.pc \notin Rehashing
      /\ ~HasItem(r) /\ r.pc \notin {"persist", "move", "mark", "idle"}
  BY <1>7 DEF HasItem, InTable, Descending, Rehashing, Working, Changing, Unlocked
<1>10. CallOK(r)
  BY <1>1, <1>7 DEF ThreadOK, CallOK, Changing
<1>11. PathOK(r) /\ KeyedOK(r) /\ RangeOK(r) /\ LocksHeld(r)
  BY <1>3, <1>4, <1>6, <1>7, <1>9 DEF PathOK, KeyedOK, RangeOK, LocksHeld
<1>12. ThreadOK(t, r, table)
  <2>1. \A i \in 1 .. Len(r.path) : r.path[i] <= table.my_mask
    BY <1>4, <1>6, <1>7
  <2> QED BY <1>7, <1>8, <1>9, <1>10, <1>11, <2>1 DEF ThreadOK, LocksExplained, ItemOK, SavedOK
<1>13. Lets(t, r) /\ WaitsFor(r)
  <2>1. \A l \in th[t].locks : l[1] \in table.rehashed
    BY <1>1, LocksRehashed
  <2>2. table' = table
    OBVIOUS
  <2> QED BY <2>1, <2>2, <1>7 DEF Lets, WaitsFor
<1>14. TableOK(table') /\ Grows(table, table', Written(t)) /\ ThreadOK(t, r, table')
       /\ (table').my_mask = table.my_mask /\ (table').segments = table.segments
  BY <1>12, TableKept
<1> QED BY <1>1, <1>2, <1>7, <1>13, <1>14, AdvanceNoLock

\* A thread that goes on in its list, and leaves the table as it is.
LEMMA WorkStep ==
    ASSUME Inv, NEW t \in Threads, th[t].pc \in Working, th[t].call.op # "defragment",
           NEW r, th' = [th EXCEPT ![t] = r], UNCHANGED <<acc, other, up, scenario, grower>>,
           ThreadType(r), r.pc \in Working, CallOK(r),
           r.call.op = th[t].call.op, r.call.key = th[t].call.key,
           r.path = th[t].path, r.locks = th[t].locks, r.saved = th[t].saved, r.from = th[t].from,
           TableOK(table'), Grows(table, table', Written(t)),
           (table').my_mask = table.my_mask, (table').segments = table.segments,
           ItemOK(r, table'),
           r.pc \in {"cache", "insert", "erase"} => t < Len((table').tls.storage)
    PROVE  Inv'
<1>1. ThreadOK(t, th[t], table)
  BY DEF Inv, ThreadsOK
<1>2. /\ th[t].pc # "idle" /\ th[t].pc \notin {"enable", "publish"}
      /\ r.pc \notin {"enable", "publish", "assign", "lock"}
  BY DEF Working, Changing
<1>3. ThreadOK(t, r, table')
  BY <1>1, SameWork DEF Grows
<1>4. Lets(t, r) /\ WaitsFor(r)
  BY <1>2 DEF Lets, WaitsFor
<1> QED BY <1>2, <1>3, <1>4, AdvanceNoLock

\* What the steps below need to know of the thread.
LEMMA WorkFacts ==
    ASSUME Inv, NEW t \in Threads, th[t].pc \in Working
    PROVE  /\ ThreadOK(t, th[t], table) /\ ThreadType(th[t]) /\ CallOK(th[t]) /\ ItemOK(th[t], table)
           /\ th[t].pc # "idle" /\ th[t].pc \notin Descending \cup Rehashing
           /\ th[t].pc \notin {"enable", "publish"}
           /\ th[t].call \in Call /\ t \in Nat
           /\ th[t].call.op # "defragment" =>
                /\ th[t].saved = {} /\ th[t].call.op # "none" /\ th[t].call.key \in Keys
                /\ Masked(hasher[th[t].call.key], OwnMask(Target(t))) = Target(t)
           /\ Target(t) = Head(th[t].path) /\ Target(t) \in Buckets
           /\ TableOK(table)
<1>1. ThreadOK(t, th[t], table) /\ th[t].pc \in InTable /\ TableOK(table)
  BY DEF Inv, ThreadsOK, InTable
<1>2. th[t].pc # "idle" /\ th[t].pc \notin Descending \cup Rehashing /\ th[t].pc \notin {"enable", "publish"}
  BY DEF Working, Changing, Descending, Rehashing
<1>3. Head(th[t].path) \in Buckets
  BY <1>1, WorkingBucket
<1>4. t \in Nat
  BY ThreadAssumption
<1> QED BY <1>1, <1>2, <1>3, <1>4 DEF ThreadOK, ThreadType, KeyedOK, Target

LEMMA AnsweredOK ==
    ASSUME NEW r, ThreadType(r), NEW ret
    PROVE  LET q == Answered(r, ret)
           IN  /\ ThreadType(q) /\ q.call \in Call
               /\ q.call.op = r.call.op /\ q.call.key = r.call.key /\ q.call.val = r.call.val
               /\ q.path = r.path /\ q.locks = r.locks /\ q.saved = r.saved /\ q.from = r.from
<1> DEFINE c == [r.call EXCEPT !.ret = IF ret THEN "true" ELSE "false"]
<1>1. c \in Call /\ c.op = r.call.op /\ c.key = r.call.key /\ c.val = r.call.val
  BY DEF ThreadType, Call
<1>2. Answered(r, ret) = [r EXCEPT !.call = c]
  BY DEF Answered, ThreadType
<1> HIDE DEF c
<1> QED BY <1>1, <1>2 DEF ThreadType

LEMMA SearchMissStep ==
    ASSUME Inv, NEW t \in Threads, SearchMiss(t)
    PROVE  Inv'
<1>1. th[t].pc = "search" /\ th[t].call.op # "defragment" /\ UNCHANGED <<table, grower, env>>
  BY DEF SearchMiss
<1>2. th[t].pc \in Working
  BY <1>1 DEF Working
<1>3. CASE Retry(t) /\ UNCHANGED acc
  BY <1>1, <1>3, RetryStep
<1>4. CASE /\ th[t].call.op \in {"insert", "insert_or_assign"} /\ UNCHANGED acc
           /\ th' = [th EXCEPT ![t].pc = "local", ![t].m = table.my_mask]
  <2> DEFINE r == [th[t] EXCEPT !.pc = "local", !.m = table.my_mask]
  <2>1. th' = [th EXCEPT ![t] = r]
    BY <1>4 DEF Inv
  <2>2. /\ ThreadType(r) /\ r.pc = "local" /\ r.call = th[t].call /\ r.path = th[t].path
        /\ r.locks = th[t].locks /\ r.saved = th[t].saved /\ r.from = th[t].from
    BY <1>2, WorkFacts, TableFacts DEF ThreadType, InTable, Working, Changing
  <2> HIDE DEF r
  <2>3. r.pc \in Working
    BY <2>2 DEF Working, Changing
  <2>4. CallOK(r) /\ ItemOK(r, table')
    BY <1>1, <1>2, <1>4, <2>2, WorkFacts DEF CallOK, Changing, ItemOK, HasItem
  <2>5. TableOK(table') /\ Grows(table, table', Written(t))
        /\ (table').my_mask = table.my_mask /\ (table').segments = table.segments
    BY <1>1, TableKept
  <2> QED BY <1>1, <1>2, <1>4, <2>1, <2>2, <2>3, <2>4, <2>5, WorkStep DEF env
<1>5. CASE Return(t, Answered(th[t], FALSE))
  <2>1. Answered(th[t], FALSE).call \in Call
    BY <1>2, WorkFacts, AnsweredOK
  <2> QED BY <1>1, <1>2, <1>5, <2>1, WorkFacts, ReturnKept
<1> QED BY <1>3, <1>4, <1>5 DEF SearchMiss

LEMMA SearchHitStep ==
    ASSUME Inv, NEW t \in Threads, SearchHit(t)
    PROVE  Inv'
<1> DEFINE found == search_bucket(table, Target(t), th[t].call.key)
<1> DEFINE n == CHOOSE n \in found : TRUE
<1>1. th[t].pc = "search" /\ th[t].call.op # "defragment" /\ UNCHANGED <<table, grower, env>>
      /\ found # {}
  BY DEF SearchHit
<1>2. th[t].pc \in Working
  BY <1>1 DEF Working
<1>3. CASE Return(t, Answered(th[t], th[t].call.op = "count"))
  <2>1. Answered(th[t], th[t].call.op = "count").call \in Call
    BY <1>2, WorkFacts, AnsweredOK
  <2> QED BY <1>1, <1>2, <1>3, <2>1, WorkFacts, ReturnKept
<1>4. CASE th' = [th EXCEPT ![t].pc = "item", ![t].id = n.id] /\ UNCHANGED acc
  <2> DEFINE r == [th[t] EXCEPT !.pc = "item", !.id = n.id]
  <2>2. n \in found
    BY <1>1
  <2>3. n.id \in IdsOf(table, Target(t)) /\ n.id \in NodeIds
    <3>1. n \in table.node_list[Target(t)]
      BY <2>2 DEF search_bucket
    <3>2. n.id \in IdsOf(table, Target(t))
      BY <3>1 DEF IdsOf
    <3> QED BY <3>2, <1>2, WorkFacts, TableFacts
  <2> HIDE DEF n, found
  <2>1. th' = [th EXCEPT ![t] = r]
    BY <1>4 DEF Inv
  <2>4. /\ ThreadType(r) /\ r.pc = "item" /\ r.call = th[t].call /\ r.path = th[t].path
        /\ r.locks = th[t].locks /\ r.saved = th[t].saved /\ r.from = th[t].from /\ r.id = n.id
    BY <1>2, <2>3, WorkFacts DEF ThreadType, InTable, Working
  <2> HIDE DEF r
  <2>5. r.pc \in Working
    BY <2>4 DEF Working
  <2>6. CallOK(r) /\ ItemOK(r, table')
    BY <1>1, <1>2, <2>3, <2>4, WorkFacts DEF CallOK, Changing, ItemOK, Target
  <2>7. TableOK(table') /\ Grows(table, table', Written(t))
        /\ (table').my_mask = table.my_mask /\ (table').segments = table.segments
    BY <1>1, TableKept
  <2> QED BY <1>1, <1>2, <1>4, <2>1, <2>4, <2>5, <2>6, <2>7, WorkStep DEF env
<1> QED BY <1>3, <1>4 DEF SearchHit

\* The node that a thread works on is in a bucket that it has locked: no other
\* thread can have saved it.
LEMMA ItemNotSaved ==
    ASSUME Inv, NEW t \in Threads, HasItem(th[t]), NEW u \in Threads, u # t
    PROVE  th[t].id \notin th[u].saved
<1>1. th[t].pc \in Working
  BY DEF Working, Changing, HasItem
<1>2. th[t].id \in IdsOf(table, Target(t))
  BY <1>1, WorkFacts DEF ItemOK
<1>3. PICK l \in th[t].locks : l[1] = Target(t)
  BY <1>1, WorkFacts, WorkingBucket
<1>4. SUFFICES ASSUME th[t].id \in th[u].saved PROVE FALSE
  OBVIOUS
<1>5. PICK b \in Buckets : Writes(th[u], b) /\ th[t].id \in IdsOf(table, b)
  BY <1>4 DEF Inv, ThreadsOK, ThreadOK, SavedOK
<1>6. b = Target(t)
  BY <1>1, <1>2, <1>5, WorkFacts, OneBucket
<1> QED BY <1>3, <1>5, <1>6, NotWritten

\* A call gets its accessor.
LEMMA GrantStep ==
    ASSUME Inv, NEW t \in Threads, th[t].pc = "item", th[t].call.op # "defragment",
           NEW r, th' = [th EXCEPT ![t] = r], NEW mode \in {"none", "read", "write"},
           acc' = [acc EXCEPT ![t] = [id |-> th[t].id, mode |-> mode]],
           UNCHANGED <<table, grower, env>>,
           ThreadOK(t, r, table), r.locks = {}, r.saved = {}, r.pc \in {"grow", "assign", "idle"},
           r.pc = "assign" => r.id = th[t].id
    PROVE  Inv'
<1> DEFINE a == [id |-> th[t].id, mode |-> mode]
<1>1. th[t].pc \in Working /\ HasItem(th[t])
  BY DEF Working, HasItem
<1>2. th[t].id \in NodeIds
  BY <1>1, WorkFacts, TableFacts DEF ItemOK
<1>3. a \in AccessorType /\ a.id = th[t].id
  BY <1>2 DEF AccessorType
<1>5. \A u \in Threads : u # t => th[t].id \notin th[u].saved
  BY <1>1, ItemNotSaved
<1> HIDE DEF a
<1>6. \A u \in Threads : a.id \notin th'[u].saved /\ acc'[u].id \notin r.saved
  BY <1>3, <1>5 DEF Inv
<1>7. TableOK(table') /\ Grows(table, table', Written(t)) /\ ThreadOK(t, r, table')
      /\ (table').my_mask = table.my_mask /\ (table').segments = table.segments
  BY TableKept
<1>8. GrowerOK' /\ SegmentsOK'
  BY <1>7, NoGrowth DEF env
<1>9. Lets(t, r) /\ WaitsFor(r) /\ LocksOnly(t, r, None)
  <2>1. \A l \in th[t].locks : l[1] \in table.rehashed
    BY <1>1, WorkFacts, LocksRehashed
  <2> QED BY <2>1, <1>7 DEF Lets, WaitsFor, LocksOnly, Grows
<1>10. up /\ acc' = [acc EXCEPT ![t] = a] /\ UNCHANGED <<other, up, scenario>>
  BY IsUp DEF a, env
<1>11. r.pc = "assign" => a.id = r.id
  BY <1>3
<1> QED BY <1>3, <1>6, <1>7, <1>8, <1>9, <1>10, <1>11, ThreadStep

LEMMA TryItemStep ==
    ASSUME Inv, NEW t \in Threads, TryItem(t)
    PROVE  Inv'
<1> DEFINE mode == IF th[t].call.op = "erase" THEN "write" ELSE th[t].call.mode
<1>1. th[t].pc = "item" /\ th[t].pc \in Working /\ UNCHANGED <<table, grower, env>>
  BY DEF TryItem, Working
<1>2. th[t].call.op # "defragment"
  BY <1>1, WorkFacts DEF CallOK
<1>3. CASE Retry(t) /\ UNCHANGED acc
  BY <1>1, <1>2, <1>3, RetryStep
<1>4. CASE th[t].call.op = "erase" /\ th' = [th EXCEPT ![t].pc = "local"] /\ UNCHANGED acc
  <2> DEFINE r == [th[t] EXCEPT !.pc = "local"]
  <2>1. th' = [th EXCEPT ![t] = r]
    BY <1>4 DEF Inv
  <2>2. /\ ThreadType(r) /\ r.pc = "local" /\ r.call = th[t].call /\ r.path = th[t].path
        /\ r.locks = th[t].locks /\ r.saved = th[t].saved /\ r.from = th[t].from /\ r.id = th[t].id
    BY <1>1, WorkFacts DEF ThreadType, InTable, Working, Changing
  <2> HIDE DEF r
  <2>3. r.pc \in Working
    BY <2>2 DEF Working, Changing
  <2>4. CallOK(r) /\ ItemOK(r, table')
    BY <1>1, <1>4, <2>2, WorkFacts DEF CallOK, Changing, ItemOK, HasItem
  <2>5. TableOK(table') /\ Grows(table, table', Written(t))
        /\ (table').my_mask = table.my_mask /\ (table').segments = table.segments
    BY <1>1, TableKept
  <2> QED BY <1>1, <1>2, <1>4, <2>1, <2>2, <2>3, <2>4, <2>5, WorkStep DEF env
<1>5. ASSUME th[t].call.op # "erase", acc' = [acc EXCEPT ![t] = [id |-> th[t].id, mode |-> mode]],
             NEW pc \in {"grow", "assign"}, pc = "grow" \/ th[t].call.op = "insert_or_assign",
             th' = [th EXCEPT ![t] = [[th[t] EXCEPT !.locks = {}] EXCEPT !.pc = pc]]
      PROVE  Inv'
  <2> DEFINE r == [[th[t] EXCEPT !.locks = {}] EXCEPT !.pc = pc]
  <2>1. /\ ThreadType(r) /\ r.pc = pc /\ r.call = th[t].call /\ r.path = th[t].path
        /\ r.locks = {} /\ r.saved = th[t].saved /\ r.id = th[t].id
    BY <1>1, WorkFacts DEF ThreadType, Unlocked
  <2>2. mode \in {"none", "read", "write"} /\ th[t].saved = {}
    BY <1>1, <1>2, WorkFacts DEF Call
  <2>3. CallOK(r)
    BY <1>1, <1>2, <1>5, <2>1, WorkFacts DEF CallOK, Changing
  <2>4. \A i \in 1 .. Len(r.path) : r.path[i] <= table.my_mask
    BY <1>1, <2>1, WorkFacts DEF ThreadOK
  <2> HIDE DEF r, mode
  <2>5. ThreadOK(t, r, table)
    BY <2>1, <2>2, <2>3, <2>4, UnlockedOK
  <2>6. th' = [th EXCEPT ![t] = r]
    BY <1>5 DEF r
  <2> QED BY <1>1, <1>2, <1>5, <2>1, <2>2, <2>5, <2>6, GrantStep
<1>6. CASE /\ th[t].call.op # "erase" /\ acc' = [acc EXCEPT ![t] = [id |-> th[t].id, mode |-> mode]]
           /\ th' = [th EXCEPT ![t] = AfterCall(Answered(th[t], th[t].call.op = "find").call)]
  <2> DEFINE r == AfterCall(Answered(th[t], th[t].call.op = "find").call)
  <2>1. ThreadOK(t, r, table) /\ r.locks = {} /\ r.saved = {} /\ r.pc = "idle"
    BY <1>1, WorkFacts, AnsweredOK, IdleOK
  <2>2. mode \in {"none", "read", "write"}
    BY <1>1, WorkFacts DEF Call
  <2> HIDE DEF r, mode
  <2>3. th' = [th EXCEPT ![t] = r]
    BY <1>6 DEF r
  <2> QED BY <1>1, <1>2, <1>6, <2>1, <2>2, <2>3, GrantStep
<1>7. CASE /\ th[t].call.op # "erase" /\ acc' = [acc EXCEPT ![t] = [id |-> th[t].id, mode |-> mode]]
           /\ th' = [th EXCEPT ![t] =
                    IF th[t].call.ret = "true" THEN [[th[t] EXCEPT !.locks = {}] EXCEPT !.pc = "grow"]
                    ELSE IF th[t].call.op = "insert_or_assign" THEN [[th[t] EXCEPT !.locks = {}] EXCEPT !.pc = "assign"]
                    ELSE AfterCall(Answered(th[t], th[t].call.op = "find").call)]
  <2>1. CASE th' = [th EXCEPT ![t] = [[th[t] EXCEPT !.locks = {}] EXCEPT !.pc = "grow"]]
    BY <1>5, <1>7, <2>1
  <2>2. CASE th[t].call.op = "insert_or_assign"
             /\ th' = [th EXCEPT ![t] = [[th[t] EXCEPT !.locks = {}] EXCEPT !.pc = "assign"]]
    BY <1>5, <1>7, <2>2
  <2>3. CASE th' = [th EXCEPT ![t] = AfterCall(Answered(th[t], th[t].call.op = "find").call)]
    BY <1>6, <1>7, <2>3
  <2> QED BY <1>7, <2>1, <2>2, <2>3
<1> QED BY <1>3, <1>4, <1>7 DEF TryItem

LEMMA LocalSizeDiffStep ==
    ASSUME Inv, NEW t \in Threads, LocalSizeDiff(t)
    PROVE  Inv'
<1>1. th[t].pc = "local" /\ th[t].pc \in Working /\ UNCHANGED <<acc, other, up, scenario, grower>>
  BY DEF LocalSizeDiff, Working, Changing, env
<1>2. th[t].call.op \in {"insert", "insert_or_assign", "erase"} /\ th[t].call.op # "defragment"
  BY <1>1, WorkFacts DEF CallOK
<1>3. PICK pc \in {"insert", "erase", "cache"} :
        /\ th' = [th EXCEPT ![t].pc = pc]
        /\ pc = "insert" => th[t].call.op # "erase"
        /\ pc = "erase" => th[t].call.op = "erase"
        /\ \/ FastPath(table.tls, t) /\ UNCHANGED table
           \/ table' = [table EXCEPT !.tls = resize(@, t)]
  BY <1>1 DEF LocalSizeDiff, ChangePc
<1> DEFINE r == [th[t] EXCEPT !.pc = pc]
<1>4. th' = [th EXCEPT ![t] = r]
  BY <1>3
<1>5. /\ ThreadType(r) /\ r.pc = pc /\ r.call = th[t].call /\ r.path = th[t].path
      /\ r.locks = th[t].locks /\ r.saved = th[t].saved /\ r.from = th[t].from /\ r.id = th[t].id
  BY <1>1, WorkFacts DEF ThreadType, InTable, Working, Changing
<1>6. /\ TableOK(table') /\ (table').node_list = table.node_list /\ (table').rehashed = table.rehashed
      /\ (table').segments = table.segments /\ (table').my_mask = table.my_mask
      /\ Len(table.tls.storage) <= Len((table').tls.storage) /\ t < Len((table').tls.storage)
  <2>1. TableOK(table) /\ TlsOK(table.tls) /\ t \in Nat /\ Len(table.tls.storage) \in Nat
    BY TableFacts, ThreadAssumption DEF Inv
  <2>2. CASE FastPath(table.tls, t) /\ UNCHANGED table
    BY <2>1, <2>2 DEF FastPath, TlsOK
  <2>3. CASE table' = [table EXCEPT !.tls = resize(@, t)]
    <3>1. /\ TlsOK(resize(table.tls, t)) /\ t < Len(resize(table.tls, t).storage)
          /\ Len(table.tls.storage) <= Len(resize(table.tls, t).storage)
      BY <2>1, ResizeOK
    <3> QED BY <2>1, <2>3, <3>1, TlsChanged
  <2> QED BY <1>3, <2>2, <2>3
<1> HIDE DEF r
<1>7. r.pc \in Working
  BY <1>5 DEF Working, Changing
<1>8. CallOK(r)
  BY <1>1, <1>2, <1>3, <1>5, WorkFacts DEF CallOK, Changing
<1>9. ItemOK(r, table')
  BY <1>1, <1>3, <1>5, <1>6, WorkFacts DEF ItemOK, HasItem, IdsOf
<1>10. Grows(table, table', Written(t))
  <2>1. table.my_mask \in Nat
    BY TableFacts DEF Inv
  <2> QED BY <1>6, <2>1 DEF Grows, IdsOf
<1> QED BY <1>1, <1>2, <1>4, <1>5, <1>6, <1>7, <1>8, <1>9, <1>10, WorkStep

LEMMA CacheTlsSizeStep ==
    ASSUME Inv, NEW t \in Threads, CacheTlsSize(t)
    PROVE  Inv'
<1> DEFINE pc == ChangePc(th[t].call.op)
<1> DEFINE r == [th[t] EXCEPT !.pc = pc]
<1>1. th[t].pc = "cache" /\ th[t].pc \in Working /\ UNCHANGED <<acc, other, up, scenario, grower>>
      /\ th' = [th EXCEPT ![t] = r]
  BY DEF CacheTlsSize, Working, Changing, env
<1>2. th[t].call.op \in {"insert", "insert_or_assign", "erase"} /\ th[t].call.op # "defragment"
  BY <1>1, WorkFacts DEF CallOK
<1>3. /\ pc \in {"insert", "erase"}
      /\ pc = "insert" => th[t].call.op # "erase"
      /\ pc = "erase" => th[t].call.op = "erase"
  BY DEF ChangePc
<1> HIDE DEF pc
<1>4. /\ ThreadType(r) /\ r.pc = pc /\ r.call = th[t].call /\ r.path = th[t].path
      /\ r.locks = th[t].locks /\ r.saved = th[t].saved /\ r.from = th[t].from /\ r.id = th[t].id
  BY <1>1, <1>3, WorkFacts DEF ThreadType, InTable, Working, Changing
<1>5. /\ TableOK(table') /\ (table').node_list = table.node_list /\ (table').rehashed = table.rehashed
      /\ (table').segments = table.segments /\ (table').my_mask = table.my_mask
      /\ (table').tls.storage = table.tls.storage
  <2>1. TableOK(table) /\ TlsOK(table.tls)
    BY TableFacts DEF Inv
  <2>2. TlsOK(set_cached_size(table.tls)) /\ set_cached_size(table.tls).storage = table.tls.storage
    BY <2>1, CacheOK
  <2>3. table' = [table EXCEPT !.tls = set_cached_size(table.tls)]
    BY DEF CacheTlsSize
  <2> QED BY <2>1, <2>2, <2>3, TlsChanged
<1>6. t < Len((table').tls.storage)
  BY <1>1, <1>5, WorkFacts DEF ThreadOK
<1> HIDE DEF r
<1>7. r.pc \in Working
  BY <1>3, <1>4 DEF Working, Changing
<1>8. CallOK(r)
  BY <1>1, <1>2, <1>3, <1>4, WorkFacts DEF CallOK, Changing
<1>9. ItemOK(r, table')
  BY <1>1, <1>3, <1>4, <1>5, WorkFacts DEF ItemOK, HasItem, IdsOf
<1>10. Grows(table, table', Written(t))
  <2>1. table.my_mask \in Nat /\ Len(table.tls.storage) \in Nat
    BY TableFacts DEF Inv
  <2> QED BY <1>5, <2>1 DEF Grows, IdsOf
<1> QED BY <1>1, <1>2, <1>4, <1>5, <1>6, <1>7, <1>8, <1>9, <1>10, WorkStep

\* The new node goes to a list that its hash code leads to, and was in no list.
LEMMA InsertNodeStep ==
    ASSUME Inv, NEW t \in Threads, InsertNode(t)
    PROVE  Inv'
<1> DEFINE id == CHOOSE id \in FreeIds : TRUE
<1> DEFINE n == [id |-> id, key |-> th[t].call.key, val |-> th[t].call.val]
<1> DEFINE r == [Answered(th[t], TRUE) EXCEPT !.pc = "count", !.id = id]
<1>1. th[t].pc = "insert" /\ th[t].pc \in Working /\ UNCHANGED <<acc, other, up, scenario, grower>>
      /\ th' = [th EXCEPT ![t] = r] /\ FreeIds # {}
      /\ table' = [insert_new_node_internal(table, Target(t), n) EXCEPT !.tls = Add(@, t, 1)]
  BY DEF InsertNode, Working, Changing, env
<1>2. id \in FreeIds
  BY <1>1
<1> HIDE DEF id
<1>3. th[t].call.op \in {"insert", "insert_or_assign"} /\ th[t].call.op # "defragment"
      /\ th[t].call.val \in Values
  BY <1>1, WorkFacts DEF CallOK
<1>4. n \in Node /\ n.id = id /\ Masked(hasher[n.key], OwnMask(Target(t))) = Target(t)
  BY <1>1, <1>2, <1>3, WorkFacts DEF Node, FreeIds
<1>5. \A c \in Buckets : n.id \notin IdsOf(table, c)
  <2>1. SUFFICES ASSUME NEW c \in Buckets, NEW o \in table.node_list[c], o.id = id PROVE FALSE
    BY <1>4 DEF IdsOf
  <2>2. o \in NodesIn(table)
    BY DEF NodesIn
  <2> QED BY <2>1, <2>2, <1>2 DEF FreeIds, UsedIds
<1> HIDE DEF n
<1>6. LET new == insert_new_node_internal(table, Target(t), n)
      IN  /\ TableOK(new) /\ id \in IdsOf(new, Target(t))
          /\ \A c \in Buckets : table.node_list[c] \subseteq new.node_list[c]
          /\ new.rehashed = table.rehashed /\ new.my_mask = table.my_mask
          /\ new.segments = table.segments /\ new.tls = table.tls
  BY <1>1, <1>4, <1>5, WorkFacts, InsertOK
<1>7. /\ TableOK(table') /\ id \in IdsOf(table', Target(t))
      /\ \A c \in Buckets : table.node_list[c] \subseteq (table').node_list[c]
      /\ (table').rehashed = table.rehashed
      /\ (table').segments = table.segments /\ (table').my_mask = table.my_mask
      /\ Len((table').tls.storage) = Len(table.tls.storage)
  <2> DEFINE new == insert_new_node_internal(table, Target(t), n)
  <2>1. TlsOK(table.tls) /\ t \in Nat /\ t < Len(table.tls.storage)
    BY <1>1, WorkFacts, TableFacts DEF ThreadOK
  <2>2. TlsOK(Add(table.tls, t, 1)) /\ Len(Add(table.tls, t, 1).storage) = Len(table.tls.storage)
    BY <2>1, AddOK
  <2>3. table' = [new EXCEPT !.tls = Add(table.tls, t, 1)]
    BY <1>1, <1>6
  <2> HIDE DEF new
  <2>4. /\ TableOK(new) /\ id \in IdsOf(new, Target(t))
        /\ \A c \in Buckets : table.node_list[c] \subseteq new.node_list[c]
        /\ new.rehashed = table.rehashed /\ new.my_mask = table.my_mask
        /\ new.segments = table.segments
    BY <1>6 DEF new
  <2>5. /\ TableOK(table') /\ (table').node_list = new.node_list /\ (table').rehashed = new.rehashed
        /\ (table').segments = new.segments /\ (table').my_mask = new.my_mask
        /\ (table').tls = Add(table.tls, t, 1)
    BY <2>2, <2>3, <2>4, TlsChanged
  <2>6. IdsOf(table', Target(t)) = IdsOf(new, Target(t))
    BY <2>5 DEF IdsOf
  <2> QED BY <2>2, <2>4, <2>5, <2>6
<1>8. /\ ThreadType(r) /\ r.pc = "count" /\ r.path = th[t].path
      /\ r.call.op = th[t].call.op /\ r.call.key = th[t].call.key /\ r.call.val = th[t].call.val
      /\ r.locks = th[t].locks /\ r.saved = th[t].saved /\ r.from = th[t].from /\ r.id = id
  <2> DEFINE q == Answered(th[t], TRUE)
  <2>1. id \in NodeIds
    BY <1>2 DEF FreeIds
  <2>2. /\ ThreadType(q) /\ q.call.op = th[t].call.op /\ q.call.key = th[t].call.key
        /\ q.call.val = th[t].call.val /\ q.path = th[t].path
        /\ q.locks = th[t].locks /\ q.saved = th[t].saved /\ q.from = th[t].from
    BY <1>1, WorkFacts, AnsweredOK
  <2> HIDE DEF q
  <2>3. r = [q EXCEPT !.pc = "count", !.id = id]
    BY DEF q
  <2> QED BY <2>1, <2>2, <2>3 DEF ThreadType, InTable, Working, Changing
<1> HIDE DEF r
<1>9. r.pc \in Working
  BY <1>8 DEF Working, Changing
<1>10. CallOK(r) /\ ItemOK(r, table')
  BY <1>1, <1>3, <1>7, <1>8, WorkFacts DEF CallOK, Changing, ItemOK, HasItem
<1>11. Grows(table, table', Written(t))
  <2>1. table.my_mask \in Nat /\ Len(table.tls.storage) \in Nat
    BY TableFacts DEF Inv
  <2> QED BY <1>7, <2>1 DEF Grows, IdsOf
<1> QED BY <1>1, <1>3, <1>7, <1>8, <1>9, <1>10, <1>11, WorkStep

\* EraseNode needs the bucket locked for writing: nobody else is in the list.
LEMMA EraseNodeStep ==
    ASSUME Inv, NEW t \in Threads, EraseNode(t)
    PROVE  Inv'
<1> DEFINE r == [Answered(th[t], TRUE) EXCEPT !.pc = "uncount"]
<1>1. th[t].pc = "erase" /\ th[t].pc \in Working /\ UNCHANGED <<acc, other, up, scenario, grower>>
      /\ th' = [th EXCEPT ![t] = r]
      /\ table' = [delete_node(table, Target(t), th[t].id) EXCEPT !.tls = Add(@, t, -1)]
  BY DEF EraseNode, Working, Changing, env
<1>2. th[t].call.op = "erase"
  BY <1>1, WorkFacts DEF CallOK
<1>3. Target(t) \in Written(t)
  <2>1. ThreadOK(t, th[t], table) /\ Target(t) \in Buckets /\ Target(t) = TopOf(th[t])
    BY <1>1, WorkFacts, WorkingBucket
  <2>2. Writes(th[t], TopOf(th[t]))
    BY <1>1, <1>2, <2>1 DEF ThreadOK, LocksHeld, InTable
  <2> QED BY <2>1, <2>2 DEF Written
<1>4. /\ TableOK(table')
      /\ \A c \in Buckets \ {Target(t)} : (table').node_list[c] = table.node_list[c]
      /\ (table').rehashed = table.rehashed
      /\ (table').segments = table.segments /\ (table').my_mask = table.my_mask
      /\ Len((table').tls.storage) = Len(table.tls.storage)
  <2> DEFINE new == delete_node(table, Target(t), th[t].id)
  <2>1. TlsOK(table.tls) /\ t \in Nat /\ t < Len(table.tls.storage)
    BY <1>1, WorkFacts, TableFacts DEF ThreadOK
  <2>2. TlsOK(Add(table.tls, t, -1)) /\ Len(Add(table.tls, t, -1).storage) = Len(table.tls.storage)
    BY <2>1, AddOK
  <2>3. /\ TableOK(new)
        /\ \A c \in Buckets \ {Target(t)} : new.node_list[c] = table.node_list[c]
        /\ new.rehashed = table.rehashed /\ new.my_mask = table.my_mask
        /\ new.segments = table.segments /\ new.tls = table.tls
    BY <1>1, WorkFacts, DeleteOK
  <2>4. table' = [new EXCEPT !.tls = Add(table.tls, t, -1)]
    BY <1>1, <2>3
  <2> HIDE DEF new
  <2>5. /\ TableOK(table') /\ (table').node_list = new.node_list /\ (table').rehashed = new.rehashed
        /\ (table').segments = new.segments /\ (table').my_mask = new.my_mask
        /\ (table').tls = Add(table.tls, t, -1)
    BY <2>2, <2>3, <2>4, TlsChanged
  <2> QED BY <2>2, <2>3, <2>5
<1>5. /\ ThreadType(r) /\ r.pc = "uncount" /\ r.path = th[t].path
      /\ r.call.op = th[t].call.op /\ r.call.key = th[t].call.key /\ r.call.val = th[t].call.val
      /\ r.locks = th[t].locks /\ r.saved = th[t].saved /\ r.from = th[t].from
  <2> DEFINE q == Answered(th[t], TRUE)
  <2>1. /\ ThreadType(q) /\ q.call.op = th[t].call.op /\ q.call.key = th[t].call.key
        /\ q.call.val = th[t].call.val /\ q.path = th[t].path
        /\ q.locks = th[t].locks /\ q.saved = th[t].saved /\ q.from = th[t].from
    BY <1>1, WorkFacts, AnsweredOK
  <2> HIDE DEF q
  <2>2. r = [q EXCEPT !.pc = "uncount"]
    BY DEF q
  <2> QED BY <2>1, <2>2 DEF ThreadType, InTable, Working, Changing
<1> HIDE DEF r
<1>6. r.pc \in Working
  BY <1>5 DEF Working, Changing
<1>7. CallOK(r) /\ ItemOK(r, table')
  BY <1>1, <1>2, <1>5, WorkFacts DEF CallOK, Changing, ItemOK, HasItem
<1>8. Grows(table, table', Written(t))
  <2>1. table.my_mask \in Nat /\ Len(table.tls.storage) \in Nat
    BY TableFacts DEF Inv
  <2> QED BY <1>3, <1>4, <2>1 DEF Grows, IdsOf
<1> QED BY <1>1, <1>2, <1>4, <1>5, <1>6, <1>7, <1>8, WorkStep

LEMMA CountInsertedStep ==
    ASSUME Inv, NEW t \in Threads, CountInserted(t)
    PROVE  Inv'
<1> DEFINE counted == [th[t] EXCEPT !.new_size = table.my_size + 1]
<1>1. th[t].pc = "count" /\ th[t].pc \in Working /\ UNCHANGED <<acc, other, up, scenario, grower>>
      /\ table' = [table EXCEPT !.my_size = @ + 1]
      /\ \/ th' = [th EXCEPT ![t] = [counted EXCEPT !.pc = "grow", !.locks = {}]]
         \/ th' = [th EXCEPT ![t] = [counted EXCEPT !.pc = "item"]]
  BY DEF CountInserted, Working, Changing, env
<1>2. th[t].call.op \in {"insert", "insert_or_assign"} /\ th[t].call.op # "defragment"
      /\ th[t].call.val \in Values
  BY <1>1, WorkFacts DEF CallOK
<1>3. /\ TableOK(table') /\ (table').node_list = table.node_list /\ (table').rehashed = table.rehashed
      /\ (table').segments = table.segments /\ (table').my_mask = table.my_mask
      /\ (table').tls = table.tls
  BY <1>1, WorkFacts, SizeChanged
<1>4. Grows(table, table', Written(t))
  <2>1. table.my_mask \in Nat /\ Len(table.tls.storage) \in Nat
    BY TableFacts DEF Inv
  <2> QED BY <1>3, <2>1 DEF Grows, IdsOf
<1>5. CASE th' = [th EXCEPT ![t] = [counted EXCEPT !.pc = "grow", !.locks = {}]]
  <2> DEFINE r == [counted EXCEPT !.pc = "grow", !.locks = {}]
  <2>1. /\ ThreadType(r) /\ r.pc = "grow" /\ r.path = th[t].path /\ r.call = th[t].call
        /\ r.locks = {} /\ r.saved = th[t].saved
    BY <1>1, WorkFacts DEF ThreadType, Unlocked
  <2>2. th' = [th EXCEPT ![t] = r]
    BY <1>5
  <2> HIDE DEF r
  <2>3. CallOK(r) /\ r.saved = {}
    BY <1>1, <1>2, <2>1, WorkFacts DEF CallOK, Changing
  <2>4. \A i \in 1 .. Len(r.path) : r.path[i] <= (table').my_mask
    BY <1>1, <1>3, <2>1, WorkFacts DEF ThreadOK
  <2>5. ThreadOK(t, r, table')
    BY <2>1, <2>3, <2>4, UnlockedOK
  <2>6. Lets(t, r) /\ WaitsFor(r)
    <3>1. \A l \in th[t].locks : l[1] \in table.rehashed
      BY <1>1, WorkFacts, LocksRehashed
    <3> QED BY <3>1, <1>3, <2>1 DEF Lets, WaitsFor
  <2> QED BY <1>1, <1>3, <1>4, <2>1, <2>2, <2>3, <2>5, <2>6, WorkFacts, AdvanceNoLock
<1>6. CASE th' = [th EXCEPT ![t] = [counted EXCEPT !.pc = "item"]]
  <2> DEFINE r == [counted EXCEPT !.pc = "item"]
  <2>1. /\ ThreadType(r) /\ r.pc = "item" /\ r.path = th[t].path /\ r.call = th[t].call
        /\ r.locks = th[t].locks /\ r.saved = th[t].saved /\ r.id = th[t].id /\ r.from = th[t].from
    BY <1>1, WorkFacts DEF ThreadType, InTable, Working
  <2>2. th' = [th EXCEPT ![t] = r]
    BY <1>6
  <2> HIDE DEF r
  <2>3. r.pc \in Working
    BY <2>1 DEF Working
  <2>4. CallOK(r) /\ ItemOK(r, table')
    BY <1>1, <1>2, <1>3, <2>1, WorkFacts DEF CallOK, Changing, ItemOK, HasItem, IdsOf
  <2> QED BY <1>1, <1>2, <1>3, <1>4, <2>1, <2>2, <2>3, <2>4, WorkStep
<1> QED BY <1>1, <1>5, <1>6

LEMMA CountErasedStep ==
    ASSUME Inv, NEW t \in Threads, CountErased(t)
    PROVE  Inv'
<1>1. th[t].pc = "uncount" /\ th[t].pc \in Working /\ UNCHANGED <<other, up, scenario, grower>>
      /\ table' = [table EXCEPT !.my_size = @ - 1] /\ Return(t, th[t])
  BY DEF CountErased, Working, Changing, env
<1>2. /\ TableOK(table') /\ (table').node_list = table.node_list /\ (table').rehashed = table.rehashed
      /\ (table').segments = table.segments /\ (table').my_mask = table.my_mask
      /\ (table').tls = table.tls
  BY <1>1, WorkFacts, SizeChanged
<1>3. Grows(table, table', Written(t))
  <2>1. table.my_mask \in Nat /\ Len(table.tls.storage) \in Nat
    BY TableFacts DEF Inv
  <2> QED BY <1>2, <2>1 DEF Grows, IdsOf
<1>4. th' = [th EXCEPT ![t] = AfterCall(th[t].call)] /\ AfterCall(th[t].call).pc \notin {"enable", "publish"}
  BY <1>1 DEF Return, AfterCall
<1>5. GrowerOK' /\ SegmentsOK'
  BY <1>1, <1>2, <1>4, WorkFacts, NoGrowth
<1> QED BY <1>1, <1>2, <1>3, <1>5, WorkFacts, ReturnStep

-----------------------------------------------------------------------------
(* Accessors *)

LEMMA StoreFacts ==
    ASSUME Inv, NEW t \in Threads, NEW id, NEW v \in Values, table' = StoreValue(table, id, v)
    PROVE  /\ TableOK(table') /\ Grows(table, table', Written(t))
           /\ (table').my_mask = table.my_mask /\ (table').segments = table.segments
<1>1. TableOK(table) /\ table.my_mask \in Nat /\ Len(table.tls.storage) \in Nat
  BY TableFacts DEF Inv
<1>2. /\ TableOK(table') /\ \A c \in Buckets : IdsOf(table', c) = IdsOf(table, c)
      /\ (table').rehashed = table.rehashed /\ (table').my_mask = table.my_mask
      /\ (table').segments = table.segments /\ (table').tls = table.tls
  BY <1>1, StoreOK
<1> QED BY <1>1, <1>2 DEF Grows

LEMMA AssignItemStep ==
    ASSUME Inv, NEW t \in Threads, AssignItem(t)
    PROVE  Inv'
<1>1. /\ th[t].pc = "assign" /\ th[t].pc \notin Descending \cup Rehashing
      /\ UNCHANGED <<other, up, scenario, grower>>
      /\ table' = StoreValue(table, th[t].id, th[t].call.val) /\ Return(t, Answered(th[t], FALSE))
  BY DEF AssignItem, env, Descending, Rehashing
<1>2. ThreadOK(t, th[t], table) /\ ThreadType(th[t])
  BY DEF Inv, ThreadsOK, ThreadOK
<1>3. th[t].call.val \in Values
  BY <1>1, <1>2 DEF ThreadOK, CallOK
<1>4. /\ TableOK(table') /\ Grows(table, table', Written(t))
      /\ (table').my_mask = table.my_mask /\ (table').segments = table.segments
  BY <1>1, <1>3, StoreFacts
<1> DEFINE q == Answered(th[t], FALSE)
<1>5. q.call \in Call
  BY <1>2, AnsweredOK
<1> HIDE DEF q
<1>6. th' = [th EXCEPT ![t] = AfterCall(q.call)] /\ AfterCall(q.call).pc \notin {"enable", "publish"}
  BY <1>1 DEF Return, AfterCall, q
<1>7. GrowerOK' /\ SegmentsOK'
  BY <1>1, <1>4, <1>6, NoGrowth
<1> QED BY <1>1, <1>4, <1>5, <1>7, ReturnStep DEF q

\* Neither the map nor what a thread is doing depends on the accessors, but
\* an accessor is never one of an element that is saved.
LEMMA AccessorKept ==
    ASSUME Inv, NEW t \in Threads, up, NEW a \in AccessorType, a = acc[t] \/ a = NoAccessor,
           th[t].pc = "idle", acc' = [acc EXCEPT ![t] = a], UNCHANGED <<th, grower, env>>,
           TableOK(table'), Grows(table, table', Written(t)),
           (table').my_mask = table.my_mask, (table').segments = table.segments
    PROVE  Inv'
<1> DEFINE r == th[t]
<1>1. th' = [th EXCEPT ![t] = r]
  BY DEF Inv
<1>2. ThreadOK(t, r, table) /\ r.call \in Call /\ r = AfterCall(r.call)
  BY DEF Inv, ThreadsOK, ThreadOK, ThreadType
<1>3. ThreadOK(t, r, table') /\ r.locks = {} /\ r.saved = {}
  <2> HIDE DEF r
  <2> QED BY <1>2, IdleOK
<1>4. \A u \in Threads : a.id \notin th'[u].saved /\ acc'[u].id \notin r.saved
  <2>1. SUFFICES ASSUME NEW u \in Threads PROVE a.id \notin th[u].saved
    BY <1>3
  <2>2. th[u].saved \subseteq NodeIds
    BY DEF Inv, ThreadsOK, ThreadOK, ThreadType
  <2> QED BY <2>2, NodeIdAssumption DEF NoAccessor, Inv, NotSaved
<1>5. LocksOnly(t, r, None) /\ Lets(t, r) /\ WaitsFor(r)
  BY <1>3 DEF LocksOnly, Lets, WaitsFor
<1>6. GrowerOK' /\ SegmentsOK'
  BY <1>1, NoGrowth DEF env
<1> HIDE DEF r
<1>7. r.pc # "assign" /\ UNCHANGED <<other, up, scenario>>
  BY DEF r, env
<1> QED BY <1>1, <1>3, <1>4, <1>5, <1>6, <1>7, ThreadStep

LEMMA StoreThroughAccessorStep ==
    ASSUME Inv, NEW t \in Threads, StoreThroughAccessor(t)
    PROVE  Inv'
<1>1. PICK v \in scenario.values : table' = StoreValue(table, acc[t].id, v)
  BY DEF StoreThroughAccessor
<1>2. v \in Values
  BY <1>1, ScenarioAssumption DEF Inv
<1>3. th[t].pc = "idle" /\ acc[t].mode = "write" /\ UNCHANGED <<th, acc, grower, env>>
  BY DEF StoreThroughAccessor
<1>4. up
  BY <1>3, IsUp DEF NoAccessor
<1>5. acc[t] \in AccessorType /\ acc' = [acc EXCEPT ![t] = acc[t]]
  BY <1>3 DEF Inv
<1>6. TableOK(table') /\ Grows(table, table', Written(t))
      /\ (table').my_mask = table.my_mask /\ (table').segments = table.segments
  BY <1>1, <1>2, StoreFacts
<1> QED BY <1>3, <1>4, <1>5, <1>6, AccessorKept

LEMMA ReleaseAccessorStep ==
    ASSUME Inv, NEW t \in Threads, ReleaseAccessor(t)
    PROVE  Inv'
<1>1. th[t].pc = "idle" /\ acc[t] # NoAccessor /\ UNCHANGED <<table, th, grower, env>>
      /\ acc' = [acc EXCEPT ![t] = NoAccessor]
  BY DEF ReleaseAccessor
<1>2. up /\ NoAccessor \in AccessorType
  BY <1>1, IsUp DEF NoAccessor, AccessorType
<1>3. TableOK(table') /\ Grows(table, table', Written(t))
      /\ (table').my_mask = table.my_mask /\ (table').segments = table.segments
  BY <1>1, TableKept
<1> DEFINE a == NoAccessor
<1>4. a \in AccessorType /\ acc' = [acc EXCEPT ![t] = a] /\ (a = acc[t] \/ a = NoAccessor)
  BY <1>1, <1>2
<1> HIDE DEF a
<1> QED BY <1>1, <1>2, <1>3, <1>4, AccessorKept

-----------------------------------------------------------------------------
(* check_growth() and enable_segment() *)

LEMMA CheckGrowthStep ==
    ASSUME Inv, NEW t \in Threads, CheckGrowth(t)
    PROVE  Inv'
<1>1. th[t].pc = "grow" /\ UNCHANGED <<table, env>>
  BY DEF CheckGrowth
<1>2. ThreadOK(t, th[t], table) /\ ThreadType(th[t])
  BY DEF Inv, ThreadsOK, ThreadOK
<1>3. CASE /\ grower = None /\ table.my_mask = th[t].m /\ NewSegment(t) < number_of_segments
           /\ grower' = t /\ th' = [th EXCEPT ![t].pc = "enable"] /\ UNCHANGED acc
  <2> DEFINE r == [th[t] EXCEPT !.pc = "enable"]
  <2>1. th' = [th EXCEPT ![t] = r]
    BY <1>3
  <2>2. /\ ThreadType(r) /\ r.pc = "enable" /\ r.path = th[t].path /\ r.call = th[t].call
        /\ r.locks = th[t].locks /\ r.saved = th[t].saved /\ r.m = th[t].m
    BY <1>2 DEF ThreadType, Unlocked
  <2> HIDE DEF r
  <2>3. th[t].locks = {} /\ th[t].saved = {}
    BY <1>1, <1>2 DEF ThreadOK, Unlocked
  <2>4. CallOK(r)
    BY <1>1, <1>2, <2>2 DEF ThreadOK, CallOK, Changing
  <2>5. ThreadOK(t, r, table)
    BY <1>2, <2>2, <2>3, <2>4, UnlockedOK DEF ThreadOK
  <2>6. /\ TableOK(table') /\ Grows(table, table', Written(t)) /\ ThreadOK(t, r, table')
        /\ table' = table
    BY <1>1, <2>5, TableKept
  <2>7. \A w \in Threads : th'[w] = IF w = t THEN r ELSE th[w]
    BY <2>1 DEF Inv
  <2>8. \A w \in Threads : th[w].pc \notin {"enable", "publish"}
    BY <1>3, ThreadAssumption DEF Inv, GrowerOK
  <2>9. GrowerOK'
    <3>1. \A w \in Threads : th'[w].pc \in {"enable", "publish"} <=> w = t
      BY <2>2, <2>7, <2>8
    <3>2. th'[t].m = (table').my_mask /\ Log2(th'[t].m + 1) < number_of_segments
      BY <1>3, <2>2, <2>6, <2>7 DEF NewSegment
    <3> QED BY <3>1, <3>2, <1>3 DEF GrowerOK
  <2>10. SegmentsOK'
    <3>1. ~Publishing /\ ~Publishing'
      BY <2>2, <2>7, <2>8 DEF Publishing
    <3> QED BY <3>1, <2>6, <1>1 DEF Inv, SegmentsOK, env
  <2>11. LocksOnly(t, r, None) /\ Lets(t, r) /\ WaitsFor(r)
    BY <2>2, <2>3 DEF LocksOnly, Lets, WaitsFor
  <2> DEFINE a == acc[t]
  <2>12. a \in AccessorType /\ acc' = [acc EXCEPT ![t] = a]
    BY <1>3 DEF Inv
  <2>13. \A u \in Threads : a.id \notin th'[u].saved /\ acc'[u].id \notin r.saved
    BY <1>3, <2>2, <2>3, <2>7 DEF Inv, NotSaved
  <2> HIDE DEF a
  <2>14. up /\ UNCHANGED <<other, up, scenario>> /\ r.pc # "assign"
    BY <1>1, <2>2, IsUp DEF env
  <2> QED BY <2>1, <2>6, <2>9, <2>10, <2>11, <2>12, <2>13, <2>14, ThreadStep
<1>4. CASE Return(t, th[t]) /\ UNCHANGED grower
  <2>1. th[t].call \in Call /\ th[t].pc \notin Descending \cup Rehashing
    BY <1>1, <1>2 DEF ThreadType, Descending, Rehashing
  <2> QED BY <1>1, <1>4, <2>1, ReturnKept
<1> QED BY <1>3, <1>4 DEF CheckGrowth

\* What the owner of the mutex knows.
LEMMA GrowerFacts ==
    ASSUME Inv, NEW t \in Threads, th[t].pc \in {"enable", "publish"}
    PROVE  /\ grower = t /\ th[t].m = table.my_mask /\ NewSegment(t) < number_of_segments
           /\ \A w \in Threads : w # t => th[w].pc \notin {"enable", "publish"}
           /\ th[t].pc = "enable" => AllInUse(table)
           /\ th[t].pc = "publish" => OneToPublish(table)
           /\ ThreadOK(t, th[t], table) /\ ThreadType(th[t]) /\ th[t].locks = {} /\ th[t].saved = {}
           /\ TableOK(table) /\ table.my_mask \in Nat /\ Len(table.tls.storage) \in Nat
<1>1. grower = t /\ th[t].m = table.my_mask /\ NewSegment(t) < number_of_segments
  BY DEF Inv, GrowerOK, NewSegment
<1>2. \A w \in Threads : w # t => th[w].pc \notin {"enable", "publish"}
  BY <1>1 DEF Inv, GrowerOK
<1>3. up
  BY IsUp
<1>4. th[t].pc = "enable" => ~Publishing
  BY <1>2 DEF Publishing
<1>5. th[t].pc = "publish" => Publishing
  BY DEF Publishing
<1>6. ThreadOK(t, th[t], table) /\ ThreadType(th[t]) /\ th[t].locks = {} /\ th[t].saved = {}
  BY DEF Inv, ThreadsOK, ThreadOK, Unlocked
<1>7. TableOK(table) /\ table.my_mask \in Nat /\ Len(table.tls.storage) \in Nat
  BY TableFacts DEF Inv
<1> QED BY <1>1, <1>2, <1>3, <1>4, <1>5, <1>6, <1>7 DEF Inv, SegmentsOK

LEMMA EnableSegmentStep ==
    ASSUME Inv, NEW t \in Threads, EnableSegment(t)
    PROVE  Inv'
<1> DEFINE r == [th[t] EXCEPT !.pc = "publish"]
<1> DEFINE k == NewSegment(t)
<1>1. /\ th[t].pc = "enable" /\ UNCHANGED <<acc, grower, other, up, scenario>>
      /\ th' = [th EXCEPT ![t] = r]
      /\ table' = IF is_valid(table, k) THEN table ELSE enable(table, k)
  BY DEF EnableSegment, env
<1>2. PICK j \in Nat : Grown(j) /\ table.my_mask = MaskOf(j) /\ table.segments = 0 .. j
  BY <1>1, GrowerFacts DEF AllInUse
<1>3. k = j + 1 /\ j + 1 < number_of_segments /\ j \in 0 .. (number_of_segments - 1)
  BY <1>1, <1>2, GrowerFacts, MaskFacts DEF Grown, NewSegment
<1>4. table' = enable(table, k)
  <2>1. k \notin 0 .. j
    BY <1>2, <1>3
  <2> QED BY <2>1, <1>1, <1>2 DEF is_valid
<1>5. /\ TableOK(table') /\ (table').node_list = table.node_list /\ (table').rehashed = table.rehashed
      /\ (table').segments = table.segments \cup (k .. LastEnabled(k))
      /\ (table').my_mask = table.my_mask /\ (table').tls = table.tls
  BY <1>1, <1>4, GrowerFacts, EnableOK
<1>6. OneToPublish(table')
  <2>1. k \in 0 .. (number_of_segments - 1) /\ LastEnabled(k) \in k .. (number_of_segments - 1)
    BY <1>2, <1>3, SegmentAssumption, EnabledSegments
  <2>2. (0 .. j) \cup (k .. LastEnabled(k)) = 0 .. LastEnabled(k)
    BY <1>2, <1>3, <2>1, SegmentAssumption
  <2> QED BY <1>2, <1>3, <1>5, <2>2 DEF OneToPublish
<1> HIDE DEF k
<1>7. /\ ThreadType(r) /\ r.pc = "publish" /\ r.path = th[t].path /\ r.call = th[t].call
      /\ r.locks = {} /\ r.saved = {} /\ r.m = th[t].m
  BY <1>1, GrowerFacts DEF ThreadType, Unlocked
<1> HIDE DEF r
<1>8. CallOK(r)
  BY <1>1, <1>7, GrowerFacts DEF ThreadOK, CallOK, Changing
<1>9. ThreadOK(t, r, table')
  BY <1>1, <1>5, <1>7, <1>8, GrowerFacts, UnlockedOK DEF ThreadOK
<1>10. \A w \in Threads : th'[w] = IF w = t THEN r ELSE th[w]
  BY <1>1 DEF Inv
<1>11. GrowerOK'
  <2>1. grower = t /\ \A w \in Threads : w # t => th[w].pc \notin {"enable", "publish"}
    BY <1>1, GrowerFacts
  <2>2. \A w \in Threads : th'[w].pc \in {"enable", "publish"} <=> w = t
    BY <1>7, <1>10, <2>1
  <2>3. th'[t].m = (table').my_mask /\ Log2(th'[t].m + 1) < number_of_segments
    BY <1>1, <1>5, <1>7, <1>10, GrowerFacts DEF NewSegment
  <2> QED BY <2>1, <2>2, <2>3, <1>1 DEF GrowerOK
<1>12. SegmentsOK'
  <2>1. Publishing'
    BY <1>7, <1>10 DEF Publishing
  <2> QED BY <2>1, <1>6 DEF SegmentsOK
<1>13. LocksOnly(t, r, None) /\ Lets(t, r) /\ WaitsFor(r)
  BY <1>1, <1>7, GrowerFacts DEF LocksOnly, Lets, WaitsFor
<1> DEFINE a == acc[t]
<1>14. a \in AccessorType /\ acc' = [acc EXCEPT ![t] = a]
  BY <1>1 DEF Inv
<1>15. \A u \in Threads : a.id \notin th'[u].saved /\ acc'[u].id \notin r.saved
  BY <1>1, <1>7, <1>10 DEF Inv, NotSaved
<1> HIDE DEF a
<1>16. up /\ r.pc # "assign"
  BY <1>1, <1>7, IsUp
<1>17. Grows(table, table', Written(t))
  BY <1>1, <1>5, GrowerFacts DEF Grows, IdsOf
<1> QED BY <1>1, <1>5, <1>9, <1>11, <1>12, <1>13, <1>14, <1>15, <1>16, <1>17, ThreadStep

\* The mask is stored once all of the segments that it covers are there.
LEMMA PublishMaskStep ==
    ASSUME Inv, NEW t \in Threads, PublishMask(t)
    PROVE  Inv'
<1> DEFINE m == NewMask(NewSegment(t))
<1>1. /\ th[t].pc = "publish" /\ UNCHANGED <<other, up, scenario>> /\ grower' = None
      /\ table' = [table EXCEPT !.my_mask = m] /\ Return(t, th[t])
  BY DEF PublishMask, env
<1>2. PICK j \in Nat : /\ Grown(j) /\ j + 1 < number_of_segments
                       /\ table.my_mask = MaskOf(j) /\ table.segments = 0 .. LastEnabled(j + 1)
  BY <1>1, GrowerFacts DEF OneToPublish
<1> DEFINE i == LastEnabled(j + 1)
<1>3. NewSegment(t) = j + 1 /\ j \in 0 .. (number_of_segments - 1)
      /\ j + 1 \in 0 .. (number_of_segments - 1)
  <2>1. j \in 0 .. (number_of_segments - 1) /\ j + 1 \in 0 .. (number_of_segments - 1)
    BY <1>2, SegmentAssumption
  <2>2. th[t].m = MaskOf(j)
    BY <1>1, <1>2, GrowerFacts
  <2> QED BY <2>1, <2>2, MaskFacts DEF NewSegment
<1>4. i \in (j + 1) .. (number_of_segments - 1) /\ Grown(i) /\ m = MaskOf(i)
  BY <1>3, EnabledSegments
<1>5. i \in 0 .. (number_of_segments - 1) /\ i \in Nat
  BY <1>3, <1>4, SegmentAssumption
<1>6. m \in Nat /\ table.my_mask <= m
  <2>1. m \in Nat
    BY <1>4, <1>5, MaskFacts
  <2>2. j + 1 \in Exponents /\ i + 1 \in Exponents /\ j + 1 <= i + 1
    BY <1>3, <1>4, <1>5, SegmentAssumption DEF Exponents
  <2>3. 2 ^ (j + 1) <= 2 ^ (i + 1)
    BY <2>2, PowersGrow
  <2>4. MaskOf(j) \in Nat /\ MaskOf(j) + 1 = 2 ^ (j + 1) /\ MaskOf(i) \in Nat /\ MaskOf(i) + 1 = 2 ^ (i + 1)
    BY <1>3, <1>5, MaskFacts
  <2>5. MaskOf(j) <= MaskOf(i)
    BY <2>3, <2>4
  <2> QED BY <2>1, <2>5, <1>2, <1>4
<1> HIDE DEF m, i
<1>7. /\ TableOK(table') /\ (table').node_list = table.node_list /\ (table').rehashed = table.rehashed
      /\ (table').segments = table.segments /\ (table').my_mask = m /\ (table').tls = table.tls
  BY <1>1, <1>6, GrowerFacts, MaskChanged
<1>8. AllInUse(table')
  BY <1>2, <1>4, <1>5, <1>7 DEF AllInUse, i
<1>9. Grows(table, table', Written(t))
  BY <1>1, <1>6, <1>7, GrowerFacts DEF Grows, IdsOf
<1>10. \A w \in Threads : th'[w].pc \notin {"enable", "publish"}
  <2>1. \A w \in Threads : th'[w] = IF w = t THEN AfterCall(th[t].call) ELSE th[w]
    BY <1>1 DEF Inv, Return
  <2>2. AfterCall(th[t].call).pc \notin {"enable", "publish"}
    BY DEF AfterCall
  <2> QED BY <1>1, <2>1, <2>2, GrowerFacts
<1>11. GrowerOK' /\ SegmentsOK'
  <2>1. GrowerOK'
    BY <1>1, <1>10, ThreadAssumption DEF GrowerOK
  <2>2. ~Publishing'
    BY <1>10 DEF Publishing
  <2> QED BY <2>1, <2>2, <1>8 DEF SegmentsOK
<1>12. th[t].call \in Call /\ th[t].pc # "idle" /\ th[t].pc \notin Descending \cup Rehashing
  BY <1>1, GrowerFacts DEF ThreadType, Descending, Rehashing
<1> QED BY <1>1, <1>7, <1>9, <1>11, <1>12, ReturnStep

-----------------------------------------------------------------------------
(* defragment() *)

\* A bucket is skipped if one of its elements has an accessor, and stays locked
\* if not.
LEMMA SaveNodesStep ==
    ASSUME Inv, NEW t \in Threads, SaveNodes(t)
    PROVE  Inv'
<1> DEFINE
      b == Target(t)
      ids == {n.id : n \in table.node_list[b]}
      usable == \A id \in ids : ItemFree(id, "write")
      locks == IF usable THEN th[t].locks ELSE th[t].locks \ {<<b, "write">>}
      saved == IF usable THEN th[t].saved \cup ids ELSE th[t].saved
      seen == [th[t] EXCEPT !.locks = locks, !.saved = saved]
<1>1. th[t].pc = "search" /\ th[t].pc \in Working /\ th[t].call.op = "defragment"
      /\ UNCHANGED <<table, acc, other, up, scenario, grower>>
      /\ th' = [th EXCEPT ![t] = IF b = seen.from THEN [seen EXCEPT !.pc = "defrag"]
                                 ELSE [seen EXCEPT !.pc = "bucket", !.path = <<b - 1>>]]
  BY DEF SaveNodes, env, Working
<1>2. /\ b \in Buckets /\ b \in Nat /\ ids = IdsOf(table, b) /\ ids \subseteq NodeIds
      /\ b = Head(th[t].path)
  BY <1>1, WorkFacts, TableFacts, BucketsAreNumbers DEF IdsOf
<1>3. Writes(th[t], b) /\ b \in table.rehashed /\ \A l \in th[t].locks : l[1] \in table.rehashed
  <2>1. ThreadOK(t, th[t], table)
    BY <1>1, WorkFacts
  <2>2. Head(th[t].path) = TopOf(th[t]) /\ b \in table.rehashed /\ \A l \in th[t].locks : l[1] \in table.rehashed
    BY <1>1, <1>2, <2>1, WorkingBucket
  <2>3. Writes(th[t], TopOf(th[t]))
    BY <1>1, <2>1 DEF ThreadOK, LocksHeld, InTable
  <2> QED BY <1>2, <2>2, <2>3
<1>4. locks \subseteq th[t].locks /\ \A c \in Buckets : c # b /\ Writes(th[t], c) => <<c, "write">> \in locks
  BY DEF Writes
<1>5. \A u \in Threads : acc[u].id \notin saved
  <2>1. SUFFICES ASSUME NEW u \in Threads, acc[u].id \in saved PROVE FALSE
    OBVIOUS
  <2>2. acc[u].id \in ids /\ usable
    BY <2>1 DEF Inv, NotSaved
  <2>3. ItemFree(acc[u].id, "write")
    BY <2>2
  <2> QED BY <2>3 DEF ItemFree, Compatible
\* Each element that is saved is in a bucket that stays locked.
<1>6. \A id \in saved : \E c \in Buckets : <<c, "write">> \in locks /\ id \in IdsOf(table, c) /\ c >= b
  <2>1. SUFFICES ASSUME NEW id \in saved
                 PROVE  \E c \in Buckets : <<c, "write">> \in locks /\ id \in IdsOf(table, c) /\ c >= b
    OBVIOUS
  <2>2. CASE id \in th[t].saved
    <3>1. PICK c \in Buckets : Writes(th[t], c) /\ id \in IdsOf(table, c) /\ c > b
      BY <1>1, <1>2, <2>2, WorkFacts DEF ThreadOK, SavedOK, InTable
    <3>2. c \in Nat
      BY BucketsAreNumbers
    <3> QED BY <1>2, <1>4, <3>1, <3>2
  <2>3. CASE id \in ids /\ usable
    <3>1. locks = th[t].locks
      BY <2>3
    <3> QED BY <1>2, <1>3, <2>3, <3>1 DEF Writes
  <2> QED BY <2>1, <2>2, <2>3
<1>7. saved \subseteq NodeIds /\ ThreadType(th[t])
  BY <1>1, <1>2, WorkFacts DEF ThreadType
<1> HIDE DEF locks, saved, usable, ids
<1>8. /\ ThreadType(seen) /\ seen.pc = "search" /\ seen.call = th[t].call /\ seen.path = th[t].path
      /\ seen.locks = locks /\ seen.saved = saved /\ seen.from = th[t].from
  BY <1>1, <1>4, <1>7 DEF ThreadType
<1> HIDE DEF seen, b
<1>9. ASSUME NEW r, th' = [th EXCEPT ![t] = r], ThreadOK(t, r, table), r.locks = locks, r.saved = saved,
             r.pc \in {"bucket", "defrag"}
      PROVE  Inv'
  <2>1. TableOK(table') /\ Grows(table, table', Written(t)) /\ ThreadOK(t, r, table')
        /\ (table').my_mask = table.my_mask /\ (table').segments = table.segments
    BY <1>1, <1>9, TableKept
  <2>2. GrowerOK' /\ SegmentsOK'
    BY <1>1, <1>9, <2>1, NoGrowth
  <2>3. LocksOnly(t, r, None) /\ Lets(t, r) /\ WaitsFor(r)
    BY <1>1, <1>3, <1>4, <1>9 DEF LocksOnly, Lets, WaitsFor
  <2> DEFINE a == acc[t]
  <2>4. a \in AccessorType /\ acc' = [acc EXCEPT ![t] = a]
    BY <1>1 DEF Inv
  <2>5. \A u \in Threads : th'[u] = IF u = t THEN r ELSE th[u]
    BY <1>9 DEF Inv
  <2>6. \A u \in Threads : a.id \notin th'[u].saved /\ acc'[u].id \notin r.saved
    BY <1>1, <1>5, <1>9, <2>5 DEF Inv, NotSaved
  <2> HIDE DEF a
  <2>7. up /\ r.pc # "assign"
    BY <1>1, <1>9, IsUp
  <2> QED BY <1>1, <1>9, <2>1, <2>2, <2>3, <2>4, <2>6, <2>7, ThreadStep
<1>10. CallOK(th[t]) /\ (\A i \in 1 .. Len(th[t].path) : th[t].path[i] <= table.my_mask)
       /\ th[t].from <= b /\ th[t].from \in Nat
  BY <1>1, <1>2, <1>7, WorkFacts DEF ThreadOK, RangeOK, InTable, ThreadType
<1>11. CASE th' = [th EXCEPT ![t] = [seen EXCEPT !.pc = "defrag"]]
  <2> DEFINE r == [seen EXCEPT !.pc = "defrag"]
  <2>1. /\ ThreadType(r) /\ r.pc = "defrag" /\ r.call = th[t].call /\ r.path = th[t].path
        /\ r.locks = locks /\ r.saved = saved
    BY <1>8 DEF ThreadType
  <2>2. th' = [th EXCEPT ![t] = r]
    BY <1>11
  <2> HIDE DEF r
  <2>3. /\ r.pc \notin InTable /\ r.pc \notin Unlocked /\ ~HasItem(r)
        /\ r.pc \notin {"cache", "insert", "erase", "persist", "idle"}
    BY <2>1 DEF HasItem, InTable, Descending, Rehashing, Working, Changing, Unlocked
  <2>4. CallOK(r)
    BY <1>1, <1>10, <2>1 DEF CallOK, Changing
  <2>5. LocksExplained(r, table) /\ SavedOK(r, table)
    BY <1>3, <1>4, <1>6, <2>1, <2>3 DEF LocksExplained, SavedOK, Writes
  <2>6. ThreadOK(t, r, table)
    BY <1>1, <1>10, <2>1, <2>3, <2>4, <2>5 DEF ThreadOK, ItemOK
  <2> QED BY <1>9, <2>1, <2>2, <2>6
<1>12. CASE b # seen.from /\ th' = [th EXCEPT ![t] = [seen EXCEPT !.pc = "bucket", !.path = <<b - 1>>]]
  <2> DEFINE c == b - 1
  <2> DEFINE r == [seen EXCEPT !.pc = "bucket", !.path = <<c>>]
  <2>1. th[t].from <= c /\ c < b /\ c \in Nat
    BY <1>2, <1>8, <1>10, <1>12
  <2>2. c \in Buckets /\ c <= table.my_mask
    <3>1. th[t].path[1] = b /\ 1 \in 1 .. Len(th[t].path)
      BY <1>1, <1>2, WorkFacts, PathFacts DEF InTable
    <3>2. table.my_mask \in Nat /\ b <= table.my_mask
      BY <3>1, <1>10, TableFacts DEF Inv
    <3>3. 2 ^ number_of_segments \in Nat
      <4>1. number_of_segments \in Exponents
        BY SegmentAssumption DEF Exponents
      <4> QED BY <4>1, Powers
    <3> QED BY <3>2, <3>3, <2>1, <1>2 DEF Buckets
  <2>3. <<c>> \in Seq(Buckets) /\ Len(<<c>>) = 1 /\ Head(<<c>>) = c /\ <<c>>[1] = c /\ <<c>> # <<>>
    BY <2>2
  <2>4. th' = [th EXCEPT ![t] = r]
    BY <1>12
  <2> HIDE DEF c
  <2>5. /\ ThreadType(r) /\ r.pc = "bucket" /\ r.call = th[t].call /\ r.path = <<c>>
        /\ r.locks = locks /\ r.saved = saved /\ r.from = th[t].from
    BY <1>8, <2>3 DEF ThreadType, InTable, Descending
  <2> HIDE DEF r
  <2>6. /\ r.pc \in InTable /\ r.pc \notin Working /\ r.pc \notin Unlocked /\ r.pc \notin Rehashing
        /\ ~HasItem(r) /\ r.pc \notin {"cache", "insert", "erase", "persist", "move", "mark", "idle"}
    BY <2>5 DEF HasItem, InTable, Descending, Rehashing, Working, Changing, Unlocked
  <2>7. CallOK(r)
    BY <1>1, <1>10, <2>5 DEF CallOK, Changing
  <2>8. PathOK(r) /\ KeyedOK(r) /\ LocksHeld(r)
    BY <1>1, <2>3, <2>5, <2>6 DEF PathOK, KeyedOK, LocksHeld
  <2>9. RangeOK(r)
    BY <2>1, <2>3, <2>5 DEF RangeOK
  <2>10. LocksExplained(r, table)
    BY <1>3, <1>4, <2>5 DEF LocksExplained
  <2>11. SavedOK(r, table)
    <3>1. \A d \in Buckets : d \in Nat
      BY BucketsAreNumbers
    <3>2. \A d \in Buckets : d >= b => d > Head(r.path)
      BY <3>1, <1>2, <2>1, <2>3, <2>5
    <3> QED BY <3>2, <1>6, <2>5 DEF SavedOK, Writes
  <2>12. \A i \in 1 .. Len(r.path) : r.path[i] <= table.my_mask
    BY <2>2, <2>3, <2>5
  <2>13. ThreadOK(t, r, table)
    BY <1>1, <2>5, <2>6, <2>7, <2>8, <2>9, <2>10, <2>11, <2>12 DEF ThreadOK, ItemOK
  <2> QED BY <1>9, <2>4, <2>5, <2>13
<1> QED BY <1>1, <1>11, <1>12

LEMMA RunDefragStep ==
    ASSUME Inv, NEW t \in Threads, RunDefrag(t)
    PROVE  Inv'
<1>1. th[t].pc = "defrag" /\ UNCHANGED <<table, grower, env>> /\ Return(t, Answered(th[t], TRUE))
  BY DEF RunDefrag
<1>2. ThreadType(th[t])
  BY DEF Inv, ThreadsOK, ThreadOK
<1>3. Answered(th[t], TRUE).call \in Call
  BY <1>2, AnsweredOK
<1>4. th[t].pc \notin Descending \cup Rehashing
  BY <1>1 DEF Descending, Rehashing
<1> QED BY <1>1, <1>3, <1>4, ReturnKept

-----------------------------------------------------------------------------
(* Calls *)

LEMMA StartStep ==
    ASSUME Inv, NEW t \in Threads, NEW call \in Call, NEW b \in Buckets, b <= table.my_mask, NEW from \in Nat,
           Start(t, call, table.my_mask, b, from),
           call.op \in {"insert", "insert_or_assign"} => call.val \in Values,
           call.op = "defragment" => from <= b,
           call.op # "defragment" =>
                call.op # "none" /\ call.key \in Keys /\ Masked(hasher[call.key], OwnMask(b)) = b
    PROVE  Inv'
<1> DEFINE r == [AfterCall(call) EXCEPT !.pc = "bucket", !.m = table.my_mask, !.path = <<b>>, !.from = from]
<1>1. up /\ th[t].pc = "idle" /\ acc[t] = NoAccessor /\ UNCHANGED <<table, other, acc, grower, up, scenario>>
      /\ th' = [th EXCEPT ![t] = r]
  BY DEF Start
<1>2. <<b>> \in Seq(Buckets) /\ Len(<<b>>) = 1 /\ Head(<<b>>) = b /\ <<b>>[1] = b /\ <<b>> # <<>>
  OBVIOUS
<1>3. table.my_mask \in Nat
  BY TableFacts DEF Inv
<1>4. /\ ThreadType(r) /\ r.pc = "bucket" /\ r.call = call /\ r.path = <<b>> /\ r.locks = {}
      /\ r.saved = {} /\ r.from = from
  BY <1>2, <1>3 DEF AfterCall, ThreadType, InTable, Descending
<1> HIDE DEF r
<1>5. /\ r.pc \in InTable /\ r.pc \notin Working /\ r.pc \notin Unlocked /\ r.pc \notin Rehashing
      /\ ~HasItem(r) /\ r.pc \notin {"cache", "insert", "erase", "persist", "move", "mark", "idle"}
  BY <1>4 DEF HasItem, InTable, Descending, Rehashing, Working, Changing, Unlocked
<1>6. CallOK(r)
  BY <1>4 DEF CallOK, Changing
<1>7. PathOK(r) /\ KeyedOK(r) /\ LocksHeld(r) /\ RangeOK(r)
  BY <1>2, <1>4, <1>5 DEF PathOK, KeyedOK, LocksHeld, RangeOK
<1>8. \A i \in 1 .. Len(r.path) : r.path[i] <= table.my_mask
  BY <1>2, <1>4
<1>9. ThreadOK(t, r, table)
  BY <1>4, <1>5, <1>6, <1>7, <1>8 DEF ThreadOK, LocksExplained, ItemOK, SavedOK
<1>10. TableOK(table') /\ Grows(table, table', Written(t)) /\ ThreadOK(t, r, table')
       /\ (table').my_mask = table.my_mask /\ (table').segments = table.segments
  BY <1>1, <1>9, TableKept
<1>11. GrowerOK' /\ SegmentsOK'
  BY <1>1, <1>4, <1>10, NoGrowth
<1>12. th[t].locks = {}
  BY <1>1 DEF Inv, ThreadsOK, ThreadOK, Unlocked
<1>13. LocksOnly(t, r, None) /\ Lets(t, r) /\ WaitsFor(r)
  BY <1>4, <1>12 DEF LocksOnly, Lets, WaitsFor
<1> DEFINE a == acc[t]
<1>14. a \in AccessorType /\ acc' = [acc EXCEPT ![t] = a]
  BY <1>1 DEF Inv
<1>15. \A u \in Threads : a.id \notin th'[u].saved /\ acc'[u].id \notin r.saved
  BY <1>1, <1>4 DEF Inv, NotSaved
<1> HIDE DEF a
<1>16. r.pc # "assign"
  BY <1>4
<1> QED BY <1>1, <1>9, <1>10, <1>11, <1>13, <1>14, <1>15, <1>16, ThreadStep

LEMMA KeyedStep ==
    ASSUME Inv, NEW t \in Threads, NEW op \in Keyed_ops, NEW k \in scenario.keys,
           NEW v \in Values \cup {None}, op \in {"insert", "insert_or_assign"} => v \in Values,
           NEW mode \in {"none", "read", "write"}, Keyed(t, op, k, v, mode)
    PROVE  Inv'
<1> DEFINE call == Request(op, k, v, mode)
<1> DEFINE b == Masked(hasher[k], table.my_mask)
<1>1. k \in Keys
  BY ScenarioAssumption DEF Inv
<1>2. /\ call \in Call /\ call.op = op /\ call.key = k /\ call.val = v
      /\ call.op # "defragment" /\ call.op # "none"
  BY <1>1 DEF Request, Call, Keyed_ops
<1>3. /\ b \in Buckets /\ b <= table.my_mask /\ Masked(hasher[k], OwnMask(b)) = b
  BY <1>1, HashAssumption, MaskedBucket DEF Inv, SegmentsOK
<1>4. Start(t, call, table.my_mask, b, 0)
  BY DEF Keyed
<1> HIDE DEF call, b
<1> QED BY <1>1, <1>2, <1>3, <1>4, StartStep

\* The range of buckets of a range of percents.
LEMMA Percents ==
    ASSUME NEW x \in Nat, NEW y \in Nat, x + y <= 100, NEW m \in Nat
    PROVE  /\ (x * m) \div 100 \in Nat /\ ((x + y) * m) \div 100 \in Nat
           /\ (x * m) \div 100 <= ((x + y) * m) \div 100
           /\ ((x + y) * m) \div 100 <= m
<1> DEFINE p == x * m
           q == (x + y) * m
<1>1. p \in Nat /\ y * m \in Nat /\ q = p + y * m
  BY Z3
<1>2. (100 - (x + y)) * m >= 0 /\ q + (100 - (x + y)) * m = 100 * m
  <2>1. 100 - (x + y) \in Nat
    OBVIOUS
  <2>2. PICK z \in Nat : z = 100 - (x + y)
    BY <2>1
  <2>3. z * m \in Nat
    BY Z3
  <2>4. (x + y) + z = 100
    BY <2>2
  <2>5. ((x + y) + z) * m = (x + y) * m + z * m
    BY Z3
  <2> QED BY <2>2, <2>3, <2>4, <2>5
<1> HIDE DEF p, q
<1>3. q \in Nat /\ p <= q /\ q <= 100 * m
  BY <1>1, <1>2
<1>4. /\ p \div 100 \in Nat /\ q \div 100 \in Nat
      /\ p = 100 * (p \div 100) + (p % 100) /\ p % 100 \in 0 .. 99
      /\ q = 100 * (q \div 100) + (q % 100) /\ q % 100 \in 0 .. 99
  BY <1>1, <1>3, DivMod
<1> QED BY <1>1, <1>3, <1>4 DEF p, q

LEMMA DefragmentStep ==
    ASSUME Inv, NEW t \in Threads, defragment(t)
    PROVE  Inv'
<1> DEFINE call == Request("defragment", None, None, "none")
<1>1. PICK g \in scenario.ranges :
        Start(t, call, table.my_mask, ((g[1] + g[2]) * table.my_mask) \div 100, (g[1] * table.my_mask) \div 100)
  BY DEF defragment
<1>2. g[1] \in Nat /\ g[2] \in Nat /\ g[1] + g[2] <= 100
  BY ScenarioAssumption DEF Inv
<1> DEFINE b == ((g[1] + g[2]) * table.my_mask) \div 100
           from == (g[1] * table.my_mask) \div 100
<1>3. table.my_mask \in Nat
  BY TableFacts DEF Inv
<1>4. from \in Nat /\ b \in Nat /\ from <= b /\ b <= table.my_mask
  BY <1>2, <1>3, Percents
<1>5. call \in Call /\ call.op = "defragment"
  BY DEF Request, Call
<1>6. Start(t, call, table.my_mask, b, from)
  BY <1>1
<1> HIDE DEF b, from, call
<1>7. b \in Buckets
  <2>1. PICK j \in Nat : Grown(j) /\ table.my_mask = MaskOf(j)
    BY DEF Inv, SegmentsOK, AllInUse, OneToPublish
  <2>2. 0 .. MaskOf(j) \subseteq Buckets
    BY <2>1, MaskFacts DEF Grown
  <2> QED BY <1>3, <1>4, <2>1, <2>2
<1> QED BY <1>3, <1>4, <1>5, <1>6, <1>7, StartStep

LEMMA CallsStep ==
    ASSUME Inv, NEW t \in Threads, Calls(t)
    PROVE  Inv'
<1>1. ASSUME count(t) \/ find(t) \/ erase(t) PROVE Inv'
  <2>1. PICK op \in {"count", "find", "erase"}, k \in scenario.keys, mode \in {"none", "read", "write"} :
            Keyed(t, op, k, None, mode)
    BY <1>1 DEF count, find, erase
  <2> QED BY <2>1, KeyedStep DEF Keyed_ops
<1>2. ASSUME insert(t) \/ insert_or_assign(t) PROVE Inv'
  <2>1. PICK op \in {"insert", "insert_or_assign"}, k \in scenario.keys, v \in scenario.values,
             mode \in {"none", "read", "write"} : Keyed(t, op, k, v, mode)
    BY <1>2 DEF insert, insert_or_assign
  <2>2. v \in Values
    BY ScenarioAssumption DEF Inv
  <2> QED BY <2>1, <2>2, KeyedStep DEF Keyed_ops
<1> QED BY <1>1, <1>2, DefragmentStep DEF Calls

-----------------------------------------------------------------------------
(* Operations that no call overlaps, crashes, and the initial states *)

\* No thread is in a call, and none has an accessor.
Quiescent ==
    /\ scenario \in Scenarios
    /\ up \in BOOLEAN
    /\ th = [t \in Threads |-> th[t]]
    /\ \A t \in Threads : th[t].call \in Call /\ th[t] = AfterCall(th[t].call)
    /\ acc = [t \in Threads |-> NoAccessor] /\ grower = None
    /\ TableOK(table) /\ TableOK(other) /\ AllInUse(other)
    /\ AllInUse(table) \/ OneToPublish(table)
    /\ up => AllInUse(table)
    /\ ~up => th = Idle

\* Then a thread knows nothing of the map, and the map can be any.
LEMMA QuiescentOK == Quiescent => Inv
<1> SUFFICES ASSUME Quiescent PROVE Inv
  OBVIOUS
<1>1. \A t \in Threads : /\ ThreadOK(t, th[t], table)
                         /\ th[t].locks = {} /\ th[t].saved = {} /\ th[t].pc = "idle"
  <2>1. SUFFICES ASSUME NEW t \in Threads
                 PROVE  /\ ThreadOK(t, th[t], table)
                        /\ th[t].locks = {} /\ th[t].saved = {} /\ th[t].pc = "idle"
    OBVIOUS
  <2>2. PICK call \in Call : th[t] = AfterCall(call)
    BY DEF Quiescent
  <2> QED BY <2>2, IdleOK
<1>2. ThreadsOK
  BY <1>1 DEF ThreadsOK
<1>3. Exclusive /\ Waited /\ NotSaved /\ Assigning
  BY <1>1 DEF Exclusive, Waited, NotSaved, Assigning
<1>4. GrowerOK
  BY <1>1, ThreadAssumption DEF GrowerOK, Quiescent
<1>5. SegmentsOK
  <2>1. ~Publishing
    BY <1>1 DEF Publishing
  <2> QED BY <2>1 DEF SegmentsOK, Quiescent
<1>6. acc \in [Threads -> AccessorType] /\ DOMAIN th = Threads
  BY DEF Quiescent, AccessorType, NoAccessor
<1> QED BY <1>2, <1>3, <1>4, <1>5, <1>6 DEF Quiescent, Inv, DownOK

LEMMA QuiescentNext == Quiescent' => Inv'
  BY QuiescentOK, PTL

LEMMA QuietFacts ==
    ASSUME Inv, Quiet
    PROVE  /\ \A t \in Threads : th[t].call \in Call /\ th[t] = AfterCall(th[t].call)
           /\ acc = [t \in Threads |-> NoAccessor] /\ grower = None
           /\ TableOK(table) /\ AllInUse(table) /\ TableOK(other) /\ AllInUse(other)
<1>1. \A t \in Threads : th[t].pc = "idle" /\ acc[t] = NoAccessor
  BY DEF Quiet
<1>2. \A t \in Threads : th[t].call \in Call /\ th[t] = AfterCall(th[t].call)
  BY <1>1 DEF Inv, ThreadsOK, ThreadOK, ThreadType
<1>3. acc = [t \in Threads |-> NoAccessor]
  BY <1>1 DEF Inv
<1>4. grower = None
  BY <1>1 DEF Inv, GrowerOK
<1>5. ~Publishing
  BY <1>1 DEF Publishing
<1> QED BY <1>2, <1>3, <1>4, <1>5 DEF Inv, SegmentsOK, Quiet

LEMMA AloneStep ==
    ASSUME Inv, Quiet, UNCHANGED <<acc, grower, scenario>>,
           (UNCHANGED <<th, up>>) \/ (th' = Idle /\ up' = FALSE),
           TableOK(table'), AllInUse(table'), TableOK(other'), AllInUse(other')
    PROVE  Inv'
<1>1. \A t \in Threads : th'[t].call \in Call /\ th'[t] = AfterCall(th'[t].call)
  <2>1. NoCall \in Call /\ AfterCall(NoCall).call = NoCall
    BY DEF NoCall, Call, AfterCall
  <2> QED BY <2>1, QuietFacts DEF Idle
<1>2. th' = [t \in Threads |-> th'[t]]
  BY DEF Inv, Idle
<1>3. (up \in BOOLEAN)' /\ (up' \/ th' = Idle)
  BY DEF Inv, Quiet
<1>4. Quiescent'
  BY <1>1, <1>2, <1>3, QuietFacts DEF Quiescent, Inv
<1> QED BY <1>4, QuiescentNext

\* Addresses are of nodes that are free, and no two are the same.
LEMMA AddressFacts ==
    ASSUME NEW list \in Seq([key : Keys, val : Values]), NEW free, NEW ids \in Addresses(list, free)
    PROVE  /\ \A i \in DOMAIN list : ids[i] \in free
           /\ \A i, k \in DOMAIN list : ids[i] = ids[k] => i = k
  BY DEF Addresses, Injection, IsInjective

LEMMA ListFacts ==
    ASSUME scenario \in Scenarios, NEW list \in scenario.lists
    PROVE  /\ list \in Seq([key : Keys, val : Values]) /\ Len(list) \in Nat
           /\ Len(list) \in 0 .. 2 ^ number_of_segments
<1>1. list \in Seq([key : Keys, val : Values]) /\ Len(list) <= 2 ^ number_of_segments
  BY ScenarioAssumption
<1>2. number_of_segments \in Exponents
  BY SegmentAssumption DEF Exponents
<1>3. 2 ^ number_of_segments \in Nat
  BY <1>2, Powers
<1> QED BY <1>1, <1>3

\* The map is emptied and filled again, up to some element of the list.
LEMMA AssignedOK ==
    ASSUME Inv, Quiet, NEW list \in scenario.lists, HasRoom(list), NEW n \in 0 .. Len(list),
           NEW in_tx \in BOOLEAN
    PROVE  LET new == internal_copy(reserve(ClearTable(table), Len(list)), SubSeq(list, 1, n),
                                    ListIds(list), in_tx, 0)
           IN  TableOK(new) /\ AllInUse(new)
<1> DEFINE cleared == reserve(ClearTable(table), Len(list))
           part == SubSeq(list, 1, n)
           ids == ListIds(list)
<1>1. /\ list \in Seq([key : Keys, val : Values]) /\ Len(list) \in Nat
      /\ Len(list) \in 0 .. 2 ^ number_of_segments
  BY ListFacts DEF Inv
<1>2. ids \in Addresses(list, FreeIds)
  BY DEF HasRoom, ListIds
<1>3. TableOK(cleared) /\ AllInUse(cleared)
      /\ \A b \in Buckets : cleared.node_list[b] \subseteq table.node_list[b]
  <2>1. /\ TableOK(ClearTable(table)) /\ AllInUse(ClearTable(table))
        /\ \A b \in Buckets : ClearTable(table).node_list[b] \subseteq table.node_list[b]
    BY QuietFacts, ClearTableOK
  <2> QED BY <2>1, <1>1, ReserveOK
<1>4. part \in Seq([key : Keys, val : Values]) /\ DOMAIN part \subseteq DOMAIN list
  <2> DEFINE S == [key : Keys, val : Values]
  <2> HIDE DEF S
  <2>1. list \in Seq(S) /\ n \in Nat /\ n <= Len(list) /\ Len(list) \in Nat
    BY <1>1 DEF S
  <2>2. \A i \in 1 .. n : list[i] \in S
    BY <2>1
  <2>3. part = [i \in 1 .. n |-> list[i]]
    BY <2>1
  <2>4. part \in Seq(S) /\ DOMAIN part = 1 .. n
    BY <2>1, <2>2, <2>3
  <2> QED BY <2>1, <2>4 DEF S
<1>5. \A i \in DOMAIN list : ids[i] \in FreeIds
  BY <1>1, <1>2, AddressFacts
<1>6. \A i, k \in DOMAIN list : ids[i] = ids[k] => i = k
  BY <1>1, <1>2, AddressFacts
<1> HIDE DEF ids, part, cleared
<1>7. ASSUME NEW i \in DOMAIN part
      PROVE  ids[i] \in NodeIds /\ \A c \in Buckets : ids[i] \notin IdsOf(cleared, c)
  <2>1. ids[i] \in FreeIds
    BY <1>4, <1>5
  <2>2. ASSUME NEW c \in Buckets, NEW o \in cleared.node_list[c], o.id = ids[i] PROVE FALSE
    <3>1. o \in NodesIn(table)
      BY <1>3 DEF NodesIn
    <3> QED BY <3>1, <2>1, <2>2 DEF FreeIds, UsedIds
  <2> QED BY <2>1, <2>2 DEF FreeIds, IdsOf
<1>8. \A i, k \in DOMAIN part : ids[i] = ids[k] => i = k
  BY <1>4, <1>6
<1>9. TableOK(internal_copy(cleared, part, ids, in_tx, 0)) /\ AllInUse(internal_copy(cleared, part, ids, in_tx, 0))
  BY <1>3, <1>4, <1>7, <1>8, CopyOK
<1> QED BY <1>9 DEF cleared, part, ids

LEMMA AssignListStep ==
    ASSUME Inv, assign_list
    PROVE  Inv'
<1>1. PICK list \in scenario.lists, in_tx \in BOOLEAN :
        HasRoom(list) /\ table' = AssignTable(table, list, ListIds(list), in_tx, 0)
  BY DEF assign_list
<1>2. Quiet /\ UNCHANGED <<acc, grower, scenario, other, th, up>>
  BY DEF assign_list, Alone
<1>3. list \in Seq([key : Keys, val : Values]) /\ Len(list) \in Nat
  BY ListFacts DEF Inv
<1>4. SubSeq(list, 1, Len(list)) = list /\ Len(list) \in 0 .. Len(list)
  BY <1>3
<1>5. TableOK(table') /\ AllInUse(table')
  BY <1>1, <1>2, <1>4, AssignedOK DEF AssignTable
<1> QED BY <1>2, <1>5, QuietFacts, AloneStep

LEMMA AssignListCutStep ==
    ASSUME Inv, assign_list_cut
    PROVE  Inv'
<1>1. PICK list \in scenario.lists : \E n \in 0 .. Len(list) :
        /\ HasRoom(list)
        /\ table' = internal_copy(reserve(ClearTable(table), Len(list)), SubSeq(list, 1, n),
                                  ListIds(list), FALSE, 0)
  BY DEF assign_list_cut
<1>2. Quiet /\ UNCHANGED <<acc, grower, scenario, other>> /\ th' = Idle /\ up' = FALSE
  BY DEF assign_list_cut, Alone
<1>3. TableOK(table') /\ AllInUse(table')
  BY <1>1, <1>2, AssignedOK
<1> QED BY <1>2, <1>3, QuietFacts, AloneStep

LEMMA ClearMapStep ==
    ASSUME Inv, clear_map
    PROVE  Inv'
<1>1. Quiet /\ UNCHANGED <<acc, grower, scenario, other, th, up>> /\ table' = ClearTable(table)
  BY DEF clear_map, Alone
<1>2. TableOK(table') /\ AllInUse(table')
  BY <1>1, QuietFacts, ClearTableOK
<1> QED BY <1>1, <1>2, QuietFacts, AloneStep

LEMMA RehashMapStep ==
    ASSUME Inv, rehash_map
    PROVE  Inv'
<1>1. Quiet /\ UNCHANGED <<acc, grower, scenario, other, th, up>>
  BY DEF rehash_map, Alone
<1>2. PICK n \in 1 .. 2 ^ number_of_segments : table' = rehash(table, n)
  BY DEF rehash_map
<1>3. n \in 0 .. 2 ^ number_of_segments
  <2>1. number_of_segments \in Exponents
    BY SegmentAssumption DEF Exponents
  <2>2. 2 ^ number_of_segments \in Nat
    BY <2>1, Powers
  <2> QED BY <2>2
<1>4. TableOK(table') /\ AllInUse(table')
  BY <1>1, <1>2, <1>3, QuietFacts, RehashOK
<1> QED BY <1>1, <1>4, QuietFacts, AloneStep

LEMMA SwapStep ==
    ASSUME Inv, swap
    PROVE  Inv'
<1>1. Quiet /\ UNCHANGED <<acc, grower, scenario, th, up>>
      /\ table' = internal_swap(table, other) /\ other' = internal_swap(other, table)
  BY DEF swap, Alone
<1>2. TableOK(table') /\ AllInUse(table') /\ TableOK(other') /\ AllInUse(other')
  BY <1>1, QuietFacts, SwapOK
<1> QED BY <1>1, <1>2, AloneStep

\* Maps of the same size, where a swap that is undone leaves what it should.
UndoneSwapsMatch == \A s \in Scenarios : s.any_sizes => "undone swap" \notin s.alone

LEMMA SwapUndoneStep ==
    ASSUME UndoneSwapsMatch, Inv, swap_undone
    PROVE  Inv'
<1>1. Quiet /\ UNCHANGED <<acc, grower, scenario, th, up, table>> /\ other' = SwapUndone(table, other)
      /\ "undone swap" \in scenario.alone
  BY DEF swap_undone, Alone
<1>2. other.my_mask = table.my_mask
  BY <1>1 DEF swap_undone, UndoneSwapsMatch, Inv
<1>3. TableOK(other') /\ AllInUse(other')
  BY <1>1, <1>2, QuietFacts, SwapUndoneOK
<1>4. TableOK(table') /\ AllInUse(table')
  BY <1>1, QuietFacts
<1> QED BY <1>1, <1>3, <1>4, AloneStep

LEMMA IdleFacts ==
    /\ \A t \in Threads : Idle[t].call \in Call /\ Idle[t] = AfterCall(Idle[t].call)
    /\ Idle = [t \in Threads |-> Idle[t]]
<1>1. NoCall \in Call /\ AfterCall(NoCall).call = NoCall
  BY DEF NoCall, Call, AfterCall
<1> QED BY <1>1 DEF Idle

\* Flags that were not flushed are lost; the lists tell which buckets were
\* rehashed.
LEMMA CrashStep ==
    ASSUME Inv, Crash
    PROVE  Inv'
<1>1. PICK kept \in SUBSET (table.rehashed \ table.durable) :
        table' = [table EXCEPT !.rehashed = table.durable \cup kept, !.durable = table.durable \cup kept]
  BY DEF Crash
<1>2. /\ UNCHANGED <<other, scenario>> /\ th' = Idle /\ acc' = [t \in Threads |-> NoAccessor]
      /\ grower' = None /\ up' = FALSE
  BY DEF Crash
<1>3. TableOK(table)
  BY DEF Inv
<1>4. TableOK(table') /\ (table').my_mask = table.my_mask /\ (table').segments = table.segments
  <2>1. /\ TableType(table') /\ (table').node_list = table.node_list
        /\ (table').durable = table.durable \cup kept /\ (table').rehashed = table.durable \cup kept
        /\ (table').tls = table.tls
        /\ (table').my_mask = table.my_mask /\ (table').segments = table.segments
    BY <1>1, <1>3 DEF TableOK, TableType
  <2>2. {0, 1} \subseteq (table').durable /\ (table').tls.cached <= Len((table').tls.storage)
    BY <1>3, <2>1 DEF TableOK
  <2> QED BY <1>3, <2>1, <2>2, SameNodes
<1>5. AllInUse(table') \/ OneToPublish(table')
  BY <1>4, SameSegments DEF Inv, SegmentsOK
<1>6. Quiescent'
  BY <1>2, <1>4, <1>5, IdleFacts DEF Quiescent, Inv
<1> QED BY <1>6, QuiescentNext

LEMMA RestartStep ==
    ASSUME Inv, Restart
    PROVE  Inv'
<1>1. /\ ~up /\ up' = TRUE /\ table' = runtime_initialize(table) /\ other' = runtime_initialize(other)
      /\ UNCHANGED <<th, acc, grower, scenario>>
  BY DEF Restart
<1>2. th = Idle /\ acc = [t \in Threads |-> NoAccessor] /\ grower = None
  BY <1>1 DEF Inv, DownOK
<1>3. TableOK(table') /\ AllInUse(table') /\ TableOK(other') /\ AllInUse(other')
  BY <1>1, InitializeOK DEF Inv, SegmentsOK
<1>4. Quiescent'
  BY <1>1, <1>2, <1>3, IdleFacts DEF Quiescent, Inv
<1> QED BY <1>4, QuiescentNext

LEMMA InitOK == Init => Inv
<1> SUFFICES ASSUME Init PROVE Inv
  OBVIOUS
<1>1. PICK list \in scenario.lists, consistent \in BOOLEAN :
        LET built == ConstructFrom(list, CHOOSE ids \in Addresses(list, NodeIds) : TRUE, TRUE, 0)
        IN  /\ Addresses(list, NodeIds) # {}
            /\ table = IF consistent THEN built
                       ELSE [built EXCEPT !.consistent = FALSE, !.on_init_size = 0]
  BY DEF Init
<1> DEFINE ids == CHOOSE ids \in Addresses(list, NodeIds) : TRUE
           empty == reserve(Constructed, Len(list))
           built == internal_copy(empty, list, ids, TRUE, 0)
<1>2. /\ list \in Seq([key : Keys, val : Values]) /\ Len(list) \in 0 .. 2 ^ number_of_segments
  BY ListFacts DEF Init
<1>3. ids \in Addresses(list, NodeIds)
  BY <1>1
<1>4. \A i \in DOMAIN list : ids[i] \in NodeIds
  BY <1>2, <1>3, AddressFacts
<1>5. \A i, k \in DOMAIN list : ids[i] = ids[k] => i = k
  BY <1>2, <1>3, AddressFacts
<1>6. TableOK(empty) /\ AllInUse(empty) /\ \A b \in Buckets : IdsOf(empty, b) = {}
  <2>1. /\ TableOK(Constructed) /\ AllInUse(Constructed)
        /\ \A b \in Buckets : IdsOf(Constructed, b) = {}
    BY ConstructedOK
  <2>2. TableOK(empty) /\ AllInUse(empty) /\ empty.node_list = Constructed.node_list
    BY <1>2, <2>1, ReserveOK
  <2> QED BY <2>1, <2>2 DEF IdsOf
<1> HIDE DEF ids, empty
<1>7. TableOK(built) /\ AllInUse(built)
  BY <1>2, <1>4, <1>5, <1>6, CopyOK
<1>8. table = IF consistent THEN built ELSE [built EXCEPT !.consistent = FALSE, !.on_init_size = 0]
  BY <1>1 DEF ConstructFrom, ids, empty
<1> HIDE DEF built
<1>9. TableOK(table) /\ AllInUse(table)
  <2>1. CASE consistent
    BY <1>7, <1>8, <2>1
  <2>2. CASE ~consistent
    <3>1. /\ TableType(table) /\ table.node_list = built.node_list
          /\ table.durable = built.durable /\ table.rehashed = built.rehashed
          /\ table.tls = built.tls
          /\ table.my_mask = built.my_mask /\ table.segments = built.segments
      BY <1>7, <1>8, <2>2 DEF TableOK, TableType
    <3>2. TableOK(table)
      BY <1>7, <3>1, SameNodes DEF TableOK
    <3> QED BY <1>7, <3>1, <3>2, SameSegments
  <2> QED BY <2>1, <2>2
<1>10. TableOK(other) /\ AllInUse(other)
  BY ConstructedOK DEF Init
<1>11. Quiescent
  BY <1>9, <1>10, IdleFacts DEF Quiescent, Init
<1> QED BY <1>11, QuiescentOK

-----------------------------------------------------------------------------
(* The theorems *)

LEMMA Stutter ==
    ASSUME Inv, UNCHANGED vars
    PROVE  Inv'
<1>1. UNCHANGED <<table, other, th, acc, grower, up, scenario>>
  BY DEF vars
<1> QED BY <1>1 DEF Inv, ThreadsOK, Exclusive, Waited, Top, NotSaved, Assigning, GrowerOK,
                   Publishing, SegmentsOK, DownOK

\* The invariant: what threads know of the buckets that they have locked.
THEOREM Invariance ==
    ASSUME UndoneSwapsMatch
    PROVE  Spec => []Inv
<1>1. Init => Inv
  BY InitOK
<1>2. Inv /\ [Next]_vars => Inv'
  <2> SUFFICES ASSUME Inv, [Next]_vars PROVE Inv'
    OBVIOUS
  <2>1. ASSUME NEW t \in Threads, Step(t) PROVE Inv'
    BY <2>1, CheckRehashedStep, TryLockStep, LockBucketStep, RehashBucketStep, MarkRehashedStep,
       PersistRehashedStep, SearchMissStep, SearchHitStep, TryItemStep, LocalSizeDiffStep,
       CacheTlsSizeStep, InsertNodeStep, CountInsertedStep, AssignItemStep, EraseNodeStep,
       CountErasedStep, CheckGrowthStep, EnableSegmentStep, PublishMaskStep, SaveNodesStep,
       RunDefragStep, ReleaseAccessorStep DEF Step
  <2>2. ASSUME \E t \in Threads : Calls(t) \/ Step(t) \/ StoreThroughAccessor(t) PROVE Inv'
    BY <2>1, <2>2, CallsStep, StoreThroughAccessorStep
  <2>3. ASSUME clear_map \/ rehash_map \/ assign_list \/ assign_list_cut \/ swap \/ swap_undone PROVE Inv'
    BY <2>3, ClearMapStep, RehashMapStep, AssignListStep, AssignListCutStep, SwapStep, SwapUndoneStep
  <2>4. ASSUME Crash \/ Restart PROVE Inv'
    BY <2>4, CrashStep, RestartStep
  <2> QED BY <2>2, <2>3, <2>4, Stutter DEF Next
<1> QED BY <1>1, <1>2, PTL DEF Spec

\* Every mask leads to segments that are there.
LEMMA BucketsExist ==
    ASSUME Inv, NEW b \in Nat, b <= table.my_mask
    PROVE  get_bucket(table, b)
<1>1. PICK j \in Nat : /\ Grown(j) /\ table.my_mask = MaskOf(j)
                       /\ \/ table.segments = 0 .. j
                          \/ j + 1 < number_of_segments /\ table.segments = 0 .. LastEnabled(j + 1)
  BY DEF Inv, SegmentsOK, AllInUse, OneToPublish
<1>2. j \in 0 .. (number_of_segments - 1) /\ table.my_mask \in Nat
  BY <1>1, TableFacts DEF Inv, Grown
<1>3. segment_index_of(b) \in 0 .. j
  <2>1. b \in 0 .. MaskOf(j)
    BY <1>1, <1>2
  <2> QED BY <2>1, <1>2, SegmentOf
<1>4. segment_index_of(b) \in table.segments
  <2>1. CASE table.segments = 0 .. j
    BY <1>3, <2>1
  <2>2. CASE j + 1 < number_of_segments /\ table.segments = 0 .. LastEnabled(j + 1)
    <3>1. j + 1 \in 0 .. (number_of_segments - 1)
      <4>1. j \in Nat /\ number_of_segments \in Nat /\ j + 1 < number_of_segments
        BY <2>2, SegmentAssumption
      <4> QED BY <4>1
    <3>2. LastEnabled(j + 1) \in (j + 1) .. (number_of_segments - 1)
      BY <3>1, EnabledSegments
    <3> QED BY <1>2, <1>3, <2>2, <3>1, <3>2
  <2> QED BY <1>1, <2>1, <2>2
<1> QED BY <1>4 DEF get_bucket, is_valid

LEMMA InvAsserts == Inv => Asserts
<1> SUFFICES ASSUME Inv PROVE Asserts
  OBVIOUS
<1>1. ASSUME NEW t \in Threads
      PROVE  /\ th[t].pc \in {"insert", "erase"} => t < Len(table.tls.storage)
             /\ th[t].pc \in {"search", "item", "insert", "erase"} => Target(t) \in table.rehashed
             /\ th[t].pc = "move" => Parent(Top(t)) \in table.rehashed
             /\ \A i \in DOMAIN th[t].path : get_bucket(table, th[t].path[i])
  <2>1. ThreadOK(t, th[t], table)
    BY DEF Inv, ThreadsOK
  <2>2. th[t].pc \in {"insert", "erase"} => t < Len(table.tls.storage)
    BY <2>1 DEF ThreadOK
  <2>3. ASSUME th[t].pc \in {"search", "item", "insert", "erase"} PROVE Target(t) \in table.rehashed
    <3>1. th[t].pc \in Working
      BY <2>3 DEF Working, Changing
    <3> QED BY <2>1, <3>1, WorkingBucket DEF Target
  <2>4. ASSUME th[t].pc = "move" PROVE Parent(Top(t)) \in table.rehashed
    <3> DEFINE b == TopOf(th[t])
    <3>1. th[t].pc \in InTable /\ th[t].pc \in Rehashing
      BY <2>4 DEF InTable, Rehashing
    <3>2. b \in Buckets /\ Top(t) = b /\ b >= 2 /\ Writes(th[t], Parent(b))
          /\ \A i \in 1 .. Len(th[t].path) : th[t].path[i] \in Nat /\ b <= th[t].path[i]
      BY <2>1, <2>4, <3>1, PathFacts DEF Top, ThreadOK, LocksHeld
    <3>3. Parent(b) < b /\ Parent(b) \in Nat /\ b \in Nat
      BY <3>2, ParentBefore, BucketsAreNumbers
    <3>4. \A i \in 1 .. Len(th[t].path) : th[t].path[i] # Parent(b)
      <4>1. ASSUME NEW i \in 1 .. Len(th[t].path), th[t].path[i] = Parent(b) PROVE FALSE
        <5> HIDE DEF b
        <5> QED BY <3>2, <3>3, <4>1
      <4> QED BY <4>1
    <3>5. <<Parent(b), "write">> \in th[t].locks /\ <<Parent(b), "write">>[1] = Parent(b)
      BY <3>2 DEF Writes
    <3> HIDE DEF b
    <3>6. Parent(b) \in table.rehashed
      BY <2>1, <3>4, <3>5 DEF ThreadOK, LocksExplained
    <3> QED BY <3>2, <3>6
  <2>5. ASSUME NEW i \in DOMAIN th[t].path PROVE get_bucket(table, th[t].path[i])
    <3>1. th[t].path \in Seq(Buckets) /\ \A k \in 1 .. Len(th[t].path) : th[t].path[k] <= table.my_mask
      BY <2>1 DEF ThreadOK, ThreadType
    <3>2. i \in 1 .. Len(th[t].path) /\ th[t].path[i] \in Buckets
      BY <2>5, <3>1
    <3>3. th[t].path[i] \in Nat
      BY <3>2, BucketsAreNumbers
    <3> QED BY <3>1, <3>2, <3>3, BucketsExist
  <2> QED BY <2>2, <2>3, <2>4, <2>5
<1>2. \A b \in Buckets : \A n \in table.node_list[b] : Masked(hasher[n.key], OwnMask(b)) = b
  BY DEF Inv, TableOK, Congruent
<1>3. Quiet => table.segments = 0 .. segment_index_of(table.my_mask)
  <2> SUFFICES ASSUME Quiet PROVE table.segments = 0 .. segment_index_of(table.my_mask)
    OBVIOUS
  <2>1. PICK j \in Nat : Grown(j) /\ table.my_mask = MaskOf(j) /\ table.segments = 0 .. j
    BY QuietFacts DEF AllInUse
  <2> QED BY <2>1, SegmentOfMask DEF Grown
<1> QED BY <1>1, <1>2, <1>3 DEF Asserts

\* The assertions of search_bucket(), acquire(), get_bucket(), rehash_bucket(),
\* clear() and local() hold wherever threads are and whenever a crash comes.
THEOREM AssertsHold ==
    ASSUME UndoneSwapsMatch
    PROVE  Spec => []Asserts
  BY Invariance, InvAsserts, PTL

LEMMA InvAlone == Inv => DefragmentsAlone
<1> SUFFICES ASSUME Inv, NEW t \in Threads, NEW u \in Threads, th[t].pc = "defrag", u # t
             PROVE  /\ acc[u].id \notin th[t].saved
                    /\ th[u].pc \in {"item", "assign", "erase"} => th[u].id \notin th[t].saved
  BY DEF DefragmentsAlone
<1>1. acc[u].id \notin th[t].saved
  BY DEF Inv, NotSaved
<1>2. th[u].pc = "assign" => th[u].id = acc[u].id
  BY DEF Inv, Assigning
<1>3. th[u].pc \in {"item", "erase"} => th[u].id \notin th[t].saved
  BY ItemNotSaved DEF HasItem
<1> QED BY <1>1, <1>2, <1>3

\* defragment() moves what the nodes point to while no other thread has an
\* accessor for one of them or is about to change it, or to get one.
THEOREM DefragmentIsAlone ==
    ASSUME UndoneSwapsMatch
    PROVE  Spec => []DefragmentsAlone
  BY Invariance, InvAlone, PTL

\* No two threads have a bucket locked unless both only read it, whichever
\* way acquire(), rehash_bucket() and the calls interleave.
THEOREM LocksExclude ==
    ASSUME UndoneSwapsMatch
    PROVE  Spec => []Exclusive
<1>1. Inv => Exclusive
  BY DEF Inv
<1> QED BY <1>1, Invariance, PTL

\* No node is in two lists, and each is in the list of a bucket that its hash
\* code leads to, while rehash_bucket() moves nodes, at any crash and after.
THEOREM NodesInPlace ==
    ASSUME UndoneSwapsMatch
    PROVE  Spec => [](OneHome(table) /\ Congruent(table))
<1>1. Inv => OneHome(table) /\ Congruent(table)
  BY DEF Inv, TableOK
<1> QED BY <1>1, Invariance, PTL
=============================================================================

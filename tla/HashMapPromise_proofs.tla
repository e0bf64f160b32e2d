------------------------ MODULE HashMapPromise_proofs ------------------------
(***************************************************************************)
(* concurrent_hash_map keeps its promise: whichever way the steps of the   *)
(* calls interleave, each call takes effect at one of them, for any number *)
(* of threads, keys, buckets and calls, with crashes anywhere.             *)
(*                                                                         *)
(* The argument is about where a key can be.  The buckets that some mask   *)
(* leads to for a key are a chain, each the parent of the next.  An        *)
(* element is in the last of them that was reached by rehash_bucket()      *)
(* (Placed).  A thread that finds nothing in its bucket and sees no mask   *)
(* race knows that no later bucket of the chain was reached, and none will *)
(* be while it has that bucket locked (Absent).  So nobody inserts a key   *)
(* that is there, and nobody misses one.                                   *)
(***************************************************************************)
EXTENDS ConcurrentHashMap_proofs

-----------------------------------------------------------------------------
(* What the threads know of the places of the keys *)

\* The bucket that a call goes to is the one that the mask it read leads to.
Seeking == Descending \cup Rehashing \cup {"search"}
MaskOK(r, tab) ==
    r.pc \in Seeking =>
        /\ \E j \in 0 .. (number_of_segments - 1) : r.m = MaskOf(j)
        /\ r.m <= tab.my_mask
        /\ r.call.op # "defragment" => Head(r.path) = Masked(hasher[r.call.key], r.m)

\* The key of a call that is about to insert is nowhere.
Adding(r) == r.pc = "insert" \/ (r.pc \in {"local", "cache"} /\ r.call.op # "erase")
Fresh(r, tab) == Adding(r) => Absent(tab, Head(r.path), r.call.key)

\* The nodes of the bucket that is being filled have been taken from its parent.
Taken(r, tab) ==
    r.pc = "mark" =>
        \A n \in tab.node_list[Parent(TopOf(r))] : ~OfChain(hasher[n.key], TopOf(r))

\* The buckets that wait for their parent, and the one that is to be filled, were
\* not reached before.
Filling(r, tab) ==
    /\ r.pc \in InTable => \A i \in 1 .. (Len(r.path) - 1) : ~Reached(tab, r.path[i])
    /\ r.pc = "move" => ~Reached(tab, TopOf(r))

\* The node that a call works on has the key of the call.
ItemKey(r, tab) ==
    HasItem(r) => \E n \in tab.node_list[Head(r.path)] : n.id = r.id /\ n.key = r.call.key

\* What a call was asked for, and whether it has taken effect.
Asked(call) ==
    /\ call.op = "count" => call.mode = "none"
    /\ call.op = "find" => call.mode \in {"read", "write"}
    /\ call.op = "insert_or_assign" => call.mode = "write"
    /\ call.op \in {"erase", "defragment", "none"} => call.mode = "none"
AnswerOK(r) ==
    /\ r.pc = "idle" => r.call.ret # "pending"
    /\ r.pc \in Seeking \cup {"local", "cache", "insert", "erase", "defrag", "assign"} => r.call.ret = "pending"
    /\ r.pc \in {"count", "uncount", "grow", "enable", "publish"} => r.call.ret = "true"
    /\ r.pc = "item" => \/ r.call.ret = "pending"
                        \/ r.call.ret = "true" /\ r.call.op \in {"insert", "insert_or_assign"}
    /\ r.pc = "item" => r.call.op = "erase" \/ r.call.mode # "none"
    /\ r.pc \in {"grow", "enable", "publish"} => r.call.op \in {"insert", "insert_or_assign"}
    /\ r.pc = "defrag" => r.call.op = "defragment"

CallerOK(r, tab) ==
    /\ Asked(r.call) /\ AnswerOK(r)
    /\ MaskOK(r, tab) /\ Fresh(r, tab) /\ Taken(r, tab) /\ Filling(r, tab) /\ ItemKey(r, tab)

\* A bucket that is reached, and not marked, or its parent is not: it is about to
\* be marked, or all calls that are under way began when it was in use.
Orphan(tab, b) ==
    b >= 2 /\ Reached(tab, b) /\ (b \notin tab.rehashed \/ Parent(b) \notin tab.rehashed)
Marking ==
    \A b \in Buckets :
        Orphan(table, b) =>
            \/ \E t \in Threads : th[t].pc = "mark" /\ TopOf(th[t]) = b
            \/ \A t \in Threads : th[t].pc \in Seeking => b <= th[t].m

\* An accessor is for a node of the key that its call was about.
HoldsItem(a, r, tab) ==
    /\ a.mode = r.call.mode /\ a.mode # "none"
    /\ r.call.op \in {"find", "insert", "insert_or_assign"}
    /\ r.call.op = "insert_or_assign" => r.pc # "idle"
    /\ \E n \in NodesIn(tab) : n.id = a.id /\ n.key = r.call.key
AccessorOK(a, r, tab) ==
    /\ a # NoAccessor => HoldsItem(a, r, tab)
    /\ r.pc \in InTable \cup {"defrag"} => a = NoAccessor
    /\ r.pc = "assign" => a # NoAccessor
AccessorsOK == \A t \in Threads : AccessorOK(acc[t], th[t], table)

\* A node has one accessor, unless they are for reading.
Accessed ==
    \A t, u \in Threads :
        t # u /\ acc[t].id = acc[u].id /\ acc[t] # NoAccessor => Compatible(acc[t].mode, acc[u].mode)

\* Nobody has an accessor for a node that was inserted by a call that is still at
\* it, or is being erased.
Owns(r) ==
    \/ r.pc \in {"count", "erase"}
    \/ r.pc = "item" /\ r.call.ret = "true"
    \/ r.pc \in {"local", "cache"} /\ r.call.op = "erase"
Owned == \A t, u \in Threads : Owns(th[t]) => acc[u].id # th[t].id

CallersOK == \A t \in Threads : CallerOK(th[t], table)

\* The size that all threads see is changed a step after the lists.
ThreadsAt(pc) == {t \in Threads : th[t].pc = pc}
Uncounted == Cardinality(ThreadsAt("count")) - Cardinality(ThreadsAt("uncount"))
SizesOK ==
    /\ Sized(table) /\ Exact(other) /\ other.consistent
    /\ up => table.consistent
    /\ table.consistent => Counted(table)
    /\ up => table.my_size + Uncounted = Cardinality(NodesIn(table))

Promise ==
    /\ Inv
    /\ Placed(table) /\ Placed(other)
    /\ CallersOK /\ Marking
    /\ AccessorsOK /\ Accessed /\ Owned
    /\ SizesOK

-----------------------------------------------------------------------------
(* What a step of one thread leaves to the others *)

SameKeys(S, T) ==
    /\ \A n \in S : \E m \in T : m.id = n.id /\ m.key = n.key
    /\ \A n \in T : \E m \in S : m.id = n.id /\ m.key = n.key

\* Lists change only in buckets that are locked; the only key that is new is the
\* one that is inserted, the only node that is gone the one that is erased; and a
\* bucket is reached from its parent, with both locked.
Evolves(tab, new, ws, added, gone) ==
    /\ tab.my_mask <= new.my_mask
    /\ tab.rehashed \subseteq new.rehashed
    /\ \A b \in Buckets \ ws : SameKeys(tab.node_list[b], new.node_list[b])
    /\ \A n \in NodesIn(new) : n.key \in added \/ \E m \in NodesIn(tab) : m.key = n.key
    /\ \A n \in NodesIn(tab) : n.id \in gone \/ \E m \in NodesIn(new) : m.id = n.id /\ m.key = n.key
    /\ \A c \in Buckets :
        Reached(new, c) /\ ~Reached(tab, c) =>
            c >= 2 /\ c \in ws /\ Parent(c) \in ws /\ Parent(c) \in tab.rehashed

Added(r) == IF r.pc = "insert" THEN {r.call.key} ELSE {}
Gone(r) == IF r.pc = "erase" THEN {r.id} ELSE {}

LEMMA SameKeysSame ==
    ASSUME NEW S
    PROVE  SameKeys(S, S)
BY DEF SameKeys

LEMMA EvolvesSame ==
    ASSUME NEW tab, NEW new, NEW ws, NEW added, NEW gone,
           tab.my_mask <= new.my_mask, new.rehashed = tab.rehashed, new.node_list = tab.node_list
    PROVE  Evolves(tab, new, ws, added, gone)
<1>1. NodesIn(new) = NodesIn(tab)
  BY DEF NodesIn
<1>2. \A c \in Buckets : Reached(new, c) <=> Reached(tab, c)
  BY DEF Reached
<1>3. \A b \in Buckets \ ws : SameKeys(tab.node_list[b], new.node_list[b])
  BY SameKeysSame
<1> QED BY <1>1, <1>2, <1>3 DEF Evolves

\* What a thread in a call knows of its bucket.
LEMMA AddingFacts ==
    ASSUME Promise, NEW t \in Threads, Adding(th[t])
    PROVE  /\ Head(th[t].path) \in Buckets /\ Writes(th[t], Head(th[t].path))
           /\ Head(th[t].path) \in table.rehashed
           /\ th[t].call.key \in Keys /\ hasher[th[t].call.key] \in Nat
           /\ OfChain(hasher[th[t].call.key], Head(th[t].path))
           /\ Absent(table, Head(th[t].path), th[t].call.key)
<1>1. /\ th[t].pc \in Working /\ th[t].pc \in InTable
      /\ th[t].call.op \in {"insert", "insert_or_assign"}
  <2>1. th[t].pc \in {"insert", "local", "cache"}
    BY DEF Adding
  <2>2. CallOK(th[t])
    BY DEF Promise, Inv, ThreadsOK, ThreadOK
  <2> QED BY <2>1, <2>2 DEF Adding, CallOK, Working, Changing, InTable
<1>2. ThreadOK(t, th[t], table)
  BY DEF Promise, Inv, ThreadsOK
<1>3. Head(th[t].path) = TopOf(th[t]) /\ Head(th[t].path) \in Buckets /\ Head(th[t].path) \in table.rehashed
  BY <1>1, <1>2, WorkingBucket
<1>4. LocksHeld(th[t]) /\ KeyedOK(th[t])
  BY <1>1, <1>2 DEF ThreadOK
<1>5. th[t].call.key \in Keys /\ OfChain(hasher[th[t].call.key], Head(th[t].path))
  BY <1>1, <1>4 DEF KeyedOK, OfChain
<1>6. Absent(table, Head(th[t].path), th[t].call.key)
  BY DEF Promise, CallersOK, CallerOK, Fresh
<1>7. Writes(th[t], Head(th[t].path))
  BY <1>1, <1>3, <1>4 DEF LocksHeld
<1> QED BY <1>3, <1>5, <1>6, <1>7, HashAssumption

\* What a thread in its bucket knows of the node it is about.
LEMMA ItemFacts ==
    ASSUME Promise, NEW t \in Threads, HasItem(th[t])
    PROVE  /\ Head(th[t].path) \in Buckets /\ th[t].pc \in Working
           /\ \E l \in th[t].locks : l[1] = Head(th[t].path)
           /\ th[t].call.op \notin {"count", "find"} => Writes(th[t], Head(th[t].path))
           /\ \E n \in table.node_list[Head(th[t].path)] : n.id = th[t].id /\ n.key = th[t].call.key
<1>1. th[t].pc \in Working /\ th[t].pc \in InTable
  BY DEF HasItem, Working, Changing, InTable
<1>2. ThreadOK(t, th[t], table)
  BY DEF Promise, Inv, ThreadsOK
<1>3. Head(th[t].path) = TopOf(th[t]) /\ Head(th[t].path) \in Buckets
      /\ \E l \in th[t].locks : l[1] = Head(th[t].path)
  BY <1>1, <1>2, WorkingBucket
<1>4. LocksHeld(th[t])
  BY <1>1, <1>2 DEF ThreadOK
<1>5. ItemKey(th[t], table)
  BY DEF Promise, CallersOK, CallerOK
<1> QED BY <1>1, <1>3, <1>4, <1>5 DEF LocksHeld, ItemKey

\* A bucket that a thread has locked for writing is none that another has locked.
LEMMA OthersBucket ==
    ASSUME Inv, NEW t \in Threads, NEW u \in Threads, u # t, NEW l \in th[u].locks
    PROVE  l[1] \notin Written(t)
BY NotWritten DEF Written

LEMMA OthersFresh ==
    ASSUME Promise, NEW t \in Threads, NEW u \in Threads, u # t,
           NEW new, Evolves(table, new, Written(t), Added(th[t]), Gone(th[t]))
    PROVE  Fresh(th[u], new)
<1> DEFINE r == th[u]
<1> DEFINE b == Head(r.path)
<1> DEFINE k == r.call.key
<1>1. SUFFICES ASSUME Adding(r) PROVE Absent(new, b, k)
  BY DEF Fresh
<1>2. /\ b \in Buckets /\ Writes(r, b) /\ b \in table.rehashed /\ k \in Keys /\ hasher[k] \in Nat
      /\ OfChain(hasher[k], b) /\ Absent(table, b, k)
  BY <1>1, AddingFacts
<1>3. b \notin Written(t)
  <2>1. <<b, "write">> \in r.locks /\ <<b, "write">>[1] = b
    BY <1>2 DEF Writes
  <2> QED BY <2>1, OthersBucket DEF Promise
<1> HIDE DEF r, b, k
<1>4. ASSUME NEW n \in NodesIn(new), n.key = k PROVE FALSE
  <2>1. CASE \E m \in NodesIn(table) : m.key = n.key
    BY <2>1, <1>2, <1>4 DEF Absent
  <2>2. CASE n.key \in Added(th[t])
    <3> DEFINE c == Head(th[t].path)
    <3>1. th[t].pc = "insert" /\ th[t].call.key = k
      BY <2>2, <1>4 DEF Added
    <3>2. /\ c \in Buckets /\ Writes(th[t], c) /\ c \in table.rehashed
          /\ OfChain(hasher[k], c) /\ Absent(table, c, k)
      BY <3>1, AddingFacts DEF Adding
    <3> HIDE DEF c
    <3>3. c # b
      BY <3>2, <1>2, <1>3 DEF Written
    <3>4. ~(b < c) /\ ~(c < b)
      BY <3>2, <1>2 DEF Absent, Reached
    <3> QED BY <3>2, <3>3, <3>4, <1>2, BucketsAreNumbers
  <2> QED BY <2>1, <2>2, <1>4 DEF Evolves
<1>5. ASSUME NEW c \in Buckets, OfChain(hasher[k], c), b < c, Reached(new, c) PROVE FALSE
  <2>1. ~Reached(table, c)
    BY <1>2, <1>5 DEF Absent
  <2>2. c >= 2 /\ Parent(c) \in Written(t) /\ Parent(c) \in table.rehashed
    BY <2>1, <1>5 DEF Evolves
  <2>3. b <= Parent(c) /\ Parent(c) \in Buckets /\ OfChain(hasher[k], Parent(c))
    BY <1>2, <1>5, <2>2, ChainOrder, ParentOfChain, ParentFacts
  <2>4. Parent(c) # b
    BY <1>3, <2>2
  <2>5. b < Parent(c)
    <3>1. b \in Nat /\ Parent(c) \in Nat
      BY <1>2, <2>3, BucketsAreNumbers
    <3> QED BY <3>1, <2>3, <2>4
  <2> QED BY <1>2, <2>2, <2>3, <2>5 DEF Absent, Reached
<1> QED BY <1>4, <1>5 DEF Absent

LEMMA OthersKept ==
    ASSUME Promise, NEW t \in Threads, NEW u \in Threads, u # t,
           NEW new, TableOK(new), Evolves(table, new, Written(t), Added(th[t]), Gone(th[t]))
    PROVE  CallerOK(th[u], new)
<1> DEFINE r == th[u]
<1>1. CallerOK(r, table) /\ ThreadOK(u, r, table) /\ TableOK(table) /\ Inv
  BY DEF Promise, CallersOK, Inv, ThreadsOK
<1>2. \A l \in r.locks : l[1] \notin Written(t)
  BY <1>1, OthersBucket
<1>3. \A b \in Buckets : Writes(r, b) => b \notin Written(t)
  <2>1. SUFFICES ASSUME NEW b \in Buckets, Writes(r, b) PROVE b \notin Written(t)
    OBVIOUS
  <2>2. <<b, "write">> \in r.locks /\ <<b, "write">>[1] = b
    BY <2>1 DEF Writes
  <2> QED BY <2>2, <1>2
<1> HIDE DEF r
<1>4. MaskOK(r, new)
  <2>1. SUFFICES ASSUME r.pc \in Seeking PROVE r.m <= new.my_mask
    BY <1>1 DEF CallerOK, MaskOK
  <2>2. r.m <= table.my_mask /\ table.my_mask <= new.my_mask
    BY <2>1, <1>1 DEF CallerOK, MaskOK, Evolves
  <2>3. r.m \in Nat /\ table.my_mask \in Nat /\ new.my_mask \in Nat
    BY <1>1, TableFacts DEF ThreadOK, ThreadType
  <2> QED BY <2>2, <2>3
<1>5. Fresh(r, new)
  BY OthersFresh DEF r
<1>6. ASSUME NEW b \in Buckets, Writes(r, b)
      PROVE  SameKeys(table.node_list[b], new.node_list[b]) /\ (Reached(new, b) => Reached(table, b))
  BY <1>3, <1>6 DEF Evolves
<1>7. Taken(r, new)
  <2>1. SUFFICES ASSUME r.pc = "mark", NEW n \in new.node_list[Parent(TopOf(r))]
                 PROVE  ~OfChain(hasher[n.key], TopOf(r))
    BY DEF Taken
  <2>2. r.pc \in InTable /\ r.pc \in Rehashing
    BY <2>1 DEF InTable, Rehashing
  <2>3. TopOf(r) \in Buckets
    BY <1>1, <2>2, PathFacts
  <2>4. Writes(r, Parent(TopOf(r))) /\ TopOf(r) >= 2
    BY <1>1, <2>1, <2>2 DEF ThreadOK, LocksHeld
  <2>5. Parent(TopOf(r)) \in Buckets
    BY <2>3, <2>4, ParentFacts
  <2>6. \E m \in table.node_list[Parent(TopOf(r))] : m.key = n.key
    BY <2>1, <2>4, <2>5, <1>6 DEF SameKeys
  <2> QED BY <2>1, <2>6, <1>1 DEF CallerOK, Taken
<1>8. Filling(r, new)
  <2>1. ASSUME r.pc \in InTable, NEW i \in 1 .. (Len(r.path) - 1) PROVE ~Reached(new, r.path[i])
    <3>1. Writes(r, r.path[i])
      BY <1>1, <2>1 DEF ThreadOK, LocksHeld
    <3>2. r.path[i] \in Buckets
      <4>1. Len(r.path) \in Nat /\ \A k \in 1 .. Len(r.path) : r.path[k] \in Buckets
        BY <1>1, <2>1, PathFacts
      <4> QED BY <4>1
    <3>3. ~Reached(table, r.path[i])
      BY <1>1, <2>1 DEF CallerOK, Filling
    <3> QED BY <3>1, <3>2, <3>3, <1>6
  <2>2. ASSUME r.pc = "move" PROVE ~Reached(new, TopOf(r))
    <3>1. r.pc \in InTable /\ r.pc \in Rehashing
      BY <2>2 DEF InTable, Rehashing
    <3>2. Writes(r, TopOf(r)) /\ TopOf(r) \in Buckets
      BY <1>1, <3>1, PathFacts DEF ThreadOK, LocksHeld
    <3> QED BY <1>1, <1>6, <2>2, <3>2 DEF CallerOK, Filling
  <2> QED BY <2>1, <2>2 DEF Filling
<1>9. ItemKey(r, new)
  <2>1. SUFFICES ASSUME HasItem(r)
                 PROVE  \E n \in new.node_list[Head(r.path)] : n.id = r.id /\ n.key = r.call.key
    BY DEF ItemKey
  <2>2. /\ Head(r.path) \in Buckets /\ \E l \in r.locks : l[1] = Head(r.path)
        /\ \E n \in table.node_list[Head(r.path)] : n.id = r.id /\ n.key = r.call.key
    BY <2>1, ItemFacts DEF r
  <2>3. SameKeys(table.node_list[Head(r.path)], new.node_list[Head(r.path)])
    BY <1>2, <2>2 DEF Evolves
  <2>4. PICK n \in table.node_list[Head(r.path)] : n.id = r.id /\ n.key = r.call.key
    BY <2>2
  <2>5. PICK m \in new.node_list[Head(r.path)] : m.id = n.id /\ m.key = n.key
    BY <2>3, <2>4 DEF SameKeys
  <2> QED BY <2>4, <2>5
<1>10. Asked(r.call) /\ AnswerOK(r)
  BY <1>1 DEF CallerOK
<1> QED BY <1>4, <1>5, <1>7, <1>8, <1>9, <1>10 DEF CallerOK, r

LEMMA CallersStep ==
    ASSUME Promise, NEW t \in Threads, NEW r, th' = [th EXCEPT ![t] = r], TableOK(table'),
           Evolves(table, table', Written(t), Added(th[t]), Gone(th[t])),
           CallerOK(r, table')
    PROVE  CallersOK'
<1>1. \A w \in Threads : th'[w] = IF w = t THEN r ELSE th[w]
  BY DEF Promise, Inv
<1>2. SUFFICES ASSUME NEW w \in Threads PROVE CallerOK(th'[w], table')
  BY DEF CallersOK
<1> QED BY <1>1, OthersKept

LEMMA MarkingStep ==
    ASSUME Promise, NEW t \in Threads, NEW r, th' = [th EXCEPT ![t] = r],
           TableOK(table'), Placed(table'),
           Evolves(table, table', Written(t), Added(th[t]), Gone(th[t])),
           th[t].pc = "mark" => TopOf(th[t]) \in (table').rehashed,
           \A c \in Buckets : Reached(table', c) /\ ~Reached(table, c) =>
                c \in (table').rehashed \/ (r.pc = "mark" /\ TopOf(r) = c),
           r.pc \in Seeking => r.m = (table').my_mask \/ (th[t].pc \in Seeking /\ r.m = th[t].m)
    PROVE  Marking'
<1>1. \A w \in Threads : th'[w] = IF w = t THEN r ELSE th[w]
  BY DEF Promise, Inv
<1>2. SUFFICES ASSUME NEW b \in Buckets, Orphan(table', b)
               PROVE  \/ \E w \in Threads : th'[w].pc = "mark" /\ TopOf(th'[w]) = b
                      \/ \A w \in Threads : th'[w].pc \in Seeking => b <= th'[w].m
  BY DEF Marking
<1>3. table.rehashed \subseteq (table').rehashed
  BY DEF Evolves
<1>4. CASE ~Reached(table, b)
  <2>1. Parent(b) \in (table').rehashed /\ Reached(table', b)
    BY <1>2, <1>3, <1>4 DEF Orphan, Evolves
  <2>2. b \notin (table').rehashed
    BY <1>2, <2>1 DEF Orphan
  <2>3. r.pc = "mark" /\ TopOf(r) = b
    BY <1>4, <2>1, <2>2
  <2> QED BY <2>3, <1>1
<1>5. CASE Reached(table, b)
  <2>1. Orphan(table, b)
    BY <1>2, <1>3, <1>5 DEF Orphan
  <2>2. ASSUME NEW w \in Threads, th[w].pc = "mark", TopOf(th[w]) = b, w = t PROVE FALSE
    <3>1. ThreadOK(t, th[t], table) /\ th[t].pc \in InTable /\ th[t].pc \in Rehashing
      BY <2>2 DEF Promise, Inv, ThreadsOK, InTable, Rehashing
    <3>2. Writes(th[t], Parent(b)) /\ b >= 2
      BY <3>1, <2>2 DEF ThreadOK, LocksHeld
    <3>3. Parent(b) \in table.rehashed
      <4>1. <<Parent(b), "write">> \in th[t].locks /\ <<Parent(b), "write">>[1] = Parent(b)
        BY <3>2 DEF Writes
      <4>2. SUFFICES ASSUME NEW i \in 1 .. Len(th[t].path), th[t].path[i] = Parent(b) PROVE FALSE
        BY <3>1, <4>1 DEF ThreadOK, LocksExplained
      <4>3. TopOf(th[t]) <= th[t].path[i]
        BY <3>1, PathFacts
      <4>4. Parent(b) < b /\ Parent(b) \in Nat /\ b \in Nat
        BY <3>2, ParentFacts, BucketsAreNumbers
      <4> QED BY <4>2, <4>3, <4>4, <2>2
    <3>4. b \in (table').rehashed
      BY <2>2
    <3> QED BY <3>3, <3>4, <1>2, <1>3 DEF Orphan
  <2>3. CASE \E w \in Threads : th[w].pc = "mark" /\ TopOf(th[w]) = b
    BY <2>2, <2>3, <1>1
  <2>4. CASE \A w \in Threads : th[w].pc \in Seeking => b <= th[w].m
    <3>1. b <= (table').my_mask
      BY <1>2 DEF Placed, InRange, Orphan
    <3> QED BY <2>4, <3>1, <1>1
  <2> QED BY <2>1, <2>3, <2>4 DEF Promise, Marking
<1> QED BY <1>4, <1>5

\* The owner of a node that nobody may have an accessor for.
LEMMA OwnsFacts ==
    ASSUME Promise, NEW t \in Threads, Owns(th[t])
    PROVE  HasItem(th[t]) /\ th[t].call.op \notin {"count", "find"}
<1>1. HasItem(th[t])
  BY DEF Owns, HasItem
<1>2. CallOK(th[t]) /\ AnswerOK(th[t])
  BY DEF Promise, CallersOK, CallerOK, Inv, ThreadsOK, ThreadOK
<1> QED BY <1>1, <1>2 DEF Owns, CallOK, AnswerOK

LEMMA ItemIds ==
    ASSUME Promise, NEW t \in Threads, HasItem(th[t])
    PROVE  th[t].id \in NodeIds /\ th[t].id # None
<1>1. TableOK(table) /\ Head(th[t].path) \in Buckets
      /\ \E n \in table.node_list[Head(th[t].path)] : n.id = th[t].id
  BY ItemFacts DEF Promise, Inv
<1> QED BY <1>1, NodeFacts, NodeIdAssumption

LEMMA HeldIds ==
    ASSUME Promise, NEW t \in Threads, acc[t] # NoAccessor
    PROVE  /\ acc[t].id \in NodeIds /\ acc[t].id # None
           /\ \E n \in NodesIn(table) : n.id = acc[t].id /\ n.key = th[t].call.key
<1>1. HoldsItem(acc[t], th[t], table)
  BY DEF Promise, AccessorsOK, AccessorOK
<1>2. PICK n \in NodesIn(table) : n.id = acc[t].id /\ n.key = th[t].call.key
  BY <1>1 DEF HoldsItem
<1>3. n.id \in NodeIds
  BY <1>2, InBucket, NodeFacts DEF Promise, Inv
<1> QED BY <1>2, <1>3, NodeIdAssumption

\* Two threads do not work on the same node, unless both only read.
LEMMA OneWorker ==
    ASSUME Promise, NEW t \in Threads, NEW u \in Threads, u # t, HasItem(th[t]), HasItem(th[u]),
           th[t].id = th[u].id, th[u].call.op \notin {"count", "find"}
    PROVE  FALSE
<1> DEFINE b == Head(th[t].path)
<1> DEFINE c == Head(th[u].path)
<1>1. b \in Buckets /\ (\E n \in table.node_list[b] : n.id = th[t].id) /\ \E l \in th[t].locks : l[1] = b
  BY ItemFacts
<1>2. c \in Buckets /\ (\E n \in table.node_list[c] : n.id = th[u].id) /\ Writes(th[u], c)
  BY ItemFacts
<1> HIDE DEF b, c
<1>3. b = c
  BY <1>1, <1>2 DEF Promise, Inv, TableOK, OneHome
<1> QED BY <1>1, <1>2, <1>3, NotWritten DEF Promise

LEMMA AccessorsStep ==
    ASSUME Promise, NEW t \in Threads, NEW r, th' = [th EXCEPT ![t] = r],
           NEW a, acc' = [acc EXCEPT ![t] = a],
           Evolves(table, table', Written(t), Added(th[t]), Gone(th[t])),
           AccessorOK(a, r, table'),
           a # NoAccessor => \/ a = acc[t]
                             \/ HasItem(th[t]) /\ a.id = th[t].id /\ ItemFree(a.id, a.mode),
           Owns(r) => \/ Owns(th[t]) /\ r.id = th[t].id /\ a = acc[t]
                      \/ r.id # a.id /\ \A u \in Threads : acc[u].id # r.id
    PROVE  AccessorsOK' /\ Accessed' /\ Owned'
<1>1. /\ \A w \in Threads : th'[w] = IF w = t THEN r ELSE th[w]
      /\ \A w \in Threads : acc'[w] = IF w = t THEN a ELSE acc[w]
  BY DEF Promise, Inv
<1>2. AccessorsOK'
  <2>1. SUFFICES ASSUME NEW u \in Threads, u # t PROVE AccessorOK(acc[u], th[u], table')
    BY <1>1 DEF AccessorsOK
  <2>2. AccessorOK(acc[u], th[u], table)
    BY DEF Promise, AccessorsOK
  <2>3. SUFFICES ASSUME acc[u] # NoAccessor
                 PROVE  \E n \in NodesIn(table') : n.id = acc[u].id /\ n.key = th[u].call.key
    BY <2>2 DEF AccessorOK, HoldsItem
  <2>4. PICK n \in NodesIn(table) : n.id = acc[u].id /\ n.key = th[u].call.key
    BY <2>3, HeldIds
  <2>5. n.id \notin Gone(th[t])
    <3>1. SUFFICES ASSUME th[t].pc = "erase", n.id = th[t].id PROVE FALSE
      BY DEF Gone
    <3>2. Owns(th[t])
      BY <3>1 DEF Owns
    <3> QED BY <3>1, <3>2, <2>4 DEF Promise, Owned
  <2> QED BY <2>4, <2>5 DEF Evolves
<1>3. Accessed'
  <2>1. SUFFICES ASSUME NEW u \in Threads, NEW v \in Threads, u # v, acc'[u].id = acc'[v].id,
                        acc'[u] # NoAccessor
                 PROVE  Compatible(acc'[u].mode, acc'[v].mode)
    BY DEF Accessed
  <2>2. CASE u # t /\ v # t
    BY <1>1, <2>1, <2>2 DEF Promise, Accessed
  <2>3. CASE u = t
    <3>1. CASE a = acc[t]
      BY <1>1, <2>1, <2>3, <3>1 DEF Promise, Accessed
    <3>2. CASE ItemFree(a.id, a.mode)
      BY <1>1, <2>1, <2>3, <3>2 DEF ItemFree, Compatible
    <3> QED BY <3>1, <3>2, <1>1, <2>1, <2>3
  <2>4. CASE v = t
    <3>1. CASE a = acc[t]
      BY <1>1, <2>1, <2>4, <3>1 DEF Promise, Accessed
    <3>2. CASE ItemFree(a.id, a.mode)
      BY <1>1, <2>1, <2>4, <3>2 DEF ItemFree, Compatible
    <3>3. CASE a = NoAccessor
      BY <3>3, <1>1, <2>1, <2>4, HeldIds DEF NoAccessor
    <3> QED BY <3>1, <3>2, <3>3
  <2> QED BY <2>2, <2>3, <2>4
<1>4. Owned'
  <2>1. SUFFICES ASSUME NEW u \in Threads, NEW v \in Threads, Owns(th'[u])
                 PROVE  acc'[v].id # th'[u].id
    BY DEF Owned
  <2>2. CASE u = t
    <3>1. CASE Owns(th[t]) /\ r.id = th[t].id /\ a = acc[t]
      BY <1>1, <2>1, <2>2, <3>1 DEF Promise, Owned
    <3>2. CASE r.id # a.id /\ \A w \in Threads : acc[w].id # r.id
      BY <1>1, <2>2, <3>2
    <3> QED BY <3>1, <3>2, <1>1, <2>1, <2>2
  <2>3. CASE u # t /\ v # t
    BY <1>1, <2>1, <2>3 DEF Promise, Owned
  <2>4. CASE u # t /\ v = t
    <3>1. Owns(th[u]) /\ HasItem(th[u]) /\ th[u].call.op \notin {"count", "find"}
      BY <1>1, <2>1, <2>4, OwnsFacts
    <3>2. CASE a = acc[t]
      BY <1>1, <2>4, <3>1, <3>2 DEF Promise, Owned
    <3>3. CASE a = NoAccessor
      BY <1>1, <2>4, <3>1, <3>3, ItemIds DEF NoAccessor
    <3>4. CASE HasItem(th[t]) /\ a.id = th[t].id
      BY <1>1, <2>4, <3>1, <3>4, OneWorker
    <3> QED BY <3>2, <3>3, <3>4
  <2> QED BY <2>2, <2>3, <2>4
<1> QED BY <1>2, <1>3, <1>4

\* What a thread has to count yet.
Signed(r) == IF r.pc = "count" THEN 1 ELSE IF r.pc = "uncount" THEN -1 ELSE 0

LEMMA UncountedStep ==
    ASSUME Inv, NEW t \in Threads, NEW r, th' = [th EXCEPT ![t] = r]
    PROVE  Uncounted \in Int /\ Uncounted' = Uncounted + Signed(r) - Signed(th[t])
<1> DEFINE S(pc) == {w \in Threads : th[w].pc = pc}
<1> DEFINE T(pc) == {w \in Threads : th'[w].pc = pc}
<1>1. \A w \in Threads : th'[w] = IF w = t THEN r ELSE th[w]
  BY DEF Inv
<1>2. ASSUME NEW pc
      PROVE  /\ Cardinality(S(pc)) \in Nat /\ Cardinality(T(pc)) \in Nat
             /\ Cardinality(T(pc)) + (IF th[t].pc = pc THEN 1 ELSE 0)
                  = Cardinality(S(pc)) + (IF r.pc = pc THEN 1 ELSE 0)
  <2> DEFINE rest == S(pc) \ {t}
  <2>1. IsFiniteSet(Threads) /\ S(pc) \subseteq Threads
    BY ThreadAssumption
  <2>2. IsFiniteSet(S(pc)) /\ IsFiniteSet(rest)
    BY <2>1, FS_Subset
  <2>3. (th[t].pc = pc => S(pc) = rest \cup {t}) /\ (th[t].pc # pc => S(pc) = rest)
    OBVIOUS
  <2>4. (r.pc = pc => T(pc) = rest \cup {t}) /\ (r.pc # pc => T(pc) = rest)
    BY <1>1
  <2>5. t \notin rest
    OBVIOUS
  <2> HIDE DEF rest, S, T
  <2>6. Cardinality(rest \cup {t}) = Cardinality(rest) + 1 /\ Cardinality(rest) \in Nat
    BY <2>2, <2>5, FS_AddElement, FS_CardinalityType
  <2>7. PICK c, d, e : c = Cardinality(S(pc)) /\ d = Cardinality(T(pc)) /\ e = Cardinality(rest)
    OBVIOUS
  <2>8. /\ e \in Nat
        /\ (th[t].pc = pc => c = e + 1) /\ (th[t].pc # pc => c = e)
        /\ (r.pc = pc => d = e + 1) /\ (r.pc # pc => d = e)
    BY <2>3, <2>4, <2>6, <2>7
  <2> QED BY <2>7, <2>8
<1>3. Uncounted' = Cardinality(T("count")) - Cardinality(T("uncount"))
  BY DEF Uncounted, ThreadsAt
<1>4. Uncounted = Cardinality(S("count")) - Cardinality(S("uncount"))
  BY DEF Uncounted, ThreadsAt
<1> HIDE DEF S, T
<1>5. /\ Cardinality(S("count")) \in Nat /\ Cardinality(T("count")) \in Nat
      /\ Cardinality(T("count")) + (IF th[t].pc = "count" THEN 1 ELSE 0)
           = Cardinality(S("count")) + (IF r.pc = "count" THEN 1 ELSE 0)
  BY <1>2
<1>6. /\ Cardinality(S("uncount")) \in Nat /\ Cardinality(T("uncount")) \in Nat
      /\ Cardinality(T("uncount")) + (IF th[t].pc = "uncount" THEN 1 ELSE 0)
           = Cardinality(S("uncount")) + (IF r.pc = "uncount" THEN 1 ELSE 0)
  BY <1>2
<1> QED BY <1>3, <1>4, <1>5, <1>6 DEF Signed

LEMMA SizedNumbers ==
    ASSUME NEW tab, Sized(tab)
    PROVE  tab.my_size \in Int /\ tab.on_init_size \in Int /\ Cardinality(NodesIn(tab)) \in Nat
BY FS_CardinalityType DEF Sized

LEMMA SizesStep ==
    ASSUME Promise, up, NEW t \in Threads, NEW r, th' = [th EXCEPT ![t] = r], UNCHANGED <<other, up>>,
           Sized(table'), Counted(table'), (table').consistent = table.consistent,
           (table').my_size + Signed(r) + Cardinality(NodesIn(table))
                = table.my_size + Signed(th[t]) + Cardinality(NodesIn(table'))
    PROVE  SizesOK'
<1>1. SizesOK /\ Inv
  BY DEF Promise
<1>2. /\ Sized(table) /\ Exact(other) /\ other.consistent /\ table.consistent
      /\ table.my_size + Uncounted = Cardinality(NodesIn(table))
  BY <1>1 DEF SizesOK
<1>3. Uncounted \in Int /\ Uncounted' = Uncounted + Signed(r) - Signed(th[t])
  BY <1>1, UncountedStep
<1>4. (table').my_size + Uncounted' = Cardinality(NodesIn(table'))
  <2>1. /\ (table').my_size \in Int /\ table.my_size \in Int
        /\ Cardinality(NodesIn(table)) \in Nat /\ Cardinality(NodesIn(table')) \in Nat
    BY <1>2, SizedNumbers
  <2>2. Signed(r) \in Int /\ Signed(th[t]) \in Int
    BY DEF Signed
  <2> QED BY <1>2, <1>3, <2>1, <2>2
<1>5. Exact(other)' /\ (other').consistent
  BY <1>2 DEF Exact, Sized, Counted
<1> QED BY <1>2, <1>4, <1>5 DEF SizesOK

\* The table is one that a thread is in.
LEMMA TableCounts ==
    ASSUME Promise, up
    PROVE  Sized(table) /\ Counted(table) /\ table.consistent
BY DEF Promise, SizesOK

\* What is common to the steps that change no size and no accessor.
LEMMA QuietStep ==
    ASSUME Promise, Inv', up, NEW t \in Threads, NEW r, th' = [th EXCEPT ![t] = r],
           UNCHANGED <<acc, other, up>>,
           Placed(table'), Evolves(table, table', Written(t), Added(th[t]), Gone(th[t])),
           Sized(table'), Counted(table'), (table').consistent = table.consistent,
           (table').my_size = table.my_size, Cardinality(NodesIn(table')) = Cardinality(NodesIn(table)),
           Signed(r) = Signed(th[t]),
           CallerOK(r, table'),
           th[t].pc = "mark" => TopOf(th[t]) \in (table').rehashed,
           \A c \in Buckets : Reached(table', c) /\ ~Reached(table, c) =>
                c \in (table').rehashed \/ (r.pc = "mark" /\ TopOf(r) = c),
           r.pc \in Seeking => r.m = (table').my_mask \/ (th[t].pc \in Seeking /\ r.m = th[t].m),
           AccessorOK(acc[t], r, table'),
           Owns(r) => \/ Owns(th[t]) /\ r.id = th[t].id
                      \/ \A u \in Threads : acc[u].id # r.id
    PROVE  Promise'
<1>1. acc' = [acc EXCEPT ![t] = acc[t]]
  BY DEF Promise, Inv
<1>2. TableOK(table')
  BY DEF Inv
<1>3. AccessorsOK' /\ Accessed' /\ Owned'
  BY <1>1, AccessorsStep
<1>4. CallersOK'
  BY <1>2, CallersStep
<1>5. Marking'
  BY <1>2, MarkingStep
<1>6. SizesOK'
  <2>1. (table').my_size + Signed(r) + Cardinality(NodesIn(table))
            = table.my_size + Signed(th[t]) + Cardinality(NodesIn(table'))
    OBVIOUS
  <2> HIDE DEF Signed
  <2> QED BY <2>1, SizesStep
<1>7. Placed(other)'
  BY DEF Promise, Placed, Located, InRange, KeysDiffer, Reached
<1> QED BY <1>3, <1>4, <1>5, <1>6, <1>7 DEF Promise

\* A step that leaves the table alone.
LEMMA TableStays ==
    ASSUME Promise, up, UNCHANGED table, NEW ws, NEW added, NEW gone
    PROVE  /\ Placed(table') /\ Evolves(table, table', ws, added, gone)
           /\ Sized(table') /\ Counted(table') /\ (table').consistent = table.consistent
           /\ (table').my_size = table.my_size /\ (table').my_mask = table.my_mask
           /\ NodesIn(table') = NodesIn(table)
           /\ \A c \in Buckets : ~(Reached(table', c) /\ ~Reached(table, c))
<1>1. table.my_mask \in Nat
  BY TableFacts DEF Promise, Inv
<1>2. table.my_mask <= (table').my_mask
  BY <1>1
<1>3. Evolves(table, table', ws, added, gone)
  BY <1>2, EvolvesSame
<1> QED BY <1>3, TableCounts DEF Promise

LEMMA LocalStep ==
    ASSUME Promise, Inv', up, NEW t \in Threads, NEW r, th' = [th EXCEPT ![t] = r],
           UNCHANGED <<table, acc, other, up>>,
           Signed(r) = Signed(th[t]), CallerOK(r, table), th[t].pc # "mark",
           r.pc \in Seeking => r.m = table.my_mask \/ (th[t].pc \in Seeking /\ r.m = th[t].m),
           AccessorOK(acc[t], r, table),
           Owns(r) => \/ Owns(th[t]) /\ r.id = th[t].id
                      \/ \A u \in Threads : acc[u].id # r.id
    PROVE  Promise'
<1>1. /\ Placed(table') /\ Evolves(table, table', Written(t), Added(th[t]), Gone(th[t]))
      /\ Sized(table') /\ Counted(table') /\ (table').consistent = table.consistent
      /\ (table').my_size = table.my_size /\ (table').my_mask = table.my_mask
      /\ NodesIn(table') = NodesIn(table)
      /\ \A c \in Buckets : ~(Reached(table', c) /\ ~Reached(table, c))
  BY TableStays
<1>2. CallerOK(r, table') /\ AccessorOK(acc[t], r, table')
  OBVIOUS
<1>3. Cardinality(NodesIn(table')) = Cardinality(NodesIn(table))
  BY <1>1
<1> QED BY <1>1, <1>2, <1>3, QuietStep

-----------------------------------------------------------------------------
(* acquire() and rehash_bucket() *)

LEMMA InCall ==
    ASSUME Promise, NEW t \in Threads, th[t].pc \in InTable \cup {"defrag"}
    PROVE  up /\ acc[t] = NoAccessor
<1>1. acc[t] = NoAccessor
  BY DEF Promise, AccessorsOK, AccessorOK
<1>2. th[t].pc # "idle"
  BY DEF InTable, Descending, Rehashing, Working, Changing
<1> QED BY <1>1, <1>2, IsUp DEF Promise

LEMMA PathCaller ==
    ASSUME NEW old, NEW tab, CallerOK(old, tab), old.pc \in Descending \cup Rehashing,
           NEW r, NEW new, r.pc \in Seeking, r.call = old.call, r.m = old.m, Head(r.path) = Head(old.path),
           new.my_mask = tab.my_mask, Taken(r, new), Filling(r, new)
    PROVE  CallerOK(r, new)
<1>1. old.pc \in Seeking /\ ~HasItem(r) /\ ~Adding(r) /\ r.pc \notin {"idle", "item", "grow", "enable", "publish", "defrag", "count", "uncount"}
  BY DEF Seeking, HasItem, Adding, Descending, Rehashing
<1>2. Asked(r.call) /\ AnswerOK(r)
  BY <1>1 DEF CallerOK, AnswerOK
<1>3. MaskOK(r, new)
  BY <1>1 DEF CallerOK, MaskOK
<1>4. Fresh(r, new) /\ ItemKey(r, new)
  BY <1>1 DEF Fresh, ItemKey
<1> QED BY <1>2, <1>3, <1>4 DEF CallerOK

LEMMA PathStep ==
    ASSUME Promise, Inv', NEW t \in Threads, th[t].pc \in Descending \cup Rehashing,
           NEW r, th' = [th EXCEPT ![t] = r], UNCHANGED <<acc, other, up>>,
           r.pc \in Seeking, r.call = th[t].call, r.m = th[t].m, Head(r.path) = Head(th[t].path),
           Placed(table'), Evolves(table, table', Written(t), Added(th[t]), Gone(th[t])),
           SameCounts(table, table'), (table').my_mask = table.my_mask,
           Taken(r, table'), Filling(r, table'),
           th[t].pc = "mark" => TopOf(th[t]) \in (table').rehashed,
           \A c \in Buckets : Reached(table', c) /\ ~Reached(table, c) =>
                c \in (table').rehashed \/ (r.pc = "mark" /\ TopOf(r) = c)
    PROVE  Promise'
<1>1. th[t].pc \in InTable /\ th[t].pc \in Seeking /\ up /\ acc[t] = NoAccessor
  BY InCall DEF InTable, Seeking
<1>2. CallerOK(r, table')
  BY PathCaller DEF Promise, CallersOK
<1>3. AccessorOK(acc[t], r, table')
  BY <1>1 DEF AccessorOK, Seeking, Descending, Rehashing
<1>4. ~Owns(r) /\ Signed(r) = 0 /\ Signed(th[t]) = 0
  BY <1>1 DEF Seeking, Owns, Signed, Descending, Rehashing
<1>5. Sized(table') /\ Counted(table')
  BY <1>1, TableCounts, CountsKept
<1>6. /\ (table').consistent = table.consistent /\ (table').my_size = table.my_size
      /\ Cardinality(NodesIn(table')) = Cardinality(NodesIn(table))
  BY DEF SameCounts
<1> QED BY <1>1, <1>2, <1>3, <1>4, <1>5, <1>6, QuietStep

\* A step that only changes what the thread itself is at.
LEMMA PathOnlyStep ==
    ASSUME Promise, Inv', NEW t \in Threads, th[t].pc \in Descending \cup Rehashing, th[t].pc # "mark",
           NEW r, th' = [th EXCEPT ![t] = r], UNCHANGED <<table, acc, other, up>>,
           r.pc \in Seeking, r.pc # "mark", r.call = th[t].call, r.m = th[t].m,
           Head(r.path) = Head(th[t].path), Filling(r, table)
    PROVE  Promise'
<1>1. up
  BY InCall DEF InTable
<1>2. /\ Placed(table') /\ Evolves(table, table', Written(t), Added(th[t]), Gone(th[t]))
      /\ \A c \in Buckets : ~(Reached(table', c) /\ ~Reached(table, c))
  BY <1>1, TableStays
<1>3. SameCounts(table, table') /\ Taken(r, table') /\ Filling(r, table')
  BY DEF SameCounts, Taken
<1> QED BY <1>2, <1>3, PathStep

\* What is at the end of the path when its last bucket was acquired.
LEMMA AcquiredFields ==
    ASSUME NEW q, ThreadType(q), q.path # <<>>
    PROVE  LET r == Acquired(q)
           IN  /\ r.call = q.call /\ r.m = q.m /\ r.locks = q.locks
               /\ Len(q.path) = 1 => r.pc = "search" /\ r.path = q.path
               /\ Len(q.path) # 1 => /\ r.pc = "move" /\ Len(q.path) > 1
                                     /\ Len(r.path) = Len(q.path) - 1
                                     /\ \A i \in 1 .. (Len(q.path) - 1) : r.path[i] = q.path[i]
                                     /\ TopOf(r) = q.path[Len(q.path) - 1]
               /\ Head(r.path) = Head(q.path) /\ r.pc \in Seeking
<1>1. q.path \in Seq(Buckets) /\ Len(q.path) \in Nat /\ Len(q.path) >= 1
  BY DEF ThreadType
<1>2. CASE Len(q.path) = 1
  <2> DEFINE r == [q EXCEPT !.pc = "search"]
  <2>1. Acquired(q) = r
    BY <1>2 DEF Acquired
  <2>2. r.pc = "search" /\ r.call = q.call /\ r.path = q.path /\ r.m = q.m /\ r.locks = q.locks
    BY DEF ThreadType
  <2> HIDE DEF r
  <2> QED BY <2>1, <2>2, <1>2 DEF Seeking
<1>3. CASE Len(q.path) # 1
  <2>0. Len(q.path) > 1
    <3> DEFINE n == Len(q.path)
    <3>1. n \in Nat /\ n >= 1 /\ n # 1
      BY <1>1, <1>3
    <3> SUFFICES n > 1
      OBVIOUS
    <3> HIDE DEF n
    <3> QED BY <3>1
  <2> DEFINE r == [q EXCEPT !.pc = "move", !.path = Front(@)]
  <2>1. Acquired(q) = r
    BY <1>3 DEF Acquired
  <2>2. r.pc = "move" /\ r.call = q.call /\ r.path = Front(q.path) /\ r.m = q.m /\ r.locks = q.locks
    BY DEF ThreadType
  <2>3. /\ Len(Front(q.path)) = Len(q.path) - 1
        /\ \A i \in 1 .. (Len(q.path) - 1) : Front(q.path)[i] = q.path[i]
        /\ Head(Front(q.path)) = Head(q.path)
    BY <1>1, <2>0 DEF Front
  <2> HIDE DEF r
  <2>4. TopOf(r) = q.path[Len(q.path) - 1]
    <3>1. Len(q.path) - 1 \in 1 .. (Len(q.path) - 1)
      BY <1>1, <2>0
    <3> QED BY <3>1, <2>2, <2>3 DEF TopOf
  <2> QED BY <2>0, <2>1, <2>2, <2>3, <2>4, <1>3 DEF Seeking, Rehashing
<1> QED BY <1>2, <1>3

LEMMA AcquiredFilling ==
    ASSUME NEW q, NEW tab, ThreadType(q), q.path # <<>>,
           \A i \in 1 .. (Len(q.path) - 1) : ~Reached(tab, q.path[i])
    PROVE  Filling(Acquired(q), tab)
<1> DEFINE r == Acquired(q)
<1>1. Len(q.path) \in Nat /\ Len(q.path) >= 1
  BY DEF ThreadType
<1>2. /\ Len(q.path) = 1 => r.pc = "search" /\ r.path = q.path
      /\ Len(q.path) # 1 => /\ r.pc = "move" /\ Len(q.path) > 1
                            /\ Len(r.path) = Len(q.path) - 1
                            /\ \A i \in 1 .. (Len(q.path) - 1) : r.path[i] = q.path[i]
                            /\ TopOf(r) = q.path[Len(q.path) - 1]
  BY AcquiredFields
<1> SUFFICES Filling(r, tab)
  OBVIOUS
<1> HIDE DEF r
<1> DEFINE n == Len(q.path)
<1>0. n \in Nat /\ n >= 1 /\ \A i \in 1 .. (n - 1) : ~Reached(tab, q.path[i])
  BY <1>1
<1>3. CASE n = 1
  <2>1. r.pc = "search" /\ r.path = q.path
    BY <1>2, <1>3
  <2> QED BY <2>1 DEF Filling
<1>4. CASE n # 1
  <2>0. /\ r.pc = "move" /\ Len(r.path) = n - 1 /\ TopOf(r) = q.path[n - 1]
        /\ \A i \in 1 .. (n - 1) : r.path[i] = q.path[i]
    BY <1>2, <1>4
  <2> HIDE DEF n
  <2>1. n - 1 \in 1 .. (n - 1)
    BY <1>0, <1>4
  <2>2. \A i \in 1 .. (Len(r.path) - 1) : i \in 1 .. (n - 1)
    BY <1>0, <2>0, <1>4
  <2>3. \A i \in 1 .. (Len(r.path) - 1) : ~Reached(tab, r.path[i])
    BY <1>0, <2>0, <2>2
  <2> QED BY <1>0, <2>0, <2>1, <2>3 DEF Filling
<1> QED BY <1>3, <1>4

\* Buckets that rehash_bucket() has locked.
LEMMA RehashFacts ==
    ASSUME Promise, NEW t \in Threads, th[t].pc \in {"move", "mark"}
    PROVE  LET b == TopOf(th[t])
           IN  /\ b \in Buckets /\ b >= 2 /\ Parent(b) \in Buckets /\ b <= table.my_mask
               /\ b \in Written(t) /\ Parent(b) \in Written(t) /\ Parent(b) \in table.rehashed
<1> DEFINE b == TopOf(th[t])
<1>1. ThreadOK(t, th[t], table) /\ th[t].pc \in InTable /\ th[t].pc \in Rehashing
  BY DEF Promise, Inv, ThreadsOK, InTable, Rehashing
<1>2. b \in Buckets /\ b >= 2 /\ Writes(th[t], b) /\ Writes(th[t], Parent(b))
  BY <1>1, PathFacts DEF ThreadOK, LocksHeld
<1>3. Parent(b) \in Buckets /\ Parent(b) < b /\ Parent(b) \in Nat /\ b \in Nat
  BY <1>2, ParentFacts, BucketsAreNumbers
<1>4. Parent(b) \in table.rehashed
  <2>1. <<Parent(b), "write">> \in th[t].locks /\ <<Parent(b), "write">>[1] = Parent(b)
    BY <1>2 DEF Writes
  <2>2. SUFFICES ASSUME NEW i \in 1 .. Len(th[t].path), th[t].path[i] = Parent(b) PROVE FALSE
    BY <1>1, <2>1 DEF ThreadOK, LocksExplained
  <2>3. b <= th[t].path[i]
    BY <1>1, PathFacts
  <2> QED BY <2>2, <2>3, <1>3
<1>5. b <= table.my_mask
  <2>1. Len(th[t].path) \in Nat /\ Len(th[t].path) >= 1
    BY <1>1, PathFacts
  <2>2. Len(th[t].path) \in 1 .. Len(th[t].path)
    BY <2>1
  <2>3. \A i \in 1 .. Len(th[t].path) : th[t].path[i] <= table.my_mask
    BY <1>1 DEF ThreadOK
  <2> QED BY <2>2, <2>3 DEF TopOf
<1> QED BY <1>2, <1>3, <1>4, <1>5 DEF Written

\* The buckets that wait come after the one at the end of the path.
LEMMA Waiting ==
    ASSUME NEW t, NEW r, NEW tab, ThreadOK(t, r, tab), r.pc \in InTable, CallerOK(r, tab)
    PROVE  \A i \in 1 .. (Len(r.path) - 1) :
                r.path[i] \in Buckets /\ r.path[i] # TopOf(r) /\ ~Reached(tab, r.path[i])
<1> DEFINE n == Len(r.path)
<1>1. n \in Nat /\ n >= 1 /\ \A i \in 1 .. n : r.path[i] \in Buckets /\ r.path[i] \in Nat
  BY PathFacts
<1>2. \A i, k \in 1 .. n : i < k => r.path[k] < r.path[i]
  BY DEF ThreadOK, PathOK
<1>3. \A i \in 1 .. (n - 1) : ~Reached(tab, r.path[i])
  BY DEF CallerOK, Filling
<1> SUFFICES ASSUME NEW i \in 1 .. (n - 1)
             PROVE  r.path[i] \in Buckets /\ r.path[i] # r.path[n] /\ ~Reached(tab, r.path[i])
  BY DEF TopOf
<1> HIDE DEF n
<1>4. i \in 1 .. n /\ n \in 1 .. n /\ i < n
  BY <1>1
<1>5. r.path[n] < r.path[i] /\ r.path[n] \in Nat /\ r.path[i] \in Nat
  BY <1>1, <1>2, <1>4
<1>6. r.path[n] # r.path[i]
  BY <1>5
<1> QED BY <1>1, <1>3, <1>4, <1>6

LEMMA EvolvesMark ==
    ASSUME NEW tab, NEW new, NEW ws, NEW added, NEW gone, NEW b \in Buckets, tab.my_mask \in Nat,
           new.my_mask = tab.my_mask, new.rehashed = tab.rehashed \cup {b}, new.node_list = tab.node_list,
           Reached(tab, b) \/ (b >= 2 /\ b \in ws /\ Parent(b) \in ws /\ Parent(b) \in tab.rehashed)
    PROVE  Evolves(tab, new, ws, added, gone)
<1>1. NodesIn(new) = NodesIn(tab) /\ tab.my_mask <= new.my_mask
  BY DEF NodesIn
<1>2. \A c \in Buckets : Reached(new, c) => Reached(tab, c) \/ c = b
  BY DEF Reached
<1>3. \A c \in Buckets \ ws : SameKeys(tab.node_list[c], new.node_list[c])
  BY SameKeysSame
<1>4. \A c \in Buckets :
        Reached(new, c) /\ ~Reached(tab, c) => c >= 2 /\ c \in ws /\ Parent(c) \in ws /\ Parent(c) \in tab.rehashed
  BY <1>2
<1> QED BY <1>1, <1>3, <1>4 DEF Evolves

LEMMA CheckRehashedPromise ==
    ASSUME Promise, NEW t \in Threads, CheckRehashed(t)
    PROVE  Promise'
<1> DEFINE r == [th[t] EXCEPT !.pc = IF Top(t) \in table.rehashed THEN "lock" ELSE "try"]
<1>1. ThreadOK(t, th[t], table) /\ th[t].pc = "bucket" /\ CallerOK(th[t], table)
  BY DEF Promise, CallersOK, Inv, ThreadsOK, CheckRehashed
<1>2. th' = [th EXCEPT ![t] = r] /\ UNCHANGED <<table, acc, other, up>> /\ Inv'
  BY CheckRehashedStep DEF CheckRehashed, env, Promise
<1>3. r.pc \in {"lock", "try"} /\ r.call = th[t].call /\ r.m = th[t].m /\ r.path = th[t].path
  BY <1>1 DEF ThreadOK, ThreadType
<1> HIDE DEF r
<1>4. th[t].pc \in Descending /\ r.pc \in Seeking /\ th[t].pc \in InTable
  BY <1>1, <1>3 DEF Descending, Seeking, InTable
<1>5. Filling(r, table)
  BY <1>1, <1>3, <1>4 DEF CallerOK, Filling
<1> QED BY <1>1, <1>2, <1>3, <1>4, <1>5, PathOnlyStep

LEMMA TryLockPromise ==
    ASSUME Promise, NEW t \in Threads, TryLock(t)
    PROVE  Promise'
<1> DEFINE b == Top(t)
<1> DEFINE locked == [th[t] EXCEPT !.locks = @ \cup {<<b, "write">>}]
<1>1. /\ ThreadOK(t, th[t], table) /\ th[t].pc = "try" /\ th[t].pc \in InTable /\ th[t].pc \in Descending
      /\ UNCHANGED <<acc, other, up>> /\ Inv' /\ CallerOK(th[t], table)
  BY TryLockStep DEF Promise, CallersOK, Inv, ThreadsOK, TryLock, InTable, Descending, env
<1>2. b \in Buckets /\ TopOf(th[t]) = b /\ Len(th[t].path) \in Nat /\ Len(th[t].path) >= 1
      /\ th[t].path \in Seq(Buckets) /\ th[t].path # <<>>
  BY <1>1, PathFacts DEF Top
<1>3. /\ ThreadType(locked) /\ locked.pc = "try" /\ locked.call = th[t].call
      /\ locked.path = th[t].path /\ locked.m = th[t].m
  <2>1. <<b, "write">> \in Lock
    BY <1>2 DEF Lock
  <2> QED BY <1>1, <2>1 DEF ThreadOK, ThreadType
<1>4. \A i \in 1 .. (Len(th[t].path) - 1) :
        th[t].path[i] \in Buckets /\ th[t].path[i] # b /\ ~Reached(table, th[t].path[i])
  BY <1>1, <1>2, Waiting
<1>5. TableOK(table) /\ Placed(table)
  BY DEF Promise, Inv
<1>6. CASE /\ ~BucketFree(b, "write") /\ th' = [th EXCEPT ![t].pc = "lock"] /\ UNCHANGED table
  <2> DEFINE r == [th[t] EXCEPT !.pc = "lock"]
  <2>1. r.pc = "lock" /\ r.call = th[t].call /\ r.path = th[t].path /\ r.m = th[t].m
    BY <1>1 DEF ThreadOK, ThreadType
  <2>2. th' = [th EXCEPT ![t] = r]
    BY <1>6
  <2> HIDE DEF r
  <2>3. r.pc \in Seeking
    BY <2>1 DEF Seeking, Descending
  <2>4. Filling(r, table)
    BY <1>1, <2>1 DEF CallerOK, Filling
  <2> QED BY <1>1, <1>6, <2>1, <2>2, <2>3, <2>4, PathOnlyStep
<1> HIDE DEF locked, b
<1>7. CASE th' = [th EXCEPT ![t] = Acquired(locked)] /\ UNCHANGED table
  <2> DEFINE r == Acquired(locked)
  <2>1. r.call = th[t].call /\ r.m = th[t].m /\ Head(r.path) = Head(th[t].path) /\ r.pc \in Seeking
        /\ r.pc # "mark"
    BY <1>2, <1>3, AcquiredFields
  <2>2. Filling(r, table)
    BY <1>2, <1>3, <1>4, AcquiredFilling
  <2>3. th' = [th EXCEPT ![t] = r]
    BY <1>7
  <2> HIDE DEF r
  <2> QED BY <1>1, <1>7, <2>1, <2>2, <2>3, PathOnlyStep
<1>8. CASE /\ b \notin table.rehashed /\ MovedBeforeCrash(table, b)
           /\ th' = [th EXCEPT ![t] = [locked EXCEPT !.pc = "persist"]]
           /\ table' = set_rehashed(table, b)
  <2> DEFINE r == [locked EXCEPT !.pc = "persist"]
  <2>1. r.pc = "persist" /\ r.call = th[t].call /\ r.path = th[t].path /\ r.m = th[t].m
    BY <1>3 DEF ThreadType
  <2>2. th' = [th EXCEPT ![t] = r]
    BY <1>8
  <2> HIDE DEF r
  <2>3. r.pc \in Seeking
    BY <2>1 DEF Seeking, Rehashing
  <2>4. b >= 2 /\ b <= table.my_mask /\ Reached(table, b)
    <3>1. {0, 1} \subseteq table.rehashed /\ b \in Nat
      BY <1>2, <1>5, BucketsAreNumbers DEF TableOK
    <3>2. Reached(table, b)
      BY <1>8 DEF Reached, MovedBeforeCrash
    <3> QED BY <1>2, <1>5, <1>8, <3>1, <3>2 DEF Placed, InRange
  <2>5. /\ Placed(table') /\ NodesIn(table') = NodesIn(table)
        /\ \A c \in Buckets : Reached(table', c) => Reached(table, c)
    BY <1>2, <1>5, <1>8, <2>4, MarkPlaced
  <2>6. /\ (table').node_list = table.node_list /\ (table').rehashed = table.rehashed \cup {b}
        /\ SameCounts(table, table') /\ (table').my_mask = table.my_mask
    BY <1>5, <1>8, <2>5, MarkFields DEF SameCounts
  <2>7. Evolves(table, table', Written(t), Added(th[t]), Gone(th[t]))
    <3>1. table.my_mask \in Nat
      BY <1>5, TableFacts
    <3> QED BY <1>2, <2>4, <2>6, <3>1, EvolvesMark
  <2>8. Taken(r, table') /\ Filling(r, table')
    BY <1>4, <2>1, <2>5 DEF Taken, Filling
  <2> QED BY <1>1, <2>1, <2>2, <2>3, <2>5, <2>6, <2>7, <2>8, PathStep
<1>9. CASE /\ b \notin table.rehashed /\ ~MovedBeforeCrash(table, b)
           /\ th' = [th EXCEPT ![t] = [locked EXCEPT !.pc = "bucket", !.path = Append(@, Parent(b))]]
           /\ UNCHANGED table
  <2> DEFINE n == Len(th[t].path)
  <2> DEFINE path == Append(th[t].path, Parent(b))
  <2> DEFINE r == [locked EXCEPT !.pc = "bucket", !.path = path]
  <2>1. th' = [th EXCEPT ![t] = r]
    BY <1>3, <1>9
  <2>2. r.pc = "bucket" /\ r.call = th[t].call /\ r.path = path /\ r.m = th[t].m
    BY <1>3 DEF ThreadType
  <2>3. Len(path) = n + 1 /\ Head(path) = Head(th[t].path) /\ \A i \in 1 .. n : path[i] = th[t].path[i]
    BY <1>2
  <2>4. ~Reached(table, b) /\ th[t].path[n] = b
    BY <1>2, <1>9 DEF Reached, MovedBeforeCrash, TopOf
  <2> HIDE DEF path, r
  <2>5. r.pc \in Seeking
    BY <2>2 DEF Seeking, Descending
  <2>6. ASSUME NEW i \in 1 .. n PROVE ~Reached(table, path[i])
    <3>1. CASE i = n
      BY <3>1, <2>3, <2>4
    <3>2. CASE i # n
      <4>1. i \in 1 .. (n - 1)
        BY <1>2, <3>2
      <4>2. ~Reached(table, th[t].path[i])
        BY <1>4, <4>1
      <4> QED BY <4>2, <2>3
    <3> QED BY <3>1, <3>2
  <2>7. Filling(r, table)
    <3>1. (n + 1) - 1 = n
      BY <1>2
    <3>2. r.pc # "move" /\ Len(r.path) = n + 1
      BY <2>2, <2>3
    <3> QED BY <2>2, <2>6, <3>1, <3>2 DEF Filling
  <2> QED BY <1>1, <1>9, <2>1, <2>2, <2>3, <2>5, <2>7, PathOnlyStep
<1> QED BY <1>6, <1>7, <1>8, <1>9 DEF TryLock, b, locked

LEMMA LockBucketPromise ==
    ASSUME Promise, NEW t \in Threads, LockBucket(t)
    PROVE  Promise'
<1> DEFINE mode == IF Len(th[t].path) > 1 THEN "write" ELSE BucketMode(th[t].call.op)
<1> DEFINE locked == [th[t] EXCEPT !.locks = @ \cup {<<Top(t), mode>>}]
<1> DEFINE r == Acquired(locked)
<1>1. /\ ThreadOK(t, th[t], table) /\ th[t].pc = "lock" /\ th[t].pc \in InTable /\ th[t].pc \in Descending
      /\ UNCHANGED <<table, acc, other, up>> /\ Inv' /\ CallerOK(th[t], table)
      /\ th' = [th EXCEPT ![t] = r]
  BY LockBucketStep DEF Promise, CallersOK, Inv, ThreadsOK, LockBucket, InTable, Descending, env
<1>2. TopOf(th[t]) \in Buckets /\ Top(t) = TopOf(th[t]) /\ th[t].path # <<>>
  BY <1>1, PathFacts DEF Top
<1>3. /\ ThreadType(locked) /\ locked.call = th[t].call /\ locked.path = th[t].path /\ locked.m = th[t].m
  <2>1. <<Top(t), mode>> \in Lock
    BY <1>2 DEF Lock, BucketMode
  <2> HIDE DEF mode
  <2> QED BY <1>1, <2>1 DEF ThreadOK, ThreadType
<1>4. \A i \in 1 .. (Len(th[t].path) - 1) : ~Reached(table, th[t].path[i])
  BY <1>1, Waiting
<1> HIDE DEF locked
<1>5. r.call = th[t].call /\ r.m = th[t].m /\ Head(r.path) = Head(th[t].path) /\ r.pc \in Seeking
      /\ r.pc # "mark"
  BY <1>2, <1>3, AcquiredFields
<1>6. Filling(r, table)
  BY <1>2, <1>3, <1>4, AcquiredFilling
<1> HIDE DEF r
<1> QED BY <1>1, <1>5, <1>6, PathOnlyStep

LEMMA RehashBucketPromise ==
    ASSUME Promise, NEW t \in Threads, RehashBucket(t)
    PROVE  Promise' /\ NodesIn(table') = NodesIn(table)
<1> DEFINE b == TopOf(th[t])
<1> DEFINE r == [th[t] EXCEPT !.pc = "mark"]
<1>1. /\ ThreadOK(t, th[t], table) /\ th[t].pc = "move" /\ th[t].pc \in InTable /\ th[t].pc \in Rehashing
      /\ UNCHANGED <<acc, other, up>> /\ Inv' /\ CallerOK(th[t], table)
      /\ th' = [th EXCEPT ![t] = r]
  BY RehashBucketStep DEF Promise, CallersOK, Inv, ThreadsOK, RehashBucket, InTable, Rehashing, env
<1>2. /\ b \in Buckets /\ b >= 2 /\ Parent(b) \in Buckets /\ b <= table.my_mask
      /\ b \in Written(t) /\ Parent(b) \in Written(t) /\ Parent(b) \in table.rehashed
  BY <1>1, RehashFacts
<1>3. ~Reached(table, b) /\ Reached(table, Parent(b)) /\ Top(t) = b
  BY <1>1, <1>2, PathFacts DEF CallerOK, Filling, Reached, Top
<1>4. \A i \in 1 .. (Len(th[t].path) - 1) :
        th[t].path[i] \in Buckets /\ th[t].path[i] # b /\ ~Reached(table, th[t].path[i])
  BY <1>1, Waiting
<1>5. TableOK(table) /\ Placed(table) /\ table' = MoveNodes(table, b)
  BY <1>3 DEF Promise, Inv, RehashBucket
<1>6. r.pc = "mark" /\ r.call = th[t].call /\ r.path = th[t].path /\ r.m = th[t].m
  BY <1>1 DEF ThreadOK, ThreadType
<1> HIDE DEF r
<1>7. TopOf(r) = b /\ r.pc \in Seeking
  BY <1>6 DEF TopOf, Seeking, Rehashing
<1> HIDE DEF b
<1>8. /\ Placed(table') /\ NodesIn(table') = NodesIn(table)
      /\ \A n \in (table').node_list[Parent(b)] : ~OfChain(hasher[n.key], b)
      /\ \A c \in Buckets \ {b} : Reached(table', c) => Reached(table, c)
  BY <1>2, <1>3, <1>5, MovePlaced
<1>9. /\ \A c \in Buckets \ {b, Parent(b)} : (table').node_list[c] = table.node_list[c]
      /\ table' = [table EXCEPT !.node_list = (table').node_list]
  BY <1>2, <1>5, MoveFields
<1>10. /\ (table').rehashed = table.rehashed /\ (table').my_mask = table.my_mask
       /\ (table').tls = table.tls /\ (table').my_size = table.my_size
       /\ (table').on_init_size = table.on_init_size /\ (table').consistent = table.consistent
  <2> DEFINE lists == (table').node_list
  <2>1. table' = [table EXCEPT !.node_list = lists]
    BY <1>9
  <2> HIDE DEF lists
  <2> QED BY <2>1, <1>5 DEF TableOK, TableType
<1>11. SameCounts(table, table')
  BY <1>8, <1>10 DEF SameCounts
<1>12. Evolves(table, table', Written(t), Added(th[t]), Gone(th[t]))
  <2>1. table.my_mask <= (table').my_mask
    BY <1>5, <1>10, TableFacts
  <2>2. \A c \in Buckets \ Written(t) : SameKeys(table.node_list[c], (table').node_list[c])
    BY <1>2, <1>9, SameKeysSame
  <2>3. \A c \in Buckets : Reached(table', c) /\ ~Reached(table, c) => c = b
    BY <1>8
  <2>4. \A c \in Buckets : Reached(table', c) /\ ~Reached(table, c) =>
            c >= 2 /\ c \in Written(t) /\ Parent(c) \in Written(t) /\ Parent(c) \in table.rehashed
    BY <1>2, <2>3
  <2> QED BY <1>8, <1>10, <2>1, <2>2, <2>4 DEF Evolves
<1>13. Taken(r, table') /\ Filling(r, table')
  BY <1>4, <1>6, <1>7, <1>8 DEF Taken, Filling
<1>14. \A c \in Buckets : Reached(table', c) /\ ~Reached(table, c) =>
            c \in (table').rehashed \/ (r.pc = "mark" /\ TopOf(r) = c)
  BY <1>6, <1>7, <1>8
<1> QED BY <1>1, <1>6, <1>7, <1>8, <1>10, <1>11, <1>12, <1>13, <1>14, PathStep

LEMMA MarkRehashedPromise ==
    ASSUME Promise, NEW t \in Threads, MarkRehashed(t)
    PROVE  Promise'
<1> DEFINE b == TopOf(th[t])
<1> DEFINE r == [th[t] EXCEPT !.pc = "persist"]
<1>1. /\ ThreadOK(t, th[t], table) /\ th[t].pc = "mark" /\ th[t].pc \in InTable /\ th[t].pc \in Rehashing
      /\ UNCHANGED <<acc, other, up>> /\ Inv' /\ CallerOK(th[t], table)
      /\ th' = [th EXCEPT ![t] = r]
  BY MarkRehashedStep DEF Promise, CallersOK, Inv, ThreadsOK, MarkRehashed, InTable, Rehashing, env
<1>2. /\ b \in Buckets /\ b >= 2 /\ Parent(b) \in Buckets /\ b <= table.my_mask
      /\ b \in Written(t) /\ Parent(b) \in Written(t) /\ Parent(b) \in table.rehashed
  BY <1>1, RehashFacts
<1>3. Reached(table, Parent(b)) /\ Top(t) = b /\ \A n \in table.node_list[Parent(b)] : ~OfChain(hasher[n.key], b)
  BY <1>1, <1>2, PathFacts DEF CallerOK, Taken, Reached, Top
<1>4. \A i \in 1 .. (Len(th[t].path) - 1) :
        th[t].path[i] \in Buckets /\ th[t].path[i] # b /\ ~Reached(table, th[t].path[i])
  BY <1>1, Waiting
<1>5. TableOK(table) /\ Placed(table) /\ table' = set_rehashed(table, b)
  BY <1>3 DEF Promise, Inv, MarkRehashed
<1>6. r.pc = "persist" /\ r.call = th[t].call /\ r.path = th[t].path /\ r.m = th[t].m
  BY <1>1 DEF ThreadOK, ThreadType
<1> HIDE DEF r
<1>7. r.pc \in Seeking
  BY <1>6 DEF Seeking, Rehashing
<1>8. /\ Placed(table') /\ NodesIn(table') = NodesIn(table)
      /\ \A c \in Buckets \ {b} : Reached(table', c) => Reached(table, c)
  BY <1>2, <1>3, <1>5, MarkPlaced
<1>9. /\ (table').node_list = table.node_list /\ (table').rehashed = table.rehashed \cup {b}
      /\ SameCounts(table, table') /\ (table').my_mask = table.my_mask
  BY <1>5, <1>8, MarkFields DEF SameCounts
<1>10. Evolves(table, table', Written(t), Added(th[t]), Gone(th[t]))
  <2>1. table.my_mask \in Nat
    BY <1>5, TableFacts
  <2> HIDE DEF b
  <2> QED BY <1>2, <1>9, <2>1, EvolvesMark
<1>11. Taken(r, table') /\ Filling(r, table')
  BY <1>4, <1>6, <1>8 DEF Taken, Filling
<1>12. b \in (table').rehashed /\ \A c \in Buckets : Reached(table', c) /\ ~Reached(table, c) => c \in (table').rehashed
  BY <1>8, <1>9
<1> QED BY <1>1, <1>6, <1>7, <1>8, <1>9, <1>10, <1>11, <1>12, PathStep

LEMMA PersistRehashedPromise ==
    ASSUME Promise, NEW t \in Threads, PersistRehashed(t)
    PROVE  Promise'
<1> DEFINE unlocked == [th[t] EXCEPT !.locks = {l \in @ : l[1] # Parent(Top(t))}]
<1> DEFINE r == Acquired(unlocked)
<1>1. /\ ThreadOK(t, th[t], table) /\ th[t].pc = "persist" /\ th[t].pc \in InTable /\ th[t].pc \in Rehashing
      /\ UNCHANGED <<acc, other, up>> /\ Inv' /\ CallerOK(th[t], table)
      /\ th' = [th EXCEPT ![t] = r]
  BY PersistRehashedStep DEF Promise, CallersOK, Inv, ThreadsOK, PersistRehashed, InTable, Rehashing, env
<1>2. th[t].path # <<>>
  BY <1>1 DEF ThreadOK, PathOK
<1>3. ThreadType(unlocked) /\ unlocked.call = th[t].call /\ unlocked.path = th[t].path /\ unlocked.m = th[t].m
  BY <1>1 DEF ThreadOK, ThreadType
<1>4. \A i \in 1 .. (Len(th[t].path) - 1) : ~Reached(table, th[t].path[i])
  BY <1>1, Waiting
<1> HIDE DEF unlocked
<1>5. r.call = th[t].call /\ r.m = th[t].m /\ Head(r.path) = Head(th[t].path) /\ r.pc \in Seeking
      /\ r.pc # "mark"
  BY <1>2, <1>3, AcquiredFields
<1>6. Filling(r, table)
  BY <1>2, <1>3, <1>4, AcquiredFilling
<1> HIDE DEF r
<1>7. TableOK(table) /\ Placed(table) /\ table' = persist_rehashed(table, Top(t)) /\ TableOK(table')
  BY <1>1 DEF Promise, Inv, PersistRehashed
<1>8. /\ (table').node_list = table.node_list /\ (table').rehashed = table.rehashed
      /\ (table').tls = table.tls /\ (table').my_mask = table.my_mask
      /\ (table').consistent = table.consistent
      /\ (table').my_size = table.my_size /\ (table').on_init_size = table.on_init_size
  BY <1>7, PersistFields
<1>9. table.my_mask <= (table').my_mask
  BY <1>7, <1>8, TableFacts
<1>10. Placed(table') /\ NodesIn(table') = NodesIn(table)
  BY <1>7, <1>8, <1>9, SamePlaced
<1>11. Evolves(table, table', Written(t), Added(th[t]), Gone(th[t])) /\ SameCounts(table, table')
  BY <1>8, <1>9, <1>10, EvolvesSame DEF SameCounts
<1>12. \A c \in Buckets : Reached(table', c) <=> Reached(table, c)
  BY <1>8 DEF Reached
<1>13. Taken(r, table') /\ Filling(r, table')
  BY <1>5, <1>6, <1>8 DEF Taken, Filling, Reached
<1> QED BY <1>1, <1>5, <1>8, <1>10, <1>11, <1>12, <1>13, PathStep

-----------------------------------------------------------------------------
(* Calls that find nothing, and calls that return *)

\* The answer of a call is in its record.
Replied(r, ret) == [r EXCEPT !.call.ret = ret]

LEMMA AnsweredCall ==
    ASSUME NEW r, ThreadType(r), NEW ret \in {"true", "false"}
    PROVE  LET q == Replied(r, ret)
           IN  /\ q.call \in Call /\ q.call.op = r.call.op /\ q.call.key = r.call.key
               /\ q.call.val = r.call.val /\ q.call.mode = r.call.mode /\ q.call.ret = ret
               /\ q.call = [r.call EXCEPT !.ret = ret] /\ q.path = r.path /\ q.id = r.id
<1> DEFINE q == Replied(r, ret)
           c == [r.call EXCEPT !.ret = ret]
<1>1. /\ c \in Call /\ c.op = r.call.op /\ c.key = r.call.key /\ c.val = r.call.val
      /\ c.mode = r.call.mode /\ c.ret = ret
  BY DEF ThreadType, Call
<1>2. q.call = c /\ q.path = r.path /\ q.id = r.id
  BY DEF ThreadType, Replied
<1> HIDE DEF c
<1>3. /\ q.call \in Call /\ q.call.op = r.call.op /\ q.call.key = r.call.key
      /\ q.call.val = r.call.val /\ q.call.mode = r.call.mode /\ q.call.ret = ret
  BY <1>1, <1>2
<1>4. q.call = [r.call EXCEPT !.ret = ret] /\ q.path = r.path /\ q.id = r.id
  BY <1>2 DEF c
<1> QED BY <1>3, <1>4

LEMMA IdleCaller ==
    ASSUME NEW call \in Call, Asked(call), call.ret # "pending", NEW tab
    PROVE  LET r == AfterCall(call)
           IN  /\ CallerOK(r, tab) /\ r.pc = "idle" /\ r.call = call /\ r.m = 0
               /\ ~Owns(r) /\ Signed(r) = 0 /\ r.pc \notin Seeking /\ ~HasItem(r) /\ ~Adding(r)
               /\ r.pc \notin InTable \cup {"defrag"}
<1> DEFINE r == AfterCall(call)
<1>1. r.pc = "idle" /\ r.call = call /\ r.m = 0
  BY DEF AfterCall
<1> HIDE DEF r
<1>2. /\ ~Owns(r) /\ Signed(r) = 0 /\ r.pc \notin Seeking /\ ~HasItem(r) /\ ~Adding(r)
      /\ r.pc \notin InTable \cup {"defrag"}
  BY <1>1 DEF Owns, Signed, Seeking, Descending, Rehashing, HasItem, Adding, InTable, Working, Changing
<1>3. CallerOK(r, tab)
  BY <1>1, <1>2 DEF CallerOK, AnswerOK, Seeking, Descending, Rehashing, MaskOK, Fresh, Taken, Filling, ItemKey
<1> QED BY <1>1, <1>2, <1>3 DEF r

LEMMA MaskInUse ==
    ASSUME Inv
    PROVE  \E j \in 0 .. (number_of_segments - 1) : table.my_mask = MaskOf(j)
<1>1. PICK j \in Nat : Grown(j) /\ table.my_mask = MaskOf(j)
  BY DEF Inv, SegmentsOK, AllInUse, OneToPublish
<1> QED BY <1>1 DEF Grown

\* The bucket that a call searched, and what it is to a hash code.
LEMMA SearchFacts ==
    ASSUME Promise, NEW t \in Threads, th[t].pc \in {"search", "item"}, th[t].call.op # "defragment"
    PROVE  /\ ThreadOK(t, th[t], table) /\ CallerOK(th[t], table) /\ ThreadType(th[t])
           /\ up /\ acc[t] = NoAccessor /\ th[t].pc \in Working
           /\ th[t].call.key \in Keys /\ Hash(t) = hasher[th[t].call.key] /\ Hash(t) \in Nat
           /\ Target(t) = Head(th[t].path) /\ Target(t) \in Buckets /\ Target(t) \in table.rehashed
           /\ OfChain(Hash(t), Target(t))
           /\ \E l \in th[t].locks : l[1] = Target(t)
<1>1. th[t].pc \in Working /\ th[t].pc \in InTable
  BY DEF Working, InTable
<1>2. ThreadOK(t, th[t], table) /\ CallerOK(th[t], table)
  BY DEF Promise, CallersOK, Inv, ThreadsOK
<1>3. /\ Head(th[t].path) \in Buckets /\ Head(th[t].path) \in table.rehashed
      /\ \E l \in th[t].locks : l[1] = Head(th[t].path)
  BY <1>1, <1>2, WorkingBucket
<1>4. th[t].call.key \in Keys /\ OfChain(hasher[th[t].call.key], Head(th[t].path))
  BY <1>1, <1>2 DEF ThreadOK, KeyedOK, OfChain
<1>5. up /\ acc[t] = NoAccessor
  BY <1>1, InCall
<1> QED BY <1>1, <1>2, <1>3, <1>4, <1>5, HashAssumption DEF Hash, Target, ThreadOK

\* A thread that finds no node in its bucket, and sees no race, has found that
\* the key is nowhere.
LEMMA NoneLater ==
    ASSUME Promise, NEW t \in Threads, th[t].pc = "search", th[t].call.op # "defragment",
           search_bucket(table, Target(t), th[t].call.key) = {},
           ~check_mask_race(table, Hash(t), th[t].m)
    PROVE  Absent(table, Head(th[t].path), th[t].call.key)
<1> DEFINE b == Target(t)
<1> DEFINE h == Hash(t)
<1> DEFINE k == th[t].call.key
<1>1. /\ CallerOK(th[t], table) /\ k \in Keys /\ h = hasher[k] /\ h \in Nat
      /\ b = Head(th[t].path) /\ b \in Buckets /\ b \in table.rehashed /\ OfChain(h, b)
      /\ \E l \in th[t].locks : l[1] = b
  BY SearchFacts
<1>2. th[t].pc \in Seeking
  BY DEF Seeking
<1>3. PICK i \in 0 .. (number_of_segments - 1) : th[t].m = MaskOf(i)
  BY <1>1, <1>2 DEF CallerOK, MaskOK
<1>4. b = Masked(h, MaskOf(i))
  BY <1>1, <1>2, <1>3 DEF CallerOK, MaskOK
<1>5. PICK j \in 0 .. (number_of_segments - 1) : table.my_mask = MaskOf(j)
  BY MaskInUse DEF Promise
<1>6. TableOK(table) /\ Placed(table) /\ Inv
  BY DEF Promise, Inv
<1> HIDE DEF b, h, k
<1> DEFINE Later(c) == OfChain(h, c) /\ b < c /\ Reached(table, c)
<1>7. ASSUME NEW x \in Buckets, Later(x) PROVE FALSE
  <2> DEFINE C == {c \in Buckets : Later(c)}
  <2>1. C \in SUBSET Nat /\ C # {}
    BY <1>7, BucketsAreNumbers
  <2>2. PICK c \in C : \A y \in C : c <= y
    BY <2>1, LeastOf
  <2>3. c \in Buckets /\ OfChain(h, c) /\ b < c /\ Reached(table, c)
    BY <2>2
  <2>4. c >= 2 /\ b <= Parent(c) /\ Parent(c) \in Buckets /\ Parent(c) < c /\ OfChain(h, Parent(c))
    BY <1>1, <2>3, ChainOrder, ParentFacts, ParentOfChain
  <2>5. c <= table.my_mask
    BY <1>6, <2>3 DEF Placed, InRange
  <2>6. b \in Nat /\ c \in Nat /\ Parent(c) \in Nat
    BY <1>1, <2>3, <2>4, BucketsAreNumbers
  <2>7. b = Parent(c) \/ Parent(c) \notin table.rehashed
    <3>1. SUFFICES ASSUME b # Parent(c), Parent(c) \in table.rehashed PROVE FALSE
      OBVIOUS
    <3>2. Parent(c) \in C
      BY <2>4, <2>6, <3>1 DEF Reached
    <3>3. c <= Parent(c)
      BY <2>2, <3>2
    <3> QED BY <3>3, <2>4, <2>6
  <2>8. Orphan(table, c)
    <3>1. CASE b = Parent(c)
      <4>1. SUFFICES ASSUME c \in table.rehashed PROVE FALSE
        BY <2>3, <2>4 DEF Orphan
      <4>2. check_mask_race(table, h, MaskOf(i))
        BY <1>1, <1>4, <1>5, <2>3, <2>5, <3>1, <4>1, RaceSeen
      <4> QED BY <4>2, <1>3 DEF h
    <3>2. CASE Parent(c) \notin table.rehashed
      BY <2>3, <2>4, <3>2 DEF Orphan
    <3> QED BY <2>7, <3>1, <3>2
  <2>9. CASE \E u \in Threads : th[u].pc = "mark" /\ TopOf(th[u]) = c
    <3>1. PICK u \in Threads : th[u].pc = "mark" /\ TopOf(th[u]) = c
      BY <2>9
    <3>2. Parent(c) \in table.rehashed /\ Parent(c) \in Written(u)
      BY <3>1, RehashFacts
    <3>3. b = Parent(c) /\ u # t
      BY <2>7, <3>1, <3>2
    <3>4. PICK l \in th[t].locks : l[1] = b
      BY <1>1
    <3>5. ~Writes(th[u], l[1])
      BY <1>6, <3>3, NotWritten
    <3> QED BY <3>2, <3>3, <3>4, <3>5 DEF Written
  <2>10. CASE \A u \in Threads : th[u].pc \in Seeking => c <= th[u].m
    <3>1. c <= MaskOf(i)
      BY <1>2, <1>3, <2>10
    <3>2. c <= b
      BY <1>1, <1>4, <2>3, <3>1, ChainOfMask
    <3> QED BY <3>2, <2>3, <2>6
  <2> QED BY <2>3, <2>8, <2>9, <2>10 DEF Promise, Marking
<1>8. ASSUME NEW n \in NodesIn(table), n.key = k PROVE FALSE
  <2>1. PICK c \in Buckets : n \in table.node_list[c]
    BY InBucket
  <2>2. OfChain(h, c) /\ Reached(table, c)
    BY <1>1, <1>6, <1>8, <2>1, NodeFacts DEF Reached
  <2>3. CASE c = b
    <3>1. n \in search_bucket(table, Target(t), th[t].call.key)
      BY <1>8, <2>1, <2>3 DEF search_bucket, b, k
    <3> QED BY <3>1
  <2>4. CASE b < c
    BY <1>7, <2>2, <2>4
  <2>5. CASE c < b
    <3>1. ~Reached(table, b)
      BY <1>1, <1>6, <1>8, <2>1, <2>5 DEF Placed, Located
    <3> QED BY <3>1, <1>1 DEF Reached
  <2>6. b \in Nat /\ c \in Nat
    BY <1>1, BucketsAreNumbers
  <2> QED BY <2>3, <2>4, <2>5, <2>6
<1>9. Absent(table, b, k)
  BY <1>1, <1>7, <1>8 DEF Absent
<1> QED BY <1>1, <1>9 DEF k

\* The call starts over.
LEMMA RetryPromise ==
    ASSUME Promise, Inv', NEW t \in Threads, th[t].pc \in {"search", "item"}, th[t].call.op # "defragment",
           th[t].call.ret = "pending", Retry(t), UNCHANGED <<table, acc, other, up>>
    PROVE  Promise'
<1> DEFINE b == Masked(Hash(t), table.my_mask)
<1> DEFINE r == [th[t] EXCEPT !.pc = "bucket", !.m = table.my_mask, !.locks = {}, !.path = <<b>>]
<1>1. /\ CallerOK(th[t], table) /\ ThreadType(th[t]) /\ up /\ acc[t] = NoAccessor
      /\ Hash(t) = hasher[th[t].call.key]
  BY SearchFacts
<1>2. th' = [th EXCEPT ![t] = r]
  BY DEF Retry, Promise, Inv
<1> HIDE DEF b
<1>3. /\ r.pc = "bucket" /\ r.call = th[t].call /\ r.path = <<b>> /\ r.m = table.my_mask
      /\ Len(<<b>>) = 1 /\ Head(<<b>>) = b
  BY <1>1 DEF ThreadType
<1> HIDE DEF r
<1>4. r.pc \in Seeking /\ ~HasItem(r) /\ ~Owns(r) /\ Signed(r) = 0 /\ ~Adding(r)
  BY <1>3 DEF Seeking, Descending, HasItem, Owns, Signed, Adding
<1>5. MaskOK(r, table)
  <2>1. \E j \in 0 .. (number_of_segments - 1) : r.m = MaskOf(j)
    BY <1>3, MaskInUse DEF Promise
  <2>2. r.m <= table.my_mask
    BY <1>3, TableFacts DEF Promise, Inv
  <2>3. Head(r.path) = Masked(hasher[r.call.key], r.m)
    BY <1>1, <1>3 DEF b
  <2> QED BY <2>1, <2>2, <2>3 DEF MaskOK
<1>6. CallerOK(r, table)
  BY <1>1, <1>3, <1>4, <1>5 DEF CallerOK, AnswerOK, Fresh, Taken, Filling, ItemKey
<1>7. Signed(th[t]) = 0 /\ th[t].pc # "mark" /\ AccessorOK(acc[t], r, table)
  BY <1>1, <1>3 DEF Signed, AccessorOK
<1> QED BY <1>1, <1>2, <1>3, <1>4, <1>6, <1>7, LocalStep

\* A call returns with no accessor.
LEMMA ReturnPromise ==
    ASSUME Promise, Inv', up, NEW t \in Threads, acc[t] = NoAccessor, NEW call \in Call,
           th' = [th EXCEPT ![t] = AfterCall(call)], UNCHANGED <<table, acc, other, up>>,
           Asked(call), call.ret # "pending", th[t].pc # "mark", Signed(th[t]) = 0
    PROVE  Promise'
<1> DEFINE r == AfterCall(call)
<1>1. /\ r.pc = "idle" /\ CallerOK(r, table) /\ ~Owns(r) /\ Signed(r) = 0 /\ r.pc \notin Seeking
  BY IdleCaller
<1>2. th' = [th EXCEPT ![t] = r] /\ AccessorOK(acc[t], r, table)
  BY <1>1 DEF AccessorOK
<1> HIDE DEF r
<1> QED BY <1>1, <1>2, LocalStep

LEMMA SearchMissPromise ==
    ASSUME Promise, NEW t \in Threads, SearchMiss(t)
    PROVE  Promise'
<1>1. th[t].pc = "search" /\ th[t].call.op # "defragment" /\ UNCHANGED <<table, other, up>> /\ Inv'
  BY SearchMissStep DEF SearchMiss, env, Promise
<1>2. /\ CallerOK(th[t], table) /\ ThreadType(th[t]) /\ up /\ acc[t] = NoAccessor
  BY <1>1, SearchFacts
<1>3. th[t].call.ret = "pending" /\ Asked(th[t].call)
  BY <1>1, <1>2 DEF CallerOK, AnswerOK, Seeking
<1>4. Signed(th[t]) = 0
  BY <1>1 DEF Signed
<1>5. CASE Retry(t) /\ UNCHANGED acc
  BY <1>1, <1>3, <1>5, RetryPromise
<1>6. CASE /\ ~check_mask_race(table, Hash(t), th[t].m)
           /\ th[t].call.op \in {"insert", "insert_or_assign"} /\ UNCHANGED acc
           /\ th' = [th EXCEPT ![t].pc = "local", ![t].m = table.my_mask]
  <2> DEFINE r == [th[t] EXCEPT !.pc = "local", !.m = table.my_mask]
  <2>1. th' = [th EXCEPT ![t] = r]
    BY <1>6 DEF Promise, Inv
  <2>2. r.pc = "local" /\ r.call = th[t].call /\ r.path = th[t].path
    BY <1>2 DEF ThreadType
  <2> HIDE DEF r
  <2>3. r.pc \notin Seeking /\ ~HasItem(r) /\ ~Owns(r) /\ Signed(r) = 0
    BY <1>6, <2>2 DEF Seeking, Descending, Rehashing, HasItem, Owns, Signed
  <2>4. Absent(table, Head(r.path), r.call.key)
    BY <1>1, <1>6, <2>2, NoneLater DEF SearchMiss
  <2>5. Filling(r, table)
    BY <1>1, <1>2, <2>2 DEF CallerOK, Filling, InTable, Working
  <2>6. CallerOK(r, table)
    BY <1>3, <2>2, <2>3, <2>4, <2>5 DEF CallerOK, AnswerOK, MaskOK, Fresh, Taken, ItemKey
  <2>7. AccessorOK(acc[t], r, table)
    BY <1>2, <2>2 DEF AccessorOK
  <2> QED BY <1>1, <1>2, <1>4, <1>6, <2>1, <2>3, <2>6, <2>7, LocalStep
<1>7. CASE th[t].call.op \in {"count", "find", "erase"} /\ Return(t, Answered(th[t], FALSE))
  <2> DEFINE q == Answered(th[t], FALSE)
  <2> DEFINE c == q.call
  <2>0. q = Replied(th[t], "false")
    BY DEF Answered, Replied
  <2> HIDE DEF q
  <2>1. c \in Call /\ c.op = th[t].call.op /\ c.mode = th[t].call.mode /\ c.ret = "false"
    BY <1>2, <2>0, AnsweredCall
  <2>2. th' = [th EXCEPT ![t] = AfterCall(c)] /\ UNCHANGED acc
    BY <1>7, <2>1 DEF Return, q
  <2> HIDE DEF c
  <2>3. Asked(c)
    BY <1>3, <2>1 DEF Asked
  <2> QED BY <1>1, <1>2, <1>4, <2>1, <2>2, <2>3, ReturnPromise
<1> QED BY <1>5, <1>6, <1>7 DEF SearchMiss

LEMMA SearchHitPromise ==
    ASSUME Promise, NEW t \in Threads, SearchHit(t)
    PROVE  Promise'
<1> DEFINE found == search_bucket(table, Target(t), th[t].call.key)
<1> DEFINE n == CHOOSE n \in found : TRUE
<1>1. /\ th[t].pc = "search" /\ th[t].call.op # "defragment" /\ UNCHANGED <<table, other, up>> /\ Inv'
      /\ found # {}
  BY SearchHitStep DEF SearchHit, env, Promise
<1>2. /\ CallerOK(th[t], table) /\ ThreadType(th[t]) /\ up /\ acc[t] = NoAccessor
      /\ Target(t) = Head(th[t].path)
  BY <1>1, SearchFacts
<1>3. th[t].call.ret = "pending" /\ Asked(th[t].call)
  BY <1>1, <1>2 DEF CallerOK, AnswerOK, Seeking
<1>4. Signed(th[t]) = 0
  BY <1>1 DEF Signed
<1>5. CASE th[t].call.mode = "none" /\ Return(t, Answered(th[t], th[t].call.op = "count"))
  <2> DEFINE q == Answered(th[t], th[t].call.op = "count")
  <2> DEFINE c == q.call
  <2>0. q = Replied(th[t], IF th[t].call.op = "count" THEN "true" ELSE "false")
    BY DEF Answered, Replied
  <2> HIDE DEF q
  <2>1. c \in Call /\ c.op = th[t].call.op /\ c.mode = th[t].call.mode /\ c.ret # "pending"
    <3>1. CASE th[t].call.op = "count"
      <4>1. q = Replied(th[t], "true")
        BY <2>0, <3>1
      <4> QED BY <1>2, <4>1, AnsweredCall
    <3>2. CASE th[t].call.op # "count"
      <4>1. q = Replied(th[t], "false")
        BY <2>0, <3>2
      <4> QED BY <1>2, <4>1, AnsweredCall
    <3> QED BY <3>1, <3>2
  <2>2. th' = [th EXCEPT ![t] = AfterCall(c)] /\ UNCHANGED acc
    BY <1>3, <1>5, <2>1 DEF Return, Asked, q
  <2> HIDE DEF c
  <2>3. Asked(c)
    BY <1>3, <2>1 DEF Asked
  <2> QED BY <1>1, <1>2, <1>4, <2>1, <2>2, <2>3, ReturnPromise
<1>6. CASE /\ ~(th[t].call.mode = "none" /\ th[t].call.op # "erase") /\ UNCHANGED acc
           /\ th' = [th EXCEPT ![t].pc = "item", ![t].id = n.id]
  <2> DEFINE r == [th[t] EXCEPT !.pc = "item", !.id = n.id]
  <2>1. n \in table.node_list[Head(th[t].path)] /\ n.key = th[t].call.key
    <3>1. n \in found
      BY <1>1
    <3> QED BY <3>1, <1>2 DEF search_bucket
  <2> HIDE DEF n, found
  <2>2. th' = [th EXCEPT ![t] = r]
    BY <1>6 DEF Promise, Inv
  <2>3. r.pc = "item" /\ r.call = th[t].call /\ r.path = th[t].path /\ r.id = n.id
    BY <1>2 DEF ThreadType
  <2> HIDE DEF r
  <2>4. r.pc \notin Seeking /\ ~Adding(r) /\ ~Owns(r) /\ Signed(r) = 0
    BY <1>3, <2>3 DEF Seeking, Descending, Rehashing, Adding, Owns, Signed
  <2>5. Filling(r, table)
    BY <1>1, <1>2, <2>3 DEF CallerOK, Filling, InTable, Working
  <2>6. ItemKey(r, table)
    BY <2>1, <2>3 DEF ItemKey
  <2>7. AnswerOK(r)
    BY <1>3, <1>6, <2>3, <2>4 DEF AnswerOK
  <2>8. CallerOK(r, table)
    BY <1>3, <2>3, <2>4, <2>5, <2>6, <2>7 DEF CallerOK, MaskOK, Fresh, Taken
  <2>9. AccessorOK(acc[t], r, table)
    BY <1>2, <2>3 DEF AccessorOK
  <2> QED BY <1>1, <1>2, <1>4, <1>6, <2>2, <2>4, <2>8, <2>9, LocalStep
<1> QED BY <1>5, <1>6 DEF SearchHit

\* Nothing of the table but what the threads counted.
LEMMA TlsStep ==
    ASSUME NEW tab, TableOK(tab), Placed(tab), NEW e, TlsOK(e), Total(e) = Total(tab.tls), NEW new,
           new = [tab EXCEPT !.tls = e], TableOK(new), NEW ws, NEW added, NEW gone
    PROVE  /\ Placed(new) /\ Evolves(tab, new, ws, added, gone)
           /\ Sized(tab) => Sized(new)
           /\ Counted(tab) => Counted(new)
           /\ new.my_mask = tab.my_mask /\ new.my_size = tab.my_size /\ new.consistent = tab.consistent
           /\ new.node_list = tab.node_list /\ NodesIn(new) = NodesIn(tab)
           /\ \A c \in Buckets : Reached(new, c) <=> Reached(tab, c)
<1>1. /\ new.my_mask = tab.my_mask /\ new.my_size = tab.my_size /\ new.consistent = tab.consistent
      /\ new.node_list = tab.node_list /\ new.rehashed = tab.rehashed /\ new.tls = e
      /\ new.on_init_size = tab.on_init_size
  BY DEF TableOK, TableType
<1>2. tab.my_mask <= new.my_mask
  BY <1>1, TableFacts
<1>3. Placed(new) /\ NodesIn(new) = NodesIn(tab)
  BY <1>1, <1>2, SamePlaced
<1>4. Evolves(tab, new, ws, added, gone)
  BY <1>1, <1>2, EvolvesSame
<1>5. (Sized(tab) => Sized(new)) /\ (Counted(tab) => Counted(new))
  BY <1>1, <1>3 DEF Sized, Counted
<1> QED BY <1>1, <1>3, <1>4, <1>5 DEF Reached

\* A thread that is about to change the table goes on to the next step.
LEMMA ChangingStep ==
    ASSUME Promise, Inv', NEW t \in Threads, th[t].pc \in {"local", "cache"}, NEW pc,
           pc \in {"cache", ChangePc(th[t].call.op)},
           th' = [th EXCEPT ![t].pc = pc], UNCHANGED <<acc, other, up>>,
           NEW e, TlsOK(e), Total(e) = Total(table.tls), table' = [table EXCEPT !.tls = e]
    PROVE  Promise'
<1> DEFINE r == [th[t] EXCEPT !.pc = pc]
<1>1. th' = [th EXCEPT ![t] = r]
  OBVIOUS
<1>2. /\ ThreadOK(t, th[t], table) /\ ThreadType(th[t]) /\ CallerOK(th[t], table)
      /\ CallOK(th[t]) /\ th[t].pc \in InTable
  BY DEF Promise, CallersOK, Inv, ThreadsOK, ThreadOK, InTable, Working, Changing
<1>3. up /\ acc[t] = NoAccessor
  BY <1>2, InCall
<1>4. r.pc = pc /\ r.call = th[t].call /\ r.path = th[t].path /\ r.id = th[t].id
  BY <1>2 DEF ThreadType
<1> HIDE DEF r
<1>5. /\ r.pc \in {"cache", "insert", "erase"} /\ th[t].call.op \in {"insert", "insert_or_assign", "erase"}
      /\ r.pc = "insert" => th[t].call.op # "erase"
      /\ r.pc = "erase" => th[t].call.op = "erase"
  BY <1>2, <1>4 DEF ChangePc, CallOK
<1>6. /\ r.pc \notin Seeking /\ (Adding(r) <=> Adding(th[t])) /\ (HasItem(r) <=> HasItem(th[t]))
      /\ Owns(r) => Owns(th[t]) /\ r.id = th[t].id
      /\ Signed(r) = 0 /\ Signed(th[t]) = 0 /\ th[t].pc # "mark" /\ r.pc \in InTable
  BY <1>4, <1>5 DEF Seeking, Descending, Rehashing, Adding, HasItem, Owns, Signed, InTable, Working, Changing
<1>7. TableOK(table) /\ Placed(table) /\ TableOK(table')
  BY DEF Promise, Inv
<1>8. /\ Placed(table') /\ Evolves(table, table', Written(t), Added(th[t]), Gone(th[t]))
      /\ Sized(table) => Sized(table')
      /\ Counted(table) => Counted(table')
      /\ (table').my_mask = table.my_mask /\ (table').my_size = table.my_size /\ (table').consistent = table.consistent
      /\ (table').node_list = table.node_list /\ NodesIn(table') = NodesIn(table)
      /\ \A c \in Buckets : Reached(table', c) <=> Reached(table, c)
  BY <1>7, TlsStep
<1>9. CallerOK(r, table')
  <2>1. Fresh(r, table')
    BY <1>2, <1>4, <1>6, <1>8 DEF CallerOK, Fresh, Absent
  <2>2. Filling(r, table')
    <3>1. \A i \in 1 .. (Len(th[t].path) - 1) :
            th[t].path[i] \in Buckets /\ ~Reached(table, th[t].path[i])
      BY <1>2, Waiting
    <3> QED BY <1>4, <1>5, <1>8, <3>1 DEF Filling
  <2>3. ItemKey(r, table')
    BY <1>2, <1>4, <1>6, <1>8 DEF CallerOK, ItemKey
  <2>4. AnswerOK(r)
    BY <1>2, <1>4, <1>5, <1>6 DEF CallerOK, AnswerOK
  <2>5. Asked(r.call) /\ MaskOK(r, table') /\ Taken(r, table')
    BY <1>2, <1>4, <1>5, <1>6 DEF CallerOK, MaskOK, Taken
  <2> QED BY <2>1, <2>2, <2>3, <2>4, <2>5 DEF CallerOK
<1>10. AccessorOK(acc[t], r, table')
  BY <1>3, <1>5 DEF AccessorOK
<1>11. Sized(table') /\ Counted(table')
  BY <1>3, <1>8, TableCounts
<1>12. Cardinality(NodesIn(table')) = Cardinality(NodesIn(table))
  BY <1>8
<1> QED BY <1>1, <1>3, <1>6, <1>8, <1>9, <1>10, <1>11, <1>12, QuietStep

LEMMA LocalSizeDiffPromise ==
    ASSUME Promise, NEW t \in Threads, LocalSizeDiff(t)
    PROVE  Promise'
<1>1. th[t].pc = "local" /\ UNCHANGED <<acc, other, up>> /\ Inv' /\ TableOK(table) /\ TlsOK(table.tls) /\ t \in Nat
  BY LocalSizeDiffStep, ThreadAssumption, TableFacts DEF LocalSizeDiff, env, Promise, Inv
<1>2. CASE th' = [th EXCEPT ![t].pc = ChangePc(th[t].call.op)] /\ UNCHANGED table
  <2> DEFINE e == table.tls
  <2>1. table' = [table EXCEPT !.tls = e]
    BY <1>1, <1>2 DEF TableOK, TableType
  <2>2. TlsOK(e) /\ Total(e) = Total(table.tls)
    BY <1>1
  <2> HIDE DEF e
  <2> QED BY <1>1, <1>2, <2>1, <2>2, ChangingStep
<1>3. CASE th' = [th EXCEPT ![t].pc = "cache"] /\ table' = [table EXCEPT !.tls = resize(@, t)]
  <2>1. TlsOK(resize(table.tls, t)) /\ Total(resize(table.tls, t)) = Total(table.tls)
    BY <1>1, ResizeOK, TotalResize
  <2> QED BY <1>1, <1>3, <2>1, ChangingStep
<1> QED BY <1>2, <1>3 DEF LocalSizeDiff

LEMMA CacheTlsSizePromise ==
    ASSUME Promise, NEW t \in Threads, CacheTlsSize(t)
    PROVE  Promise'
<1>1. /\ th[t].pc = "cache" /\ UNCHANGED <<acc, other, up>> /\ Inv' /\ TlsOK(table.tls)
      /\ th' = [th EXCEPT ![t].pc = ChangePc(th[t].call.op)]
      /\ table' = [table EXCEPT !.tls = set_cached_size(@)]
  BY CacheTlsSizeStep, TableFacts DEF CacheTlsSize, env, Promise, Inv
<1>2. TlsOK(set_cached_size(table.tls)) /\ Total(set_cached_size(table.tls)) = Total(table.tls)
  BY <1>1, CacheOK, TotalCached
<1> QED BY <1>1, <1>2, ChangingStep

-----------------------------------------------------------------------------
(* Steps that change an accessor or a size *)

LEMMA StepPromise ==
    ASSUME Promise, Inv', up, NEW t \in Threads, NEW r, th' = [th EXCEPT ![t] = r],
           NEW a, acc' = [acc EXCEPT ![t] = a], UNCHANGED <<other, up>>,
           Placed(table'), Evolves(table, table', Written(t), Added(th[t]), Gone(th[t])),
           Sized(table'), Counted(table'), (table').consistent = table.consistent,
           (table').my_size + Signed(r) + Cardinality(NodesIn(table))
                = table.my_size + Signed(th[t]) + Cardinality(NodesIn(table')),
           CallerOK(r, table'), th[t].pc # "mark", r.pc \notin Seeking,
           \A c \in Buckets : Reached(table', c) => Reached(table, c),
           AccessorOK(a, r, table'),
           a # NoAccessor => \/ a = acc[t]
                             \/ HasItem(th[t]) /\ a.id = th[t].id /\ ItemFree(a.id, a.mode),
           Owns(r) => \/ Owns(th[t]) /\ r.id = th[t].id /\ a = acc[t]
                      \/ r.id # a.id /\ \A u \in Threads : acc[u].id # r.id
    PROVE  Promise'
<1>1. TableOK(table')
  BY DEF Inv
<1>2. AccessorsOK' /\ Accessed' /\ Owned'
  BY AccessorsStep
<1>3. CallersOK'
  BY <1>1, CallersStep
<1>4. Marking'
  BY <1>1, MarkingStep
<1>5. SizesOK'
  BY SizesStep
<1>6. Placed(other)'
  BY DEF Promise, Placed, Located, InRange, KeysDiffer, Reached
<1> QED BY <1>2, <1>3, <1>4, <1>5, <1>6 DEF Promise

\* The same when the table does not change.
LEMMA GrantPromise ==
    ASSUME Promise, Inv', up, NEW t \in Threads, NEW r, th' = [th EXCEPT ![t] = r],
           NEW a, acc' = [acc EXCEPT ![t] = a], UNCHANGED <<table, other, up>>,
           Signed(r) = Signed(th[t]),
           CallerOK(r, table), th[t].pc # "mark", r.pc \notin Seeking,
           AccessorOK(a, r, table),
           a # NoAccessor => \/ a = acc[t]
                             \/ HasItem(th[t]) /\ a.id = th[t].id /\ ItemFree(a.id, a.mode),
           Owns(r) => \/ Owns(th[t]) /\ r.id = th[t].id /\ a = acc[t]
                      \/ r.id # a.id /\ \A u \in Threads : acc[u].id # r.id
    PROVE  Promise'
<1>1. /\ Placed(table') /\ Evolves(table, table', Written(t), Added(th[t]), Gone(th[t]))
      /\ Sized(table') /\ Counted(table') /\ (table').consistent = table.consistent
      /\ (table').my_size = table.my_size
      /\ NodesIn(table') = NodesIn(table)
      /\ \A c \in Buckets : ~(Reached(table', c) /\ ~Reached(table, c))
  BY TableStays
<1>2. (table').my_size + Signed(r) + Cardinality(NodesIn(table))
            = table.my_size + Signed(th[t]) + Cardinality(NodesIn(table'))
  BY <1>1
<1>3. CallerOK(r, table') /\ AccessorOK(a, r, table')
  OBVIOUS
<1> HIDE DEF Signed
<1> QED BY <1>1, <1>2, <1>3, StepPromise

\* What is left of the accessor when a call returns.
Kept(call, a) == IF call.op = "insert_or_assign" THEN NoAccessor ELSE a

LEMMA ReturnIs ==
    ASSUME Inv, NEW t \in Threads, NEW q, Return(t, q)
    PROVE  /\ th' = [th EXCEPT ![t] = AfterCall(q.call)]
           /\ acc' = [acc EXCEPT ![t] = Kept(q.call, acc[t])]
BY DEF Return, Kept, Inv

\* A call that has taken effect returns.
LEMMA DonePromise ==
    ASSUME Promise, Inv', up, NEW t \in Threads, th[t].pc \in {"uncount", "grow", "publish", "assign", "defrag"},
           NEW call \in Call, call.op = th[t].call.op, call.key = th[t].call.key, call.mode = th[t].call.mode,
           call.ret # "pending",
           th' = [th EXCEPT ![t] = AfterCall(call)],
           acc' = [acc EXCEPT ![t] = Kept(call, acc[t])], UNCHANGED <<other, up>>,
           Placed(table'), Evolves(table, table', Written(t), {}, {}),
           Sized(table'), Counted(table'), (table').consistent = table.consistent,
           (table').my_size + Cardinality(NodesIn(table))
                = table.my_size + Signed(th[t]) + Cardinality(NodesIn(table')),
           \A c \in Buckets : Reached(table', c) => Reached(table, c)
    PROVE  Promise'
<1> DEFINE r == AfterCall(call)
<1> DEFINE a == Kept(call, acc[t])
<1>1. /\ CallerOK(th[t], table) /\ AccessorOK(acc[t], th[t], table)
  BY DEF Promise, CallersOK, AccessorsOK
<1>2. Asked(call)
  BY <1>1 DEF CallerOK, Asked
<1>3. /\ CallerOK(r, table') /\ r.pc = "idle" /\ r.call = call /\ ~Owns(r) /\ Signed(r) = 0
      /\ r.pc \notin Seeking /\ r.pc \notin InTable \cup {"defrag"}
  BY <1>2, IdleCaller
<1>4. Added(th[t]) = {} /\ Gone(th[t]) = {}
  BY DEF Added, Gone
<1>5. AccessorOK(a, r, table')
  <2>1. SUFFICES ASSUME a # NoAccessor PROVE HoldsItem(a, r, table')
    BY <1>3 DEF AccessorOK
  <2>2. a = acc[t] /\ call.op # "insert_or_assign" /\ HoldsItem(acc[t], th[t], table)
    BY <1>1, <2>1 DEF Kept, AccessorOK
  <2>3. \E m \in NodesIn(table') : m.id = acc[t].id /\ m.key = call.key
    BY <2>2 DEF Evolves, HoldsItem
  <2> QED BY <1>3, <2>2, <2>3 DEF HoldsItem
<1>6. a # NoAccessor => a = acc[t]
  BY DEF Kept
<1>7. th' = [th EXCEPT ![t] = r] /\ acc' = [acc EXCEPT ![t] = a]
  OBVIOUS
<1> HIDE DEF a, r, Signed
<1>8. (table').my_size + Signed(r) + Cardinality(NodesIn(table))
            = table.my_size + Signed(th[t]) + Cardinality(NodesIn(table'))
  <2>1. Sized(table')
    OBVIOUS
  <2>2. (table').my_size + Signed(r) = (table').my_size
    BY <1>3, <2>1, SizedNumbers
  <2> QED BY <2>2
<1> QED BY <1>3, <1>4, <1>5, <1>6, <1>7, <1>8, StepPromise

LEMMA TryItemPromise ==
    ASSUME Promise, NEW t \in Threads, TryItem(t)
    PROVE  Promise'
<1> DEFINE mode == IF th[t].call.op = "erase" THEN "write" ELSE th[t].call.mode
<1>1. th[t].pc = "item" /\ UNCHANGED <<table, other, up>> /\ Inv' /\ HasItem(th[t])
  BY TryItemStep DEF TryItem, env, Promise, HasItem
<1>2. CallOK(th[t]) /\ th[t].call.op # "defragment"
  BY <1>1 DEF Promise, Inv, ThreadsOK, ThreadOK, CallOK
<1>3. /\ CallerOK(th[t], table) /\ ThreadType(th[t]) /\ up /\ acc[t] = NoAccessor
  BY <1>1, <1>2, SearchFacts
<1>4. Asked(th[t].call) /\ AnswerOK(th[t]) /\ Signed(th[t]) = 0 /\ th[t].pc # "mark"
  BY <1>1, <1>3 DEF CallerOK, Signed
<1>5. CASE ~ItemFree(th[t].id, mode) /\ Retry(t) /\ UNCHANGED acc
  <2>1. ~Owns(th[t])
    BY <1>5 DEF Promise, Owned, ItemFree
  <2>2. th[t].call.ret = "pending"
    BY <1>1, <1>4, <2>1 DEF AnswerOK, Owns
  <2> QED BY <1>1, <1>2, <1>5, <2>2, RetryPromise
<1>6. CASE /\ ItemFree(th[t].id, mode) /\ th[t].call.op = "erase"
           /\ th' = [th EXCEPT ![t].pc = "local"] /\ UNCHANGED acc
  <2> DEFINE r == [th[t] EXCEPT !.pc = "local"]
  <2>1. th' = [th EXCEPT ![t] = r]
    BY <1>6
  <2>2. r.pc = "local" /\ r.call = th[t].call /\ r.path = th[t].path /\ r.id = th[t].id
    BY <1>3 DEF ThreadType
  <2> HIDE DEF r
  <2>3. r.pc \notin Seeking /\ ~Adding(r) /\ HasItem(r) /\ Signed(r) = 0
    BY <1>6, <2>2 DEF Seeking, Descending, Rehashing, HasItem, Adding, Signed
  <2>4. \A u \in Threads : acc[u].id # r.id
    BY <1>6, <2>2 DEF ItemFree, Compatible
  <2>5. ItemKey(r, table)
    BY <1>1, <1>3, <2>2 DEF CallerOK, ItemKey
  <2>6. Filling(r, table)
    BY <1>1, <1>3, <2>2 DEF CallerOK, Filling, InTable, Working
  <2>7. AnswerOK(r)
    BY <1>1, <1>4, <1>6, <2>2, <2>3 DEF AnswerOK
  <2>8. CallerOK(r, table)
    BY <1>4, <2>2, <2>3, <2>5, <2>6, <2>7 DEF CallerOK, MaskOK, Fresh, Taken
  <2>9. AccessorOK(acc[t], r, table)
    BY <1>3, <2>2 DEF AccessorOK
  <2> QED BY <1>1, <1>3, <1>4, <1>6, <2>1, <2>3, <2>4, <2>8, <2>9, LocalStep
<1>7. ASSUME ItemFree(th[t].id, mode), th[t].call.op # "erase", NEW r,
             acc' = [acc EXCEPT ![t] = [id |-> th[t].id, mode |-> mode]], th' = [th EXCEPT ![t] = r],
             r.call.op = th[t].call.op, r.call.mode = th[t].call.mode, r.call.key = th[t].call.key,
             r.pc \in {"grow", "assign", "idle"},
             r.pc = "idle" => r.call.ret # "pending" /\ r.call.op # "insert_or_assign",
             r.pc = "assign" => r.call.ret = "pending",
             r.pc = "grow" => r.call.ret = "true" /\ r.call.op \in {"insert", "insert_or_assign"}
      PROVE  Promise'
  <2> DEFINE a == [id |-> th[t].id, mode |-> mode]
  <2>1. a.id = th[t].id /\ a.mode = th[t].call.mode /\ a.mode # "none" /\ a # NoAccessor
    BY <1>1, <1>4, <1>7 DEF AnswerOK, NoAccessor
  <2>2. /\ r.pc \notin Seeking /\ ~Adding(r) /\ ~HasItem(r) /\ ~Owns(r) /\ Signed(r) = 0
        /\ r.pc \notin InTable \cup {"defrag"}
    BY <1>7 DEF Seeking, Descending, Rehashing, HasItem, Adding, Signed, Owns, InTable, Working, Changing
  <2>3. CallerOK(r, table)
    <3>1. AnswerOK(r)
      BY <1>7, <2>2 DEF AnswerOK
    <3>2. Asked(r.call)
      BY <1>4, <1>7 DEF Asked
    <3> QED BY <2>2, <3>1, <3>2, <1>7 DEF CallerOK, MaskOK, Fresh, Taken, Filling, ItemKey
  <2>4. \E n \in NodesIn(table) : n.id = th[t].id /\ n.key = th[t].call.key
    <3>1. /\ Head(th[t].path) \in Buckets
          /\ \E n \in table.node_list[Head(th[t].path)] : n.id = th[t].id /\ n.key = th[t].call.key
      BY <1>1, ItemFacts
    <3> QED BY <3>1 DEF NodesIn
  <2>5. th[t].call.op \in {"find", "insert", "insert_or_assign"}
    <3>1. th[t].call \in Call /\ th[t].call.op # "none" /\ th[t].call.op # "count"
      BY <1>1, <1>3, <1>4, <1>7, <2>1 DEF ThreadType, Asked
    <3>2. th[t].call.op \in {"count", "find", "insert", "insert_or_assign", "erase", "none", "defragment"}
      BY <3>1 DEF Call, Keyed_ops
    <3> QED BY <3>1, <3>2, <1>2, <1>7
  <2>6. AccessorOK(a, r, table)
    BY <1>7, <2>1, <2>2, <2>4, <2>5 DEF AccessorOK, HoldsItem
  <2>7. acc' = [acc EXCEPT ![t] = a] /\ ItemFree(a.id, a.mode)
    BY <1>7, <2>1
  <2> HIDE DEF a
  <2> QED BY <1>1, <1>3, <1>4, <1>7, <2>1, <2>2, <2>3, <2>6, <2>7, GrantPromise
<1>8. CASE /\ ItemFree(th[t].id, mode) /\ th[t].call.op # "erase"
           /\ acc' = [acc EXCEPT ![t] = [id |-> th[t].id, mode |-> mode]]
           /\ th' = [th EXCEPT ![t] =
                IF th[t].call.ret = "true" THEN [[th[t] EXCEPT !.locks = {}] EXCEPT !.pc = "grow"]
                ELSE IF th[t].call.op = "insert_or_assign" THEN [[th[t] EXCEPT !.locks = {}] EXCEPT !.pc = "assign"]
                ELSE AfterCall(Answered(th[t], th[t].call.op = "find").call)]
  <2> HIDE DEF mode
  <2>1. CASE th[t].call.ret = "true"
    <3> DEFINE r == [[th[t] EXCEPT !.locks = {}] EXCEPT !.pc = "grow"]
    <3>1. th' = [th EXCEPT ![t] = r]
      BY <1>8, <2>1
    <3>2. r.pc = "grow" /\ r.call = th[t].call
      BY <1>3 DEF ThreadType
    <3>3. th[t].call.op \in {"insert", "insert_or_assign"}
      BY <1>1, <1>4, <2>1 DEF AnswerOK
    <3> HIDE DEF r
    <3> QED BY <1>7, <1>8, <2>1, <3>1, <3>2, <3>3
  <2>2. CASE th[t].call.ret # "true" /\ th[t].call.op = "insert_or_assign"
    <3> DEFINE r == [[th[t] EXCEPT !.locks = {}] EXCEPT !.pc = "assign"]
    <3>1. th' = [th EXCEPT ![t] = r]
      BY <1>8, <2>2
    <3>2. r.pc = "assign" /\ r.call = th[t].call
      BY <1>3 DEF ThreadType
    <3>3. th[t].call.ret = "pending"
      BY <1>1, <1>4, <2>2 DEF AnswerOK
    <3> HIDE DEF r
    <3> QED BY <1>7, <1>8, <2>2, <3>1, <3>2, <3>3
  <2>3. CASE th[t].call.ret # "true" /\ th[t].call.op # "insert_or_assign"
    <3> DEFINE q == Answered(th[t], th[t].call.op = "find")
    <3> DEFINE r == AfterCall(q.call)
    <3>1. th' = [th EXCEPT ![t] = r]
      BY <1>8, <2>3
    <3>2. q.call.op = th[t].call.op /\ q.call.key = th[t].call.key /\ q.call.mode = th[t].call.mode
          /\ q.call.ret # "pending"
      <4>1. \/ q = Replied(th[t], "true")
            \/ q = Replied(th[t], "false")
        BY DEF Answered, Replied
      <4> HIDE DEF q
      <4>2. CASE q = Replied(th[t], "true")
        BY <1>3, <4>2, AnsweredCall
      <4>3. CASE q = Replied(th[t], "false")
        BY <1>3, <4>3, AnsweredCall
      <4> QED BY <4>1, <4>2, <4>3
    <3> HIDE DEF q
    <3>3. r.pc = "idle" /\ r.call = q.call
      BY DEF AfterCall
    <3> HIDE DEF r
    <3> QED BY <1>7, <1>8, <2>3, <3>1, <3>2, <3>3
  <2> QED BY <2>1, <2>2, <2>3
<1> QED BY <1>5, <1>6, <1>8 DEF TryItem

-----------------------------------------------------------------------------
(* The transactions that change an element, and what is counted after them *)

\* One list gets a node, or loses it.
Linked(tab, new, b, n) ==
    /\ \A c \in Buckets : new.node_list[c] = IF c = b THEN tab.node_list[c] \cup {n} ELSE tab.node_list[c]
    /\ new.rehashed = tab.rehashed /\ new.my_mask = tab.my_mask
    /\ NodesIn(new) = NodesIn(tab) \cup {n}
Unlinked(tab, new, b, id) ==
    /\ \A c \in Buckets : new.node_list[c] =
            IF c = b THEN {m \in tab.node_list[b] : m.id # id} ELSE tab.node_list[c]
    /\ new.rehashed = tab.rehashed /\ new.my_mask = tab.my_mask

LEMMA InsertLinks ==
    ASSUME NEW tab, TableOK(tab), NEW b \in Buckets, NEW n
    PROVE  Linked(tab, insert_new_node_internal(tab, b, n), b, n)
  BY InsertFields DEF Linked

LEMMA DeleteUnlinks ==
    ASSUME NEW tab, TableOK(tab), NEW b \in Buckets, NEW id
    PROVE  Unlinked(tab, delete_node(tab, b, id), b, id)
  BY DeleteFields DEF Unlinked

\* Nothing but lists changes.
ListsOnly(tab, new) ==
    /\ new.rehashed = tab.rehashed /\ new.my_mask = tab.my_mask /\ new.tls = tab.tls
    /\ new.my_size = tab.my_size /\ new.on_init_size = tab.on_init_size
    /\ new.consistent = tab.consistent

LEMMA ListsOnlyFacts ==
    ASSUME NEW tab, TableOK(tab)
    PROVE  /\ \A b, n : ListsOnly(tab, insert_new_node_internal(tab, b, n))
           /\ \A b, id : ListsOnly(tab, delete_node(tab, b, id))
           /\ \A id, v : ListsOnly(tab, StoreValue(tab, id, v))
<1>1. ASSUME NEW b, NEW n PROVE ListsOnly(tab, insert_new_node_internal(tab, b, n))
  BY DEF ListsOnly, insert_new_node_internal, TableOK, TableType
<1>2. ASSUME NEW b, NEW id PROVE ListsOnly(tab, delete_node(tab, b, id))
  BY DEF ListsOnly, delete_node, TableOK, TableType
<1>3. ASSUME NEW id, NEW v PROVE ListsOnly(tab, StoreValue(tab, id, v))
  BY DEF ListsOnly, StoreValue, TableOK, TableType
<1> QED BY <1>1, <1>2, <1>3

\* What a thread counts in the same transaction.
LEMMA CountedToo ==
    ASSUME NEW tab, TableOK(tab), NEW e, NEW new, new = [tab EXCEPT !.tls = e]
    PROVE  /\ new.node_list = tab.node_list /\ new.rehashed = tab.rehashed /\ new.my_mask = tab.my_mask
           /\ new.my_size = tab.my_size /\ new.on_init_size = tab.on_init_size
           /\ new.consistent = tab.consistent /\ new.tls = e /\ NodesIn(new) = NodesIn(tab)
<1>1. /\ new.node_list = tab.node_list /\ new.rehashed = tab.rehashed /\ new.my_mask = tab.my_mask
      /\ new.my_size = tab.my_size /\ new.on_init_size = tab.on_init_size
      /\ new.consistent = tab.consistent /\ new.tls = e
  BY DEF TableOK, TableType
<1> QED BY <1>1 DEF NodesIn

\* A thread in its bucket.
LEMMA ChangingFacts ==
    ASSUME Promise, NEW t \in Threads, th[t].pc \in {"insert", "erase", "count", "uncount"}
    PROVE  /\ ThreadOK(t, th[t], table) /\ ThreadType(th[t]) /\ CallerOK(th[t], table) /\ CallOK(th[t])
           /\ up /\ acc[t] = NoAccessor /\ th[t].pc \in InTable
           /\ Target(t) = Head(th[t].path) /\ Target(t) \in Buckets /\ Target(t) \in Written(t)
           /\ TableOK(table) /\ Placed(table) /\ TlsOK(table.tls)
           /\ t \in Nat /\ (th[t].pc \in {"insert", "erase"} => t < Len(table.tls.storage))
<1>1. th[t].pc \in InTable /\ th[t].pc \in Working
  BY DEF InTable, Working, Changing
<1>2. /\ ThreadOK(t, th[t], table) /\ ThreadType(th[t]) /\ CallerOK(th[t], table) /\ CallOK(th[t])
      /\ TableOK(table) /\ Placed(table)
  BY DEF Promise, CallersOK, Inv, ThreadsOK, ThreadOK
<1>3. up /\ acc[t] = NoAccessor
  BY <1>1, InCall
<1>4. Head(th[t].path) = TopOf(th[t]) /\ Head(th[t].path) \in Buckets
  BY <1>1, <1>2, WorkingBucket
<1>5. Writes(th[t], TopOf(th[t]))
  BY <1>1, <1>2 DEF ThreadOK, LocksHeld, CallOK
<1>6. TlsOK(table.tls) /\ t \in Nat
  BY <1>2, TableFacts, ThreadAssumption
<1>7. th[t].pc \in {"insert", "erase"} => t < Len(table.tls.storage)
  BY <1>2 DEF ThreadOK
<1> QED BY <1>1, <1>2, <1>3, <1>4, <1>5, <1>6, <1>7 DEF Target, Written

\* What the rest of the project needs to know of the node that is inserted.
LEMMA NewNode ==
    ASSUME Promise, NEW t \in Threads, th[t].pc = "insert", FreeIds # {}
    PROVE  LET n == [id |-> CHOOSE id \in FreeIds : TRUE, key |-> th[t].call.key, val |-> th[t].call.val]
           IN  /\ n \in Node /\ n.id \in FreeIds /\ n.key = th[t].call.key /\ n.val = th[t].call.val
               /\ n.id \in NodeIds /\ n.id # None
               /\ \A m \in NodesIn(table) : m.id # n.id
               /\ \A u \in Threads : acc[u].id # n.id
<1> DEFINE id == CHOOSE i \in FreeIds : TRUE
<1> DEFINE n == [id |-> id, key |-> th[t].call.key, val |-> th[t].call.val]
<1>1. id \in FreeIds
  OBVIOUS
<1> HIDE DEF id
<1>2. id \in NodeIds /\ id # None /\ \A m \in NodesIn(table) : m.id # id
  BY <1>1, NodeIdAssumption DEF FreeIds, UsedIds
<1>3. th[t].call.key \in Keys /\ th[t].call.val \in Values
  <2>1. th[t].call.key \in Keys
    BY AddingFacts DEF Adding
  <2>2. CallOK(th[t])
    BY ChangingFacts
  <2> QED BY <2>1, <2>2 DEF CallOK
<1>4. n \in Node /\ n.id = id /\ n.key = th[t].call.key /\ n.val = th[t].call.val
  BY <1>2, <1>3 DEF Node
<1>5. ASSUME NEW u \in Threads PROVE acc[u].id # id
  <2>1. CASE acc[u] = NoAccessor
    BY <2>1, <1>2 DEF NoAccessor
  <2>2. CASE acc[u] # NoAccessor
    BY <2>2, <1>2, HeldIds
  <2> QED BY <2>1, <2>2
<1> QED BY <1>1, <1>2, <1>4, <1>5 DEF id

LEMMA InsertTable ==
    ASSUME Promise, NEW t \in Threads, InsertNode(t)
    PROVE  \E n \in Node :
            /\ n.key = th[t].call.key /\ n.val = th[t].call.val /\ n.id \in NodeIds /\ n.id # None
            /\ \A u \in Threads : acc[u].id # n.id
            /\ n \notin NodesIn(table) /\ NodesIn(table') = NodesIn(table) \cup {n}
            /\ (table').node_list[Target(t)] = table.node_list[Target(t)] \cup {n}
            /\ \A c \in Buckets \ {Target(t)} : (table').node_list[c] = table.node_list[c]
            /\ (table').rehashed = table.rehashed /\ (table').my_mask = table.my_mask
            /\ (table').my_size = table.my_size /\ (table').on_init_size = table.on_init_size
            /\ (table').consistent = table.consistent /\ Total((table').tls) = Total(table.tls) + 1
            /\ Placed(table') /\ \A c \in Buckets : Reached(table', c) => Reached(table, c)
            /\ th' = [th EXCEPT ![t] = [[th[t] EXCEPT !.call.ret = "true"] EXCEPT !.pc = "count", !.id = n.id]]
<1> DEFINE b == Target(t)
<1> DEFINE n == [id |-> CHOOSE id \in FreeIds : TRUE, key |-> th[t].call.key, val |-> th[t].call.val]
<1> DEFINE new == insert_new_node_internal(table, b, n)
<1>1. th[t].pc = "insert" /\ FreeIds # {}
  BY DEF InsertNode
<1>2. table' = [new EXCEPT !.tls = Add(@, t, 1)]
  BY DEF InsertNode
<1>3. th' = [th EXCEPT ![t] = [[th[t] EXCEPT !.call.ret = "true"] EXCEPT !.pc = "count", !.id = n.id]]
  BY DEF InsertNode, Answered, Promise, Inv
<1>4. /\ n \in Node /\ n.key = th[t].call.key /\ n.val = th[t].call.val
      /\ n.id \in NodeIds /\ n.id # None
      /\ \A m \in NodesIn(table) : m.id # n.id
      /\ \A u \in Threads : acc[u].id # n.id
  BY <1>1, NewNode
<1>5. /\ b \in Buckets /\ TableOK(table) /\ Placed(table) /\ TlsOK(table.tls)
      /\ t \in Nat /\ t < Len(table.tls.storage) /\ b = Head(th[t].path)
  BY <1>1, ChangingFacts
<1>6. /\ b \in table.rehashed /\ OfChain(hasher[n.key], b) /\ Absent(table, b, n.key)
  BY <1>1, <1>4, <1>5, AddingFacts DEF Adding
<1> HIDE DEF n, b
<1>7. /\ \A c \in Buckets : new.node_list[c] = IF c = b THEN table.node_list[c] \cup {n} ELSE table.node_list[c]
      /\ new.rehashed = table.rehashed /\ new.my_mask = table.my_mask
      /\ NodesIn(new) = NodesIn(table) \cup {n}
  <2>1. Linked(table, new, b, n)
    BY <1>5, InsertLinks
  <2> HIDE DEF new
  <2> QED BY <2>1 DEF Linked
<1>8. /\ Placed(new) /\ n \notin NodesIn(table)
      /\ \A c \in Buckets : Reached(new, c) => Reached(table, c)
  BY <1>4, <1>5, <1>6, InsertPlaced
<1>9. TableOK(new)
  <2>1. \A c \in Buckets : n.id \notin IdsOf(table, c)
    BY <1>4 DEF IdsOf, NodesIn
  <2>2. Masked(hasher[n.key], OwnMask(b)) = b
    BY <1>6 DEF OfChain
  <2> QED BY <1>4, <1>5, <2>1, <2>2, InsertOK
<1>10. ListsOnly(table, new)
  BY <1>5, ListsOnlyFacts
<1> HIDE DEF new
<1>11. table' = [new EXCEPT !.tls = Add(table.tls, t, 1)]
  BY <1>2, <1>10 DEF ListsOnly
<1>12. Total(Add(table.tls, t, 1)) = Total(table.tls) + 1
  BY <1>5, TotalAdd
<1>13. /\ (table').node_list = new.node_list /\ (table').rehashed = new.rehashed /\ (table').my_mask = new.my_mask
       /\ (table').my_size = new.my_size /\ (table').on_init_size = new.on_init_size
       /\ (table').consistent = new.consistent /\ (table').tls = Add(table.tls, t, 1) /\ NodesIn(table') = NodesIn(new)
  BY <1>9, <1>11, CountedToo
<1>14. Placed(table')
  <2>1. new.my_mask <= (table').my_mask
    BY <1>9, <1>13, TableFacts
  <2>2. TableOK(table')
    BY InsertNodeStep DEF Promise, Inv
  <2> QED BY <1>8, <1>9, <1>13, <2>1, <2>2, SamePlaced
<1>15. \A c \in Buckets : Reached(table', c) => Reached(table, c)
  BY <1>8, <1>13 DEF Reached
<1> QED BY <1>3, <1>4, <1>5, <1>7, <1>8, <1>10, <1>12, <1>13, <1>14, <1>15 DEF ListsOnly, b

LEMMA InsertNodePromise ==
    ASSUME Promise, NEW t \in Threads, InsertNode(t)
    PROVE  Promise'
<1> DEFINE b == Target(t)
<1>1. th[t].pc = "insert" /\ UNCHANGED <<acc, other, up>> /\ Inv'
  BY InsertNodeStep DEF InsertNode, env, Promise
<1>2. /\ ThreadOK(t, th[t], table) /\ ThreadType(th[t]) /\ CallerOK(th[t], table) /\ CallOK(th[t])
      /\ up /\ acc[t] = NoAccessor /\ th[t].pc \in InTable
      /\ b = Head(th[t].path) /\ b \in Buckets /\ b \in Written(t) /\ TableOK(table)
  BY <1>1, ChangingFacts
<1>3. PICK n \in Node :
            /\ n.key = th[t].call.key /\ n.val = th[t].call.val /\ n.id \in NodeIds /\ n.id # None
            /\ \A u \in Threads : acc[u].id # n.id
            /\ n \notin NodesIn(table) /\ NodesIn(table') = NodesIn(table) \cup {n}
            /\ (table').node_list[b] = table.node_list[b] \cup {n}
            /\ \A c \in Buckets \ {b} : (table').node_list[c] = table.node_list[c]
            /\ (table').rehashed = table.rehashed /\ (table').my_mask = table.my_mask
            /\ (table').my_size = table.my_size /\ (table').on_init_size = table.on_init_size
            /\ (table').consistent = table.consistent /\ Total((table').tls) = Total(table.tls) + 1
            /\ Placed(table') /\ \A c \in Buckets : Reached(table', c) => Reached(table, c)
            /\ th' = [th EXCEPT ![t] = [[th[t] EXCEPT !.call.ret = "true"] EXCEPT !.pc = "count", !.id = n.id]]
  BY InsertTable
<1> DEFINE q == [th[t] EXCEPT !.call.ret = "true"]
<1> DEFINE r == [q EXCEPT !.pc = "count", !.id = n.id]
<1>4. /\ q.call.op = th[t].call.op /\ q.call.key = th[t].call.key /\ q.call.mode = th[t].call.mode
      /\ q.call.ret = "true" /\ q.path = th[t].path
  <2>1. q = Replied(th[t], "true")
    BY DEF Replied
  <2> HIDE DEF q
  <2> QED BY <1>2, <2>1, AnsweredCall
<1>5. th' = [th EXCEPT ![t] = r]
  BY <1>3
<1>6. r.pc = "count" /\ r.id = n.id /\ r.call = q.call /\ r.path = q.path
  BY <1>2 DEF ThreadType
<1> HIDE DEF q, r, b
<1>7. Sized(table) /\ Counted(table)
  BY <1>2, TableCounts
<1>8. Sized(table') /\ Counted(table') /\ Cardinality(NodesIn(table')) = Cardinality(NodesIn(table)) + 1
  <2>1. Cardinality(NodesIn(table')) = Cardinality(NodesIn(table)) + 1 /\ IsFiniteSet(NodesIn(table'))
    BY <1>3, <1>7, FS_AddElement DEF Sized
  <2>2. table.on_init_size \in Int /\ Total(table.tls) \in Int /\ Cardinality(NodesIn(table)) \in Nat
    BY <1>2, <1>7, SizedNumbers, TlsOfTable
  <2>3. table.on_init_size + Total(table.tls) = Cardinality(NodesIn(table))
    BY <1>7 DEF Counted
  <2>4. (table').on_init_size + Total((table').tls) = Cardinality(NodesIn(table'))
    <3>1. (table').on_init_size = table.on_init_size /\ Total((table').tls) = Total(table.tls) + 1
      BY <1>3
    <3>2. PICK x, y, z : x = table.on_init_size /\ y = Total(table.tls) /\ z = Cardinality(NodesIn(table))
      OBVIOUS
    <3>3. x \in Int /\ y \in Int /\ z \in Int /\ x + y = z
      BY <2>2, <2>3, <3>2
    <3>4. x + (y + 1) = z + 1
      BY <3>3
    <3> QED BY <2>1, <3>1, <3>2, <3>4
  <2>5. Sized(table')
    BY <1>3, <1>7, <2>1 DEF Sized
  <2> QED BY <2>1, <2>4, <2>5 DEF Counted
<1>9. Signed(r) = 1 /\ Signed(th[t]) = 0
  BY <1>1, <1>6 DEF Signed
<1>10. (table').my_size + Signed(r) + Cardinality(NodesIn(table))
            = table.my_size + Signed(th[t]) + Cardinality(NodesIn(table'))
  <2>1. table.my_size \in Int /\ Cardinality(NodesIn(table)) \in Nat /\ (table').my_size = table.my_size
    BY <1>3, <1>7, SizedNumbers
  <2>2. PICK x, y, z : x = table.my_size /\ y = Cardinality(NodesIn(table)) /\ z = Cardinality(NodesIn(table'))
    OBVIOUS
  <2>3. x \in Int /\ y \in Int /\ z = y + 1
    BY <2>1, <2>2, <1>8
  <2>4. x + 1 + y = x + 0 + z
    BY <2>3
  <2> QED BY <1>9, <2>1, <2>2, <2>4
<1>11. Evolves(table, table', Written(t), Added(th[t]), Gone(th[t]))
  <2>1. table.my_mask <= (table').my_mask
    BY <1>2, <1>3, TableFacts
  <2>2. \A c \in Buckets \ Written(t) : SameKeys(table.node_list[c], (table').node_list[c])
    BY <1>2, <1>3, SameKeysSame
  <2>3. Added(th[t]) = {n.key}
    BY <1>1, <1>3 DEF Added
  <2> QED BY <1>3, <2>1, <2>2, <2>3 DEF Evolves
<1>12. CallerOK(r, table')
  <2>1. r.pc \notin Seeking /\ ~Adding(r)
    BY <1>6 DEF Seeking, Descending, Rehashing, Adding
  <2>2. AnswerOK(r)
    BY <1>4, <1>6, <2>1 DEF AnswerOK
  <2>3. Asked(r.call)
    BY <1>2, <1>4, <1>6 DEF CallerOK, Asked
  <2>4. ItemKey(r, table')
    BY <1>2, <1>3, <1>4, <1>6 DEF ItemKey
  <2>5. Filling(r, table')
    <3>1. Len(th[t].path) = 1
      BY <1>1, <1>2, WorkingBucket DEF Working, Changing
    <3> QED BY <1>4, <1>6, <3>1 DEF Filling
  <2> QED BY <1>6, <2>1, <2>2, <2>3, <2>4, <2>5 DEF CallerOK, MaskOK, Fresh, Taken
<1>13. AccessorOK(acc[t], r, table') /\ r.pc \notin Seeking /\ th[t].pc # "mark"
  BY <1>1, <1>2, <1>6 DEF AccessorOK, Seeking, Descending, Rehashing
<1>14. acc' = [acc EXCEPT ![t] = acc[t]]
  BY <1>1 DEF Promise, Inv
<1>15. r.id # acc[t].id /\ \A u \in Threads : acc[u].id # r.id
  BY <1>3, <1>6
<1> QED BY <1>1, <1>2, <1>3, <1>5, <1>8, <1>10, <1>11, <1>12, <1>13, <1>14, <1>15, StepPromise

LEMMA EraseTable ==
    ASSUME Promise, NEW t \in Threads, EraseNode(t)
    PROVE  \E n \in NodesIn(table) :
            /\ n.id = th[t].id /\ n.key = th[t].call.key
            /\ NodesIn(table') = NodesIn(table) \ {n}
            /\ \A c \in Buckets \ {Target(t)} : (table').node_list[c] = table.node_list[c]
            /\ (table').rehashed = table.rehashed /\ (table').my_mask = table.my_mask
            /\ (table').my_size = table.my_size /\ (table').on_init_size = table.on_init_size
            /\ (table').consistent = table.consistent /\ Total((table').tls) = Total(table.tls) - 1
            /\ Placed(table') /\ \A c \in Buckets : Reached(table', c) => Reached(table, c)
            /\ th' = [th EXCEPT ![t] = [[th[t] EXCEPT !.call.ret = "true"] EXCEPT !.pc = "uncount"]]
<1> DEFINE b == Target(t)
<1>1. th[t].pc = "erase"
  BY DEF EraseNode
<1>2. /\ b \in Buckets /\ TableOK(table) /\ Placed(table) /\ TlsOK(table.tls)
      /\ t \in Nat /\ t < Len(table.tls.storage) /\ b = Head(th[t].path)
  BY <1>1, ChangingFacts
<1>3. PICK n \in table.node_list[b] : n.id = th[t].id /\ n.key = th[t].call.key
  BY <1>1, <1>2, ItemFacts DEF HasItem
<1> DEFINE new == delete_node(table, b, n.id)
<1>4. table' = [new EXCEPT !.tls = Add(@, t, -1)]
  BY <1>3 DEF EraseNode
<1>5. th' = [th EXCEPT ![t] = [[th[t] EXCEPT !.call.ret = "true"] EXCEPT !.pc = "uncount"]]
  BY DEF EraseNode, Answered, Promise, Inv
<1> HIDE DEF b
<1>6. /\ \A c \in Buckets : new.node_list[c] =
            IF c = b THEN {m \in table.node_list[b] : m.id # n.id} ELSE table.node_list[c]
      /\ new.rehashed = table.rehashed /\ new.my_mask = table.my_mask
  <2>1. PICK id : id = n.id
    OBVIOUS
  <2>2. Unlinked(table, delete_node(table, b, id), b, id)
    BY <1>2, DeleteUnlinks
  <2>3. Unlinked(table, new, b, id)
    BY <2>1, <2>2
  <2> HIDE DEF new
  <2> QED BY <2>1, <2>3 DEF Unlinked
<1>7. /\ Placed(new) /\ NodesIn(new) = NodesIn(table) \ {n}
      /\ \A c \in Buckets : Reached(new, c) => Reached(table, c)
  BY <1>2, <1>3, DeletePlaced
<1>8. TableOK(new)
  BY <1>2, DeleteOK
<1>9. ListsOnly(table, new)
  BY <1>2, ListsOnlyFacts
<1> HIDE DEF new
<1>10. table' = [new EXCEPT !.tls = Add(table.tls, t, -1)]
  BY <1>4, <1>9 DEF ListsOnly
<1>11. Total(Add(table.tls, t, -1)) = Total(table.tls) - 1
  <2>1. Total(table.tls) \in Int /\ -1 \in Int
    BY <1>2, TlsOfTable
  <2>2. Total(Add(table.tls, t, -1)) = Total(table.tls) + (-1)
    BY <1>2, <2>1, TotalAdd
  <2>3. PICK x : x = Total(table.tls)
    OBVIOUS
  <2>4. x \in Int /\ x + (-1) = x - 1
    BY <2>1, <2>3
  <2> QED BY <2>2, <2>3, <2>4
<1>12. /\ (table').node_list = new.node_list /\ (table').rehashed = new.rehashed /\ (table').my_mask = new.my_mask
       /\ (table').my_size = new.my_size /\ (table').on_init_size = new.on_init_size
       /\ (table').consistent = new.consistent /\ (table').tls = Add(table.tls, t, -1) /\ NodesIn(table') = NodesIn(new)
  BY <1>8, <1>10, CountedToo
<1>13. Placed(table')
  <2>1. new.my_mask <= (table').my_mask
    BY <1>8, <1>12, TableFacts
  <2>2. TableOK(table')
    BY EraseNodeStep DEF Promise, Inv
  <2> QED BY <1>7, <1>8, <1>12, <2>1, <2>2, SamePlaced
<1>14. \A c \in Buckets : Reached(table', c) => Reached(table, c)
  BY <1>7, <1>12 DEF Reached
<1>15. n \in NodesIn(table)
  BY <1>2, <1>3 DEF NodesIn
<1> QED BY <1>3, <1>5, <1>6, <1>7, <1>9, <1>11, <1>12, <1>13, <1>14, <1>15 DEF ListsOnly, b

LEMMA EraseNodePromise ==
    ASSUME Promise, NEW t \in Threads, EraseNode(t)
    PROVE  Promise'
<1> DEFINE b == Target(t)
<1>1. th[t].pc = "erase" /\ UNCHANGED <<acc, other, up>> /\ Inv'
  BY EraseNodeStep DEF EraseNode, env, Promise
<1>2. /\ ThreadOK(t, th[t], table) /\ ThreadType(th[t]) /\ CallerOK(th[t], table) /\ CallOK(th[t])
      /\ up /\ acc[t] = NoAccessor /\ th[t].pc \in InTable
      /\ b = Head(th[t].path) /\ b \in Buckets /\ b \in Written(t) /\ TableOK(table)
  BY <1>1, ChangingFacts
<1>3. PICK n \in NodesIn(table) :
            /\ n.id = th[t].id /\ n.key = th[t].call.key
            /\ NodesIn(table') = NodesIn(table) \ {n}
            /\ \A c \in Buckets \ {b} : (table').node_list[c] = table.node_list[c]
            /\ (table').rehashed = table.rehashed /\ (table').my_mask = table.my_mask
            /\ (table').my_size = table.my_size /\ (table').on_init_size = table.on_init_size
            /\ (table').consistent = table.consistent /\ Total((table').tls) = Total(table.tls) - 1
            /\ Placed(table') /\ \A c \in Buckets : Reached(table', c) => Reached(table, c)
            /\ th' = [th EXCEPT ![t] = [[th[t] EXCEPT !.call.ret = "true"] EXCEPT !.pc = "uncount"]]
  BY EraseTable
<1> DEFINE q == [th[t] EXCEPT !.call.ret = "true"]
<1> DEFINE r == [q EXCEPT !.pc = "uncount"]
<1>4. /\ q.call.op = th[t].call.op /\ q.call.key = th[t].call.key /\ q.call.mode = th[t].call.mode
      /\ q.call.ret = "true" /\ q.path = th[t].path
  <2>1. q = Replied(th[t], "true")
    BY DEF Replied
  <2> HIDE DEF q
  <2> QED BY <1>2, <2>1, AnsweredCall
<1>5. th' = [th EXCEPT ![t] = r]
  BY <1>3
<1>6. r.pc = "uncount" /\ r.call = q.call /\ r.path = q.path
  BY <1>2 DEF ThreadType
<1> HIDE DEF q, r, b
<1>7. Sized(table) /\ Counted(table)
  BY <1>2, TableCounts
<1>8. Sized(table') /\ Counted(table') /\ Cardinality(NodesIn(table')) = Cardinality(NodesIn(table)) - 1
  <2>1. Cardinality(NodesIn(table')) = Cardinality(NodesIn(table)) - 1 /\ IsFiniteSet(NodesIn(table'))
    BY <1>3, <1>7, FS_RemoveElement DEF Sized
  <2>2. table.on_init_size \in Int /\ Total(table.tls) \in Int /\ Cardinality(NodesIn(table)) \in Nat
    BY <1>2, <1>7, SizedNumbers, TlsOfTable
  <2>3. table.on_init_size + Total(table.tls) = Cardinality(NodesIn(table))
    BY <1>7 DEF Counted
  <2>4. (table').on_init_size + Total((table').tls) = Cardinality(NodesIn(table'))
    <3>1. (table').on_init_size = table.on_init_size /\ Total((table').tls) = Total(table.tls) - 1
      BY <1>3
    <3>2. PICK x, y, z : x = table.on_init_size /\ y = Total(table.tls) /\ z = Cardinality(NodesIn(table))
      OBVIOUS
    <3>3. x \in Int /\ y \in Int /\ z \in Int /\ x + y = z
      BY <2>2, <2>3, <3>2
    <3>4. x + (y - 1) = z - 1
      BY <3>3
    <3> QED BY <2>1, <3>1, <3>2, <3>4
  <2>5. Sized(table')
    BY <1>3, <1>7, <2>1 DEF Sized
  <2> QED BY <2>1, <2>4, <2>5 DEF Counted
<1>9. Signed(r) = -1 /\ Signed(th[t]) = 0
  BY <1>1, <1>6 DEF Signed
<1>10. (table').my_size + Signed(r) + Cardinality(NodesIn(table))
            = table.my_size + Signed(th[t]) + Cardinality(NodesIn(table'))
  <2>1. table.my_size \in Int /\ Cardinality(NodesIn(table)) \in Nat /\ (table').my_size = table.my_size
    BY <1>3, <1>7, SizedNumbers
  <2>2. PICK x, y, z : x = table.my_size /\ y = Cardinality(NodesIn(table)) /\ z = Cardinality(NodesIn(table'))
    OBVIOUS
  <2>3. x \in Int /\ y \in Int /\ z = y - 1
    BY <2>1, <2>2, <1>8
  <2>4. x + (-1) + y = x + 0 + z
    BY <2>3
  <2> QED BY <1>9, <2>1, <2>2, <2>4
<1>11. Evolves(table, table', Written(t), Added(th[t]), Gone(th[t]))
  <2>1. table.my_mask <= (table').my_mask
    BY <1>2, <1>3, TableFacts
  <2>2. \A c \in Buckets \ Written(t) : SameKeys(table.node_list[c], (table').node_list[c])
    BY <1>2, <1>3, SameKeysSame
  <2>3. Gone(th[t]) = {n.id}
    BY <1>1, <1>3 DEF Gone
  <2> QED BY <1>3, <2>1, <2>2, <2>3 DEF Evolves
<1>12. CallerOK(r, table')
  <2>1. r.pc \notin Seeking /\ ~Adding(r) /\ ~HasItem(r)
    BY <1>6 DEF Seeking, Descending, Rehashing, Adding, HasItem
  <2>2. AnswerOK(r)
    BY <1>4, <1>6, <2>1 DEF AnswerOK
  <2>3. Asked(r.call)
    BY <1>2, <1>4, <1>6 DEF CallerOK, Asked
  <2>5. Filling(r, table')
    <3>1. Len(th[t].path) = 1
      BY <1>1, <1>2, WorkingBucket DEF Working, Changing
    <3> QED BY <1>4, <1>6, <3>1 DEF Filling
  <2> QED BY <1>6, <2>1, <2>2, <2>3, <2>5 DEF CallerOK, MaskOK, Fresh, Taken, ItemKey
<1>13. /\ AccessorOK(acc[t], r, table') /\ r.pc \notin Seeking /\ th[t].pc # "mark" /\ ~Owns(r)
  BY <1>1, <1>2, <1>6 DEF AccessorOK, Seeking, Descending, Rehashing, Owns
<1>14. acc' = [acc EXCEPT ![t] = acc[t]]
  BY <1>1 DEF Promise, Inv
<1> QED BY <1>1, <1>2, <1>3, <1>5, <1>8, <1>10, <1>11, <1>12, <1>13, <1>14, StepPromise

\* The size that is counted apart.
LEMMA SizeStep ==
    ASSUME NEW tab, TableOK(tab), Placed(tab), NEW size \in Int, NEW new,
           new = [tab EXCEPT !.my_size = size], TableOK(new), NEW ws, NEW added, NEW gone
    PROVE  /\ Placed(new) /\ Evolves(tab, new, ws, added, gone)
           /\ Sized(tab) => Sized(new)
           /\ Counted(tab) => Counted(new)
           /\ new.my_mask = tab.my_mask /\ new.my_size = size /\ new.consistent = tab.consistent
           /\ new.node_list = tab.node_list /\ NodesIn(new) = NodesIn(tab)
           /\ \A c \in Buckets : Reached(new, c) <=> Reached(tab, c)
<1>1. /\ new.node_list = tab.node_list /\ new.rehashed = tab.rehashed /\ new.my_mask = tab.my_mask
      /\ new.my_size = size /\ new.on_init_size = tab.on_init_size /\ new.tls = tab.tls
      /\ new.consistent = tab.consistent
  BY DEF TableOK, TableType
<1>0. tab.my_mask <= new.my_mask
  BY <1>1, TableFacts
<1>2. Placed(new) /\ NodesIn(new) = NodesIn(tab)
  BY <1>0, <1>1, SamePlaced
<1>3. Evolves(tab, new, ws, added, gone)
  BY <1>0, <1>1, EvolvesSame
<1>4. Sized(tab) => Sized(new)
  BY <1>1, <1>2 DEF Sized
<1>5. Counted(tab) => Counted(new)
  BY <1>1, <1>2 DEF Counted
<1> QED BY <1>1, <1>2, <1>3, <1>4, <1>5 DEF Reached

LEMMA CountInsertedPromise ==
    ASSUME Promise, NEW t \in Threads, CountInserted(t)
    PROVE  Promise'
<1> DEFINE size == table.my_size + 1
<1>1. th[t].pc = "count" /\ UNCHANGED <<acc, other, up>> /\ Inv' /\ table' = [table EXCEPT !.my_size = size]
  BY CountInsertedStep DEF CountInserted, env, Promise, Inv, TableOK, TableType
<1>2. /\ ThreadOK(t, th[t], table) /\ ThreadType(th[t]) /\ CallerOK(th[t], table) /\ CallOK(th[t])
      /\ up /\ acc[t] = NoAccessor /\ th[t].pc \in InTable /\ TableOK(table) /\ Placed(table)
  BY <1>1, ChangingFacts
<1>3. PICK r : /\ th' = [th EXCEPT ![t] = r]
               /\ r.call = th[t].call /\ r.path = th[t].path /\ r.id = th[t].id
               /\ \/ r.pc = "grow"
                  \/ r.pc = "item" /\ th[t].call.mode # "none"
  <2> DEFINE counted == [th[t] EXCEPT !.new_size = size]
  <2>1. CASE th[t].call.mode = "none"
    <3> DEFINE r == [counted EXCEPT !.pc = "grow", !.locks = {}]
    <3>1. th' = [th EXCEPT ![t] = r]
      BY <2>1 DEF CountInserted
    <3>2. r.call = th[t].call /\ r.path = th[t].path /\ r.id = th[t].id /\ r.pc = "grow"
      BY <1>2 DEF ThreadType
    <3> QED BY <3>1, <3>2
  <2>2. CASE th[t].call.mode # "none"
    <3> DEFINE r == [counted EXCEPT !.pc = "item"]
    <3>1. th' = [th EXCEPT ![t] = r]
      BY <2>2 DEF CountInserted
    <3>2. r.call = th[t].call /\ r.path = th[t].path /\ r.id = th[t].id /\ r.pc = "item"
      BY <1>2 DEF ThreadType
    <3> QED BY <2>2, <3>1, <3>2
  <2> QED BY <2>1, <2>2
<1>4. Sized(table) /\ Counted(table) /\ table.my_size \in Int /\ Cardinality(NodesIn(table)) \in Nat
  BY <1>2, TableCounts, SizedNumbers
<1>5. size \in Int /\ TableOK(table')
  BY <1>1, <1>4 DEF Inv
<1> HIDE DEF size
<1>6. /\ Placed(table') /\ Evolves(table, table', Written(t), Added(th[t]), Gone(th[t]))
      /\ Sized(table') /\ Counted(table')
      /\ (table').my_size = size /\ (table').consistent = table.consistent
      /\ (table').node_list = table.node_list /\ NodesIn(table') = NodesIn(table)
      /\ \A c \in Buckets : Reached(table', c) <=> Reached(table, c)
  BY <1>1, <1>2, <1>4, <1>5, SizeStep
<1>7. Signed(r) = 0 /\ Signed(th[t]) = 1
  BY <1>1, <1>3 DEF Signed
<1>8. (table').my_size + Signed(r) + Cardinality(NodesIn(table))
            = table.my_size + Signed(th[t]) + Cardinality(NodesIn(table'))
  <2>1. PICK x, y : x = table.my_size /\ y = Cardinality(NodesIn(table))
    OBVIOUS
  <2>2. x + 1 + 0 + y = x + 1 + y
    BY <1>4, <2>1
  <2> QED BY <1>6, <1>7, <2>1, <2>2 DEF size
<1>9. CallerOK(r, table')
  <2>1. r.pc \notin Seeking /\ ~Adding(r)
    BY <1>3 DEF Seeking, Descending, Rehashing, Adding
  <2>2. AnswerOK(r)
    BY <1>1, <1>2, <1>3, <2>1 DEF CallerOK, AnswerOK, CallOK
  <2>3. Asked(r.call)
    BY <1>2, <1>3 DEF CallerOK, Asked
  <2>4. ItemKey(r, table')
    BY <1>1, <1>2, <1>3, <1>6 DEF CallerOK, ItemKey, HasItem
  <2>5. Filling(r, table')
    <3>1. Len(th[t].path) = 1
      BY <1>1, <1>2, WorkingBucket DEF Working, Changing
    <3> QED BY <1>3, <3>1 DEF Filling
  <2> QED BY <1>3, <2>1, <2>2, <2>3, <2>4, <2>5 DEF CallerOK, MaskOK, Fresh, Taken
<1>10. AccessorOK(acc[t], r, table') /\ r.pc \notin Seeking /\ th[t].pc # "mark"
  BY <1>1, <1>2, <1>3 DEF AccessorOK, Seeking, Descending, Rehashing
<1>11. acc' = [acc EXCEPT ![t] = acc[t]]
  BY <1>1 DEF Promise, Inv
<1>12. Owns(th[t]) /\ r.id = th[t].id
  BY <1>1, <1>3 DEF Owns
<1> QED BY <1>1, <1>2, <1>3, <1>6, <1>8, <1>9, <1>10, <1>11, <1>12, StepPromise

LEMMA CountErasedPromise ==
    ASSUME Promise, NEW t \in Threads, CountErased(t)
    PROVE  Promise'
<1> DEFINE size == table.my_size - 1
<1>1. /\ th[t].pc = "uncount" /\ UNCHANGED <<other, up>> /\ Inv' /\ table' = [table EXCEPT !.my_size = size]
      /\ Return(t, th[t])
  BY CountErasedStep DEF CountErased, env, Promise, Inv, TableOK, TableType
<1>2. /\ ThreadType(th[t]) /\ CallerOK(th[t], table) /\ CallOK(th[t]) /\ up /\ TableOK(table) /\ Placed(table)
  BY <1>1, ChangingFacts
<1>3. th[t].call \in Call /\ th[t].call.ret # "pending"
  BY <1>1, <1>2 DEF ThreadType, CallerOK, AnswerOK
<1>4. Sized(table) /\ Counted(table) /\ table.my_size \in Int /\ Cardinality(NodesIn(table)) \in Nat
  BY <1>2, TableCounts, SizedNumbers
<1>5. size \in Int /\ TableOK(table')
  BY <1>1, <1>4 DEF Inv
<1> HIDE DEF size
<1>6. /\ Placed(table') /\ Evolves(table, table', Written(t), {}, {})
      /\ Sized(table') /\ Counted(table')
      /\ (table').my_size = size /\ (table').consistent = table.consistent
      /\ NodesIn(table') = NodesIn(table)
      /\ \A c \in Buckets : Reached(table', c) <=> Reached(table, c)
  BY <1>1, <1>2, <1>4, <1>5, SizeStep
<1>7. (table').my_size + Cardinality(NodesIn(table))
            = table.my_size + Signed(th[t]) + Cardinality(NodesIn(table'))
  <2>1. Signed(th[t]) = -1
    BY <1>1 DEF Signed
  <2>2. PICK x, y : x = table.my_size /\ y = Cardinality(NodesIn(table))
    OBVIOUS
  <2>3. (x - 1) + y = x + (-1) + y
    BY <1>4, <2>2
  <2> QED BY <1>6, <2>1, <2>2, <2>3 DEF size
<1>8. /\ th' = [th EXCEPT ![t] = AfterCall(th[t].call)]
      /\ acc' = [acc EXCEPT ![t] = Kept(th[t].call, acc[t])]
  BY <1>1, ReturnIs DEF Promise
<1> QED BY <1>1, <1>2, <1>3, <1>6, <1>7, <1>8, DonePromise

\* The value of an element changes, in the table that StoreValue() makes.
LEMMA StoreStep ==
    ASSUME Promise, up, NEW n \in NodesIn(table), NEW id, id = n.id, NEW v \in Values, table' = StoreValue(table, id, v),
           TableOK(table'), NEW ws
    PROVE  /\ Placed(table') /\ Evolves(table, table', ws, {}, {})
           /\ Sized(table') /\ Counted(table')
           /\ (table').my_size = table.my_size /\ (table').consistent = table.consistent
           /\ (table').my_mask = table.my_mask /\ (table').rehashed = table.rehashed
           /\ NodesIn(table') = (NodesIn(table) \ {n}) \cup {Valued(n, v)}
           /\ Cardinality(NodesIn(table')) = Cardinality(NodesIn(table))
           /\ \A c \in Buckets : Reached(table', c) <=> Reached(table, c)
           /\ \A c \in Buckets : SameKeys(table.node_list[c], (table').node_list[c])
<1> DEFINE m == Valued(n, v)
<1>1. TableOK(table) /\ Placed(table) /\ Sized(table) /\ Counted(table) /\ table.consistent
  BY TableCounts DEF Promise, Inv
<1>2. PICK b \in Buckets : n \in table.node_list[b]
  BY InBucket
<1>3. /\ \A c \in Buckets : (table').node_list[c] =
            IF c = b THEN (table.node_list[c] \ {n}) \cup {m} ELSE table.node_list[c]
      /\ (table').rehashed = table.rehashed /\ (table').my_mask = table.my_mask
  BY <1>1, <1>2, StoreFields
<1>4. /\ Placed(table') /\ NodesIn(table') = (NodesIn(table) \ {n}) \cup {m}
      /\ \A c \in Buckets : Reached(table', c) <=> Reached(table, c)
  BY <1>1, <1>2, StorePlaced
<1>5. ListsOnly(table, table')
  BY <1>1, ListsOnlyFacts
<1>6. n \in Node /\ m.id = n.id /\ m.key = n.key
  BY <1>1, <1>2, NodeFacts, ValuedFacts
<1> HIDE DEF m
<1>7. KeysUnique(table)
  BY <1>1, PlacedUnique
<1>8. Cardinality(NodesIn(table')) = Cardinality(NodesIn(table)) /\ IsFiniteSet(NodesIn(table'))
  <2> DEFINE rest == NodesIn(table) \ {n}
  <2>1. IsFiniteSet(rest) /\ Cardinality(rest) = Cardinality(NodesIn(table)) - 1
    BY <1>1, FS_RemoveElement DEF Sized
  <2>2. m \notin rest
    BY <1>6, <1>7 DEF KeysUnique
  <2>3. NodesIn(table') = rest \cup {m}
    BY <1>4
  <2> HIDE DEF rest
  <2>4. IsFiniteSet(NodesIn(table')) /\ Cardinality(NodesIn(table')) = Cardinality(rest) + 1
    BY <2>1, <2>2, <2>3, FS_AddElement
  <2>5. Cardinality(NodesIn(table)) \in Nat
    BY <1>1, SizedNumbers
  <2>6. PICK x : x = Cardinality(NodesIn(table))
    OBVIOUS
  <2>7. (x - 1) + 1 = x
    BY <2>5, <2>6
  <2> QED BY <2>1, <2>4, <2>6, <2>7
<1>9. Sized(table') /\ Counted(table')
  BY <1>1, <1>5, <1>8 DEF Sized, Counted, ListsOnly
<1>10. \A c \in Buckets : SameKeys(table.node_list[c], (table').node_list[c])
  <2> SUFFICES ASSUME NEW c \in Buckets PROVE SameKeys(table.node_list[c], (table').node_list[c])
    OBVIOUS
  <2>1. CASE c = b
    BY <1>2, <1>3, <1>6, <2>1 DEF SameKeys
  <2>2. CASE c # b
    BY <1>3, <2>2, SameKeysSame
  <2> QED BY <2>1, <2>2
<1>11. Evolves(table, table', ws, {}, {})
  <2>1. table.my_mask <= (table').my_mask
    BY <1>1, <1>3, TableFacts
  <2>2. \A x \in NodesIn(table') : \E y \in NodesIn(table) : y.key = x.key
    BY <1>4, <1>6
  <2>3. \A x \in NodesIn(table) : \E y \in NodesIn(table') : y.id = x.id /\ y.key = x.key
    BY <1>4, <1>6
  <2> QED BY <1>3, <1>4, <1>10, <2>1, <2>2, <2>3 DEF Evolves
<1> QED BY <1>3, <1>4, <1>5, <1>8, <1>9, <1>10, <1>11 DEF ListsOnly, m

\* The element that a call is about to assign.
LEMMA AssigningFacts ==
    ASSUME Promise, NEW t \in Threads, AssignItem(t)
    PROVE  /\ up /\ acc[t] # NoAccessor /\ th[t].call.val \in Values /\ th[t].call.op = "insert_or_assign"
           /\ acc[t].mode = "write" /\ acc[t].id = th[t].id
           /\ \E n \in NodesIn(table) :
                n.id = th[t].id /\ n.key = th[t].call.key
<1>1. th[t].pc = "assign"
  BY DEF AssignItem
<1>2. up
  BY <1>1, IsUp DEF Promise
<1>3. AccessorOK(acc[t], th[t], table) /\ CallerOK(th[t], table) /\ CallOK(th[t]) /\ acc[t].id = th[t].id
  BY <1>1 DEF Promise, AccessorsOK, CallersOK, Inv, ThreadsOK, ThreadOK, Assigning
<1>4. acc[t] # NoAccessor /\ HoldsItem(acc[t], th[t], table)
  BY <1>1, <1>3 DEF AccessorOK
<1>5. th[t].call.op = "insert_or_assign" /\ th[t].call.val \in Values
  BY <1>1, <1>3 DEF CallOK
<1>6. acc[t].mode = "write"
  BY <1>3, <1>4, <1>5 DEF HoldsItem, CallerOK, Asked
<1> QED BY <1>2, <1>3, <1>4, <1>5, <1>6 DEF HoldsItem

LEMMA AssignItemPromise ==
    ASSUME Promise, NEW t \in Threads, AssignItem(t)
    PROVE  Promise'
<1> DEFINE q == [th[t] EXCEPT !.call.ret = "false"]
<1>1. /\ th[t].pc = "assign" /\ UNCHANGED <<other, up>> /\ Inv'
      /\ table' = StoreValue(table, th[t].id, th[t].call.val) /\ Return(t, q)
  BY AssignItemStep DEF AssignItem, env, Promise, Answered
<1>2. /\ up /\ th[t].call.val \in Values
  BY AssigningFacts
<1>3. PICK n \in NodesIn(table) : n.id = th[t].id /\ n.key = th[t].call.key
  BY AssigningFacts
<1>4. ThreadType(th[t]) /\ TableOK(table')
  BY <1>1 DEF Promise, Inv, ThreadsOK, ThreadOK
<1>5. /\ q.call \in Call /\ q.call.op = th[t].call.op /\ q.call.key = th[t].call.key
      /\ q.call.mode = th[t].call.mode /\ q.call.ret = "false"
  <2>1. q = Replied(th[t], "false")
    BY DEF Replied
  <2> HIDE DEF q
  <2> QED BY <1>4, <2>1, AnsweredCall
<1> HIDE DEF q
<1>6. /\ Placed(table') /\ Evolves(table, table', Written(t), {}, {})
      /\ Sized(table') /\ Counted(table')
      /\ (table').my_size = table.my_size /\ (table').consistent = table.consistent
      /\ Cardinality(NodesIn(table')) = Cardinality(NodesIn(table))
      /\ \A c \in Buckets : Reached(table', c) <=> Reached(table, c)
  BY <1>1, <1>2, <1>3, <1>4, StoreStep
<1>7. (table').my_size + Cardinality(NodesIn(table))
            = table.my_size + Signed(th[t]) + Cardinality(NodesIn(table'))
  <2>1. Signed(th[t]) = 0
    BY <1>1 DEF Signed
  <2>2. table.my_size \in Int
    BY <1>2, TableCounts, SizedNumbers
  <2>3. table.my_size + 0 = table.my_size
    BY <2>2
  <2> QED BY <1>6, <2>1, <2>3
<1>8. /\ th' = [th EXCEPT ![t] = AfterCall(q.call)]
      /\ acc' = [acc EXCEPT ![t] = Kept(q.call, acc[t])]
  BY <1>1, ReturnIs DEF Promise
<1> QED BY <1>1, <1>2, <1>5, <1>6, <1>7, <1>8, DonePromise

LEMMA StoreFact ==
    ASSUME Promise, NEW t \in Threads, StoreThroughAccessor(t)
    PROVE  /\ up /\ acc[t] # NoAccessor /\ acc[t].mode = "write"
           /\ \E n \in NodesIn(table) : \E v \in Values :
                n.id = acc[t].id /\ n.key = th[t].call.key /\ v \in scenario.values
                    /\ table' = StoreValue(table, acc[t].id, v)
<1>1. acc[t] # NoAccessor
  BY DEF StoreThroughAccessor, NoAccessor
<1>2. PICK n \in NodesIn(table) : n.id = acc[t].id /\ n.key = th[t].call.key
  BY <1>1, HeldIds
<1>3. PICK v \in scenario.values : table' = StoreValue(table, acc[t].id, v)
  BY DEF StoreThroughAccessor
<1>4. v \in Values
  BY ScenarioAssumption DEF Promise, Inv
<1>5. up
  BY <1>1, IsUp DEF Promise
<1> QED BY <1>1, <1>2, <1>3, <1>4, <1>5 DEF StoreThroughAccessor

LEMMA StoreThroughAccessorPromise ==
    ASSUME Promise, NEW t \in Threads, StoreThroughAccessor(t)
    PROVE  Promise'
<1>1. th[t].pc = "idle" /\ UNCHANGED <<th, acc, other, up>> /\ Inv'
  BY StoreThroughAccessorStep DEF StoreThroughAccessor, env, Promise
<1>2. up /\ acc[t] # NoAccessor
  BY StoreFact
<1>3. PICK n \in NodesIn(table) : \E v \in Values : n.id = acc[t].id /\ table' = StoreValue(table, acc[t].id, v)
  BY StoreFact
<1>4. PICK v \in Values : n.id = acc[t].id /\ table' = StoreValue(table, acc[t].id, v)
  BY <1>3
<1>5. TableOK(table')
  BY <1>1 DEF Inv
<1>6. /\ Placed(table') /\ Evolves(table, table', Written(t), {}, {})
      /\ Sized(table') /\ Counted(table')
      /\ (table').my_size = table.my_size /\ (table').consistent = table.consistent
      /\ Cardinality(NodesIn(table')) = Cardinality(NodesIn(table))
      /\ \A c \in Buckets : Reached(table', c) <=> Reached(table, c)
  BY <1>2, <1>4, <1>5, StoreStep
<1> DEFINE r == th[t]
<1> DEFINE a == acc[t]
<1>7. th' = [th EXCEPT ![t] = r] /\ acc' = [acc EXCEPT ![t] = a]
  BY <1>1 DEF Promise, Inv
<1>8. CallerOK(r, table) /\ AccessorOK(a, r, table) /\ r.pc = "idle"
  BY <1>1 DEF Promise, CallersOK, AccessorsOK
<1>9. Added(r) = {} /\ Gone(r) = {} /\ r.pc \notin Seeking /\ ~Owns(r) /\ ~Adding(r) /\ ~HasItem(r)
      /\ r.pc \notin InTable \cup {"defrag"}
  BY <1>8 DEF Added, Gone, Seeking, Descending, Rehashing, Owns, Adding, HasItem, InTable, Working, Changing
<1>10. CallerOK(r, table')
  BY <1>8, <1>9 DEF CallerOK, MaskOK, Fresh, Taken, Filling, ItemKey
<1>11. AccessorOK(a, r, table')
  BY <1>6, <1>8, <1>9 DEF AccessorOK, HoldsItem, Evolves
<1> HIDE DEF r, a, Signed
<1>12. (table').my_size + Signed(r) + Cardinality(NodesIn(table))
            = table.my_size + Signed(th[t]) + Cardinality(NodesIn(table'))
  BY <1>6 DEF r
<1>13. th[t].pc # "mark" /\ a = acc[t] /\ Added(th[t]) = {} /\ Gone(th[t]) = {}
  BY <1>8, <1>9 DEF r, a
<1> QED BY <1>1, <1>2, <1>6, <1>7, <1>9, <1>10, <1>11, <1>12, <1>13, StepPromise

LEMMA ReleaseAccessorPromise ==
    ASSUME Promise, NEW t \in Threads, ReleaseAccessor(t)
    PROVE  Promise'
<1> DEFINE r == th[t]
<1>1. /\ th[t].pc = "idle" /\ acc[t] # NoAccessor /\ acc' = [acc EXCEPT ![t] = NoAccessor]
      /\ UNCHANGED <<table, th, other, up>> /\ Inv'
  BY ReleaseAccessorStep DEF ReleaseAccessor, env, Promise
<1>2. up
  BY <1>1, IsUp DEF Promise
<1>3. th' = [th EXCEPT ![t] = r]
  BY <1>1 DEF Promise, Inv
<1>4. CallerOK(r, table) /\ r.pc = "idle"
  BY <1>1 DEF Promise, CallersOK
<1>5. AccessorOK(NoAccessor, r, table)
  BY <1>4 DEF AccessorOK
<1>6. r.pc \notin Seeking /\ ~Owns(r) /\ th[t].pc # "mark" /\ Signed(r) = Signed(th[t])
  BY <1>4 DEF Seeking, Descending, Rehashing, Owns
<1> HIDE DEF r
<1> QED BY <1>1, <1>2, <1>3, <1>4, <1>5, <1>6, GrantPromise

-----------------------------------------------------------------------------
(* The growth of the table, and defragment() *)

\* A call that has taken effect returns, and the elements stay as they are.
LEMMA EndPromise ==
    ASSUME Promise, Inv', up, NEW t \in Threads, th[t].pc \in {"grow", "publish", "defrag"},
           NEW q, Return(t, q), q.call \in Call, q.call.op = th[t].call.op, q.call.key = th[t].call.key,
           q.call.mode = th[t].call.mode, q.call.ret # "pending", UNCHANGED <<other, up>>,
           Placed(table'), Evolves(table, table', Written(t), {}, {}),
           Sized(table'), Counted(table'), (table').consistent = table.consistent,
           (table').my_size = table.my_size, NodesIn(table') = NodesIn(table),
           \A c \in Buckets : Reached(table', c) => Reached(table, c)
    PROVE  Promise'
<1>1. (table').my_size + Cardinality(NodesIn(table))
            = table.my_size + Signed(th[t]) + Cardinality(NodesIn(table'))
  <2>1. Signed(th[t]) = 0
    BY DEF Signed
  <2>2. table.my_size \in Int
    BY TableCounts, SizedNumbers
  <2>3. table.my_size + 0 = table.my_size
    BY <2>2
  <2> QED BY <2>1, <2>3
<1>2. /\ th' = [th EXCEPT ![t] = AfterCall(q.call)]
      /\ acc' = [acc EXCEPT ![t] = Kept(q.call, acc[t])]
  BY ReturnIs DEF Promise
<1> QED BY <1>1, <1>2, DonePromise

\* A thread on its way out of the table.
LEMMA LeavingFacts ==
    ASSUME Promise, NEW t \in Threads, th[t].pc \in {"grow", "enable", "publish"}
    PROVE  /\ ThreadType(th[t]) /\ CallerOK(th[t], table) /\ up /\ TableOK(table) /\ Placed(table)
           /\ th[t].call \in Call /\ th[t].call.ret # "pending"
           /\ Asked(th[t].call) /\ AnswerOK(th[t]) /\ AccessorOK(acc[t], th[t], table)
           /\ Signed(th[t]) = 0 /\ th[t].pc # "mark"
<1>1. /\ ThreadType(th[t]) /\ CallerOK(th[t], table) /\ TableOK(table) /\ Placed(table)
      /\ AccessorOK(acc[t], th[t], table)
  BY DEF Promise, Inv, ThreadsOK, ThreadOK, CallersOK, AccessorsOK
<1>2. up
  BY IsUp DEF Promise
<1>3. th[t].call \in Call
  BY <1>1 DEF ThreadType
<1> QED BY <1>1, <1>2, <1>3 DEF CallerOK, AnswerOK, Signed

\* A thread that has its accessor goes on, outside of the table.
LEMMA LeavingStep ==
    ASSUME Promise, Inv', NEW t \in Threads, th[t].pc \in {"grow", "enable"},
           NEW pc \in {"enable", "publish"}, th' = [th EXCEPT ![t].pc = pc], UNCHANGED <<acc, other, up>>,
           Placed(table'), Evolves(table, table', Written(t), {}, {}), SameCounts(table, table'),
           \A c \in Buckets : Reached(table', c) => Reached(table, c)
    PROVE  Promise'
<1> DEFINE r == [th[t] EXCEPT !.pc = pc]
<1>1. th' = [th EXCEPT ![t] = r]
  OBVIOUS
<1>2. /\ ThreadType(th[t]) /\ CallerOK(th[t], table) /\ up /\ Asked(th[t].call) /\ AnswerOK(th[t])
      /\ AccessorOK(acc[t], th[t], table) /\ Signed(th[t]) = 0
  BY LeavingFacts
<1>3. r.pc = pc /\ r.call = th[t].call
  BY <1>2 DEF ThreadType
<1> HIDE DEF r
<1>4. /\ r.pc \notin Seeking /\ ~Owns(r) /\ ~Adding(r) /\ ~HasItem(r) /\ Signed(r) = 0
      /\ r.pc \notin InTable \cup {"defrag"}
  BY <1>3 DEF Seeking, Descending, Rehashing, Owns, Adding, HasItem, InTable, Working, Changing, Signed
<1>5. AnswerOK(r)
  BY <1>2, <1>3, <1>4 DEF AnswerOK
<1>6. CallerOK(r, table')
  BY <1>2, <1>3, <1>4, <1>5 DEF CallerOK, MaskOK, Fresh, Taken, Filling, ItemKey
<1>7. AccessorOK(acc[t], r, table')
  BY <1>2, <1>3, <1>4 DEF AccessorOK, HoldsItem, SameCounts
<1>8. Added(th[t]) = {} /\ Gone(th[t]) = {} /\ th[t].pc # "mark"
  BY DEF Added, Gone
<1>9. acc' = [acc EXCEPT ![t] = acc[t]]
  BY DEF Promise, Inv
<1>10. Sized(table') /\ Counted(table')
  BY <1>2, TableCounts, CountsKept
<1>11. (table').my_size + Signed(r) + Cardinality(NodesIn(table))
            = table.my_size + Signed(th[t]) + Cardinality(NodesIn(table'))
  BY <1>2, <1>4 DEF SameCounts
<1> QED BY <1>1, <1>2, <1>4, <1>6, <1>7, <1>8, <1>9, <1>10, <1>11, StepPromise DEF SameCounts

LEMMA CheckGrowthPromise ==
    ASSUME Promise, NEW t \in Threads, CheckGrowth(t)
    PROVE  Promise'
<1>1. th[t].pc = "grow" /\ UNCHANGED <<table, other, up>> /\ Inv'
  BY CheckGrowthStep DEF CheckGrowth, env, Promise
<1>2. /\ up /\ th[t].call \in Call /\ th[t].call.ret # "pending"
  BY <1>1, LeavingFacts
<1>3. \A ws, added, gone :
        /\ Placed(table') /\ Evolves(table, table', ws, added, gone)
        /\ Sized(table') /\ Counted(table') /\ (table').consistent = table.consistent
        /\ (table').my_size = table.my_size /\ (table').my_mask = table.my_mask
        /\ NodesIn(table') = NodesIn(table)
        /\ \A c \in Buckets : ~(Reached(table', c) /\ ~Reached(table, c))
  BY <1>1, <1>2, TableStays
<1>4. SameCounts(table, table')
  BY <1>1 DEF SameCounts
<1>5. CASE th' = [th EXCEPT ![t].pc = "enable"] /\ UNCHANGED acc
  BY <1>1, <1>3, <1>4, <1>5, LeavingStep
<1>6. CASE Return(t, th[t])
  BY <1>1, <1>2, <1>3, <1>6, EndPromise
<1> QED BY <1>5, <1>6 DEF CheckGrowth

LEMMA EnableSegmentPromise ==
    ASSUME Promise, NEW t \in Threads, EnableSegment(t)
    PROVE  Promise'
<1>1. /\ th[t].pc = "enable" /\ th' = [th EXCEPT ![t].pc = "publish"] /\ UNCHANGED <<acc, other, up>> /\ Inv'
  BY EnableSegmentStep DEF EnableSegment, env, Promise
<1>2. TableOK(table) /\ Placed(table) /\ TableOK(table')
  BY <1>1, LeavingFacts DEF Inv
<1>3. /\ (table').node_list = table.node_list /\ (table').rehashed = table.rehashed
      /\ (table').my_mask = table.my_mask /\ (table').tls = table.tls
      /\ (table').my_size = table.my_size /\ (table').on_init_size = table.on_init_size
      /\ (table').consistent = table.consistent /\ table.my_mask \in Nat
  BY <1>2 DEF EnableSegment, enable, TableOK, TableType
<1>4. Placed(table') /\ NodesIn(table') = NodesIn(table)
  BY <1>2, <1>3, SamePlaced
<1>5. Evolves(table, table', Written(t), {}, {})
  BY <1>3, EvolvesSame
<1>6. SameCounts(table, table')
  BY <1>3, <1>4 DEF SameCounts
<1>7. \A c \in Buckets : Reached(table', c) => Reached(table, c)
  BY <1>3 DEF Reached
<1> QED BY <1>1, <1>4, <1>5, <1>6, <1>7, LeavingStep

LEMMA PublishMaskPromise ==
    ASSUME Promise, NEW t \in Threads, PublishMask(t)
    PROVE  Promise'
<1>1. th[t].pc = "publish" /\ Return(t, th[t]) /\ UNCHANGED <<other, up>> /\ Inv'
      /\ table' = [table EXCEPT !.my_mask = NewMask(NewSegment(t))]
  BY PublishMaskStep DEF PublishMask, env, Promise
<1>2. /\ TableOK(table) /\ Placed(table) /\ TableOK(table') /\ up
      /\ th[t].call \in Call /\ th[t].call.ret # "pending"
  BY <1>1, LeavingFacts DEF Inv
<1>3. /\ (table').node_list = table.node_list /\ (table').rehashed = table.rehashed
      /\ (table').my_mask = NewMask(NewSegment(t)) /\ (table').tls = table.tls
      /\ (table').my_size = table.my_size /\ (table').on_init_size = table.on_init_size
      /\ (table').consistent = table.consistent
  BY <1>1, <1>2 DEF TableOK, TableType
<1>4. table.my_mask <= (table').my_mask
  <2>1. th[t].m = table.my_mask /\ OneToPublish(table)
    BY <1>1, GrowerFacts DEF Promise
  <2>2. PICK j \in Nat : Grown(j) /\ j + 1 < number_of_segments /\ table.my_mask = MaskOf(j)
    BY <2>1 DEF OneToPublish
  <2>3. j \in 0 .. (number_of_segments - 1) /\ j + 1 \in 0 .. (number_of_segments - 1)
    BY <2>2, SegmentAssumption
  <2>4. NewSegment(t) = j + 1
    BY <2>1, <2>2, <2>3, MaskFacts DEF NewSegment
  <2>5. /\ LastEnabled(j + 1) \in (j + 1) .. (number_of_segments - 1)
        /\ NewMask(j + 1) = MaskOf(LastEnabled(j + 1))
    BY <2>3, EnabledSegments
  <2>6. PICK k : k = LastEnabled(j + 1)
    OBVIOUS
  <2>7. k \in 0 .. (number_of_segments - 1) /\ j <= k
    BY <2>3, <2>5, <2>6, SegmentAssumption
  <2>8. MaskOf(j) <= MaskOf(k)
    BY <2>3, <2>7, MasksGrow
  <2> QED BY <1>3, <2>2, <2>4, <2>5, <2>6, <2>8
<1>5. Placed(table') /\ NodesIn(table') = NodesIn(table)
  BY <1>2, <1>3, <1>4, SamePlaced
<1>6. Evolves(table, table', Written(t), {}, {})
  BY <1>3, <1>4, EvolvesSame
<1>7. SameCounts(table, table')
  BY <1>3, <1>5 DEF SameCounts
<1>8. \A c \in Buckets : Reached(table', c) => Reached(table, c)
  BY <1>3 DEF Reached
<1>9. Sized(table') /\ Counted(table')
  BY <1>2, <1>7, TableCounts, CountsKept
<1> QED BY <1>1, <1>2, <1>3, <1>5, <1>6, <1>8, <1>9, EndPromise

LEMMA SaveNodesPromise ==
    ASSUME Promise, NEW t \in Threads, SaveNodes(t)
    PROVE  Promise'
<1>1. /\ th[t].pc = "search" /\ th[t].call.op = "defragment"
      /\ UNCHANGED <<table, acc, other, up>> /\ Inv'
  BY SaveNodesStep DEF SaveNodes, env, Promise
<1>2. /\ ThreadType(th[t]) /\ CallerOK(th[t], table)
  BY DEF Promise, Inv, ThreadsOK, ThreadOK, CallersOK
<1>3. up /\ acc[t] = NoAccessor
  BY <1>1, InCall DEF InTable, Working
<1>4. PICK r : /\ th' = [th EXCEPT ![t] = r]
               /\ r.call = th[t].call /\ r.m = th[t].m
               /\ r.pc \in {"defrag", "bucket"}
               /\ r.pc = "bucket" => Len(r.path) = 1
  <2> DEFINE b == Target(t)
             ids == {n.id : n \in table.node_list[b]}
             usable == \A id \in ids : ItemFree(id, "write")
             locks == IF usable THEN th[t].locks ELSE th[t].locks \ {<<b, "write">>}
             saved == IF usable THEN th[t].saved \cup ids ELSE th[t].saved
             seen == [th[t] EXCEPT !.locks = locks, !.saved = saved]
  <2>1. th' = [th EXCEPT ![t] = IF b = seen.from THEN [seen EXCEPT !.pc = "defrag"]
                                ELSE [seen EXCEPT !.pc = "bucket", !.path = <<b - 1>>]]
    BY <1>2 DEF SaveNodes, ThreadType
  <2> HIDE DEF locks, saved, b
  <2>2. CASE b = seen.from
    <3> DEFINE r == [seen EXCEPT !.pc = "defrag"]
    <3>1. th' = [th EXCEPT ![t] = r]
      BY <2>1, <2>2
    <3>2. r.call = th[t].call /\ r.m = th[t].m /\ r.pc = "defrag"
      BY <1>2 DEF ThreadType
    <3> QED BY <3>1, <3>2
  <2>3. CASE b # seen.from
    <3> DEFINE r == [seen EXCEPT !.pc = "bucket", !.path = <<b - 1>>]
    <3>1. th' = [th EXCEPT ![t] = r]
      BY <2>1, <2>3
    <3>2. r.call = th[t].call /\ r.m = th[t].m /\ r.pc = "bucket" /\ r.path = <<b - 1>>
      BY <1>2 DEF ThreadType
    <3>3. Len(<<b - 1>>) = 1
      OBVIOUS
    <3> QED BY <3>1, <3>2, <3>3
  <2> QED BY <2>2, <2>3
<1>5. /\ th[t].pc \in Seeking /\ th[t].pc # "mark" /\ Signed(r) = 0 /\ Signed(th[t]) = 0
      /\ ~Owns(r) /\ ~HasItem(r) /\ ~Adding(r)
      /\ r.pc \in {"defrag"} \cup Seeking
  BY <1>1, <1>4 DEF Seeking, Descending, Signed, Owns, HasItem, Adding
<1>6. CallerOK(r, table)
  <2>1. AnswerOK(r)
    BY <1>1, <1>2, <1>4, <1>5 DEF CallerOK, AnswerOK
  <2>2. Asked(r.call)
    BY <1>2, <1>4 DEF CallerOK
  <2>3. MaskOK(r, table)
    BY <1>1, <1>2, <1>4, <1>5 DEF CallerOK, MaskOK
  <2>4. Filling(r, table)
    <3>1. CASE r.pc = "defrag"
      BY <3>1 DEF Filling, InTable, Descending, Rehashing, Working, Changing
    <3>2. CASE r.pc = "bucket"
      <4>2. Len(r.path) = 1
        BY <1>4, <3>2
      <4>1. \A i \in 1 .. (Len(r.path) - 1) : FALSE
        BY <4>2
      <4> QED BY <3>2, <4>1 DEF Filling
    <3> QED BY <1>4, <3>1, <3>2
  <2> QED BY <1>4, <1>5, <2>1, <2>2, <2>3, <2>4 DEF CallerOK, Fresh, Taken, ItemKey
<1>7. AccessorOK(acc[t], r, table)
  BY <1>3, <1>4 DEF AccessorOK
<1> QED BY <1>1, <1>3, <1>4, <1>5, <1>6, <1>7, LocalStep

LEMMA RunDefragPromise ==
    ASSUME Promise, NEW t \in Threads, RunDefrag(t)
    PROVE  Promise'
<1> DEFINE q == [th[t] EXCEPT !.call.ret = "true"]
<1>1. /\ th[t].pc = "defrag" /\ Return(t, q) /\ UNCHANGED <<table, other, up>> /\ Inv'
  BY RunDefragStep DEF RunDefrag, env, Promise, Answered
<1>2. ThreadType(th[t])
  BY DEF Promise, Inv, ThreadsOK, ThreadOK
<1>3. up
  BY <1>1, InCall
<1>4. /\ q.call \in Call /\ q.call.op = th[t].call.op /\ q.call.key = th[t].call.key
      /\ q.call.mode = th[t].call.mode /\ q.call.ret = "true"
  <2>1. q = Replied(th[t], "true")
    BY DEF Replied
  <2> HIDE DEF q
  <2> QED BY <1>2, <2>1, AnsweredCall
<1> HIDE DEF q
<1>5. /\ Placed(table') /\ Evolves(table, table', Written(t), {}, {})
      /\ Sized(table') /\ Counted(table') /\ (table').consistent = table.consistent
      /\ (table').my_size = table.my_size
      /\ NodesIn(table') = NodesIn(table)
      /\ \A c \in Buckets : ~(Reached(table', c) /\ ~Reached(table, c))
  BY <1>1, <1>3, TableStays
<1> QED BY <1>1, <1>3, <1>4, <1>5, EndPromise

-----------------------------------------------------------------------------
(* A call starts *)

\* What every call asks for.
Asking(call) ==
    /\ call \in Call /\ Asked(call) /\ call.ret = "pending"
    /\ call.op \notin {"none", "defragment"} => call.key \in Keys

LEMMA CallAsks ==
    ASSUME Inv, NEW t \in Threads, Calls(t)
    PROVE  \E call, b, from :
            /\ Start(t, call, table.my_mask, b, from)
            /\ Asking(call) /\ call.op # "none"
            /\ call.op # "defragment" => b = Masked(hasher[call.key], table.my_mask)
<1>1. ASSUME NEW op, NEW mode, NEW k \in scenario.keys, NEW v \in Values \cup {None},
             Keyed(t, op, k, v, mode),
             \/ op \in {"count", "erase"} /\ mode = "none"
             \/ op = "find" /\ mode \in {"read", "write"}
             \/ op = "insert" /\ mode \in {"none", "read", "write"}
             \/ op = "insert_or_assign" /\ mode = "write"
      PROVE \E call, b, from :
            /\ Start(t, call, table.my_mask, b, from)
            /\ Asking(call) /\ call.op # "none"
            /\ call.op # "defragment" => b = Masked(hasher[call.key], table.my_mask)
  <2> DEFINE call == Request(op, k, v, mode)
             b == Masked(hasher[k], table.my_mask)
  <2>1. k \in Keys
    BY ScenarioAssumption DEF Inv
  <2>2. call \in Call /\ call.op = op /\ call.key = k /\ call.mode = mode /\ call.ret = "pending"
    BY <1>1, <2>1 DEF Request, Call, Keyed_ops
  <2>3. Start(t, call, table.my_mask, b, 0)
    BY <1>1 DEF Keyed
  <2> HIDE DEF call
  <2>4. Asking(call) /\ call.op # "none"
    BY <1>1, <2>1, <2>2 DEF Asking, Asked
  <2> QED BY <2>2, <2>3, <2>4
<1>2. scenario.values \subseteq Values
  BY ScenarioAssumption DEF Inv
<1>3. CASE count(t)
  BY <1>1, <1>3 DEF count
<1>4. CASE find(t)
  BY <1>1, <1>4 DEF find
<1>5. CASE insert(t)
  BY <1>1, <1>2, <1>5 DEF insert
<1>6. CASE insert_or_assign(t)
  BY <1>1, <1>2, <1>6 DEF insert_or_assign
<1>7. CASE erase(t)
  BY <1>1, <1>7 DEF erase
<1>8. CASE defragment(t)
  <2> DEFINE call == Request("defragment", None, None, "none")
  <2>1. PICK b, from : Start(t, call, table.my_mask, b, from)
    BY <1>8 DEF defragment
  <2>2. call \in Call /\ call.op = "defragment" /\ call.mode = "none" /\ call.ret = "pending"
    BY DEF Request, Call
  <2> HIDE DEF call
  <2>3. Asking(call)
    BY <2>2 DEF Asking, Asked
  <2> QED BY <2>1, <2>2, <2>3
<1> QED BY <1>3, <1>4, <1>5, <1>6, <1>7, <1>8 DEF Calls

LEMMA CallsPromise ==
    ASSUME Promise, NEW t \in Threads, Calls(t)
    PROVE  Promise'
<1>1. Inv'
  BY CallsStep DEF Promise
<1>2. PICK call, b, from :
            /\ Start(t, call, table.my_mask, b, from)
            /\ Asking(call) /\ call.op # "none"
            /\ call.op # "defragment" => b = Masked(hasher[call.key], table.my_mask)
  BY CallAsks DEF Promise
<1> DEFINE r == [AfterCall(call) EXCEPT !.pc = "bucket", !.m = table.my_mask, !.path = <<b>>, !.from = from]
<1>3. /\ up /\ th[t].pc = "idle" /\ acc[t] = NoAccessor /\ UNCHANGED <<table, other, acc, up>>
      /\ th' = [th EXCEPT ![t] = r]
  BY <1>2 DEF Start
<1>4. /\ r.pc = "bucket" /\ r.call = call /\ r.m = table.my_mask /\ r.path = <<b>>
  BY DEF AfterCall
<1>5. Len(<<b>>) = 1 /\ Head(<<b>>) = b
  OBVIOUS
<1> HIDE DEF r
<1>6. /\ ~Owns(r) /\ ~HasItem(r) /\ ~Adding(r) /\ Signed(r) = 0 /\ Signed(th[t]) = 0 /\ th[t].pc # "mark"
  BY <1>3, <1>4 DEF Owns, HasItem, Adding, Signed
<1>7. CallerOK(r, table)
  <2>1. AnswerOK(r)
    BY <1>2, <1>4 DEF AnswerOK, Asking
  <2>2. Asked(r.call)
    BY <1>2, <1>4 DEF Asking
  <2>3. MaskOK(r, table)
    <3>1. \E j \in 0 .. (number_of_segments - 1) : table.my_mask = MaskOf(j)
      BY MaskInUse DEF Promise
    <3>2. table.my_mask <= table.my_mask
      BY TableFacts DEF Promise, Inv
    <3> QED BY <1>2, <1>4, <1>5, <3>1, <3>2 DEF MaskOK
  <2>4. Filling(r, table)
    BY <1>4, <1>5 DEF Filling
  <2> QED BY <1>4, <1>6, <2>1, <2>2, <2>3, <2>4 DEF CallerOK, Fresh, Taken, ItemKey
<1>8. AccessorOK(acc[t], r, table)
  BY <1>3, <1>4 DEF AccessorOK
<1> QED BY <1>1, <1>3, <1>4, <1>6, <1>7, <1>8, LocalStep

-----------------------------------------------------------------------------
(* Operations of one thread alone, and crashes *)

\* Between the calls nothing is promised to anybody.
Resting ==
    /\ \A t \in Threads : /\ th[t].pc = "idle" /\ Asked(th[t].call) /\ th[t].call.ret # "pending"
                          /\ acc[t] = NoAccessor
    /\ Placed(table) /\ Placed(other)
    /\ Sized(table) /\ Exact(other) /\ other.consistent
    /\ up => table.consistent
    /\ table.consistent => Counted(table)
    /\ up => table.my_size = Cardinality(NodesIn(table))

LEMMA RestingCount ==
    ASSUME \A t \in Threads : th[t].pc = "idle"
    PROVE  Uncounted = 0
<1>1. ThreadsAt("count") = {} /\ ThreadsAt("uncount") = {}
  BY DEF ThreadsAt
<1>2. Cardinality({}) = 0
  BY FS_EmptySet
<1>3. Uncounted = 0 - 0
  BY <1>1, <1>2 DEF Uncounted
<1> QED BY <1>3

LEMMA RestingOK == Inv /\ Resting => Promise
<1> SUFFICES ASSUME Inv, Resting PROVE Promise
  OBVIOUS
<1>1. \A t \in Threads : /\ th[t].pc = "idle" /\ Asked(th[t].call) /\ th[t].call.ret # "pending"
                         /\ acc[t] = NoAccessor
  BY DEF Resting
<1>2. CallersOK
  <2> SUFFICES ASSUME NEW t \in Threads PROVE CallerOK(th[t], table)
    BY DEF CallersOK
  <2>1. th[t].call \in Call /\ th[t] = AfterCall(th[t].call)
    BY <1>1 DEF Inv, ThreadsOK, ThreadOK, ThreadType
  <2>2. CallerOK(AfterCall(th[t].call), table)
    BY <1>1, <2>1, IdleCaller
  <2> QED BY <2>1, <2>2
<1>3. Marking
  BY <1>1 DEF Marking, Seeking, Descending, Rehashing
<1>4. AccessorsOK /\ Accessed
  BY <1>1 DEF AccessorsOK, AccessorOK, Accessed
<1>5. Owned
  BY <1>1 DEF Owned, Owns
<1>6. SizesOK
  <2>1. Uncounted = 0
    BY <1>1, RestingCount
  <2>2. table.my_size \in Int
    BY SizedNumbers DEF Resting
  <2>3. table.my_size + Uncounted = table.my_size
    BY <2>1, <2>2
  <2> QED BY <2>3 DEF SizesOK, Resting
<1> QED BY <1>2, <1>3, <1>4, <1>5, <1>6 DEF Promise, Resting

LEMMA RestingNext == Inv' /\ Resting' => Promise'
  BY RestingOK, PTL

LEMMA RestFacts ==
    ASSUME Promise, Quiet
    PROVE  /\ up /\ TableOK(table) /\ AllInUse(table) /\ TableOK(other) /\ AllInUse(other)
           /\ Placed(table) /\ Exact(table) /\ table.consistent
           /\ Placed(other) /\ Exact(other) /\ other.consistent
           /\ \A t \in Threads : /\ th[t].pc = "idle" /\ Asked(th[t].call) /\ th[t].call.ret # "pending"
                                 /\ acc[t] = NoAccessor
<1>1. /\ up /\ TableOK(table) /\ AllInUse(table) /\ TableOK(other) /\ AllInUse(other)
      /\ \A t \in Threads : th[t].pc = "idle" /\ acc[t] = NoAccessor
  BY QuietFacts DEF Promise, Quiet
<1>2. \A t \in Threads : Asked(th[t].call) /\ th[t].call.ret # "pending"
  BY <1>1 DEF Promise, CallersOK, CallerOK, AnswerOK
<1>3. Sized(table) /\ Counted(table) /\ table.consistent
  BY <1>1, TableCounts
<1>4. table.my_size = Cardinality(NodesIn(table))
  <2>1. Uncounted = 0
    BY <1>1, RestingCount
  <2>2. table.my_size \in Int
    BY <1>3, SizedNumbers
  <2>3. table.my_size + Uncounted = table.my_size
    BY <2>1, <2>2
  <2> QED BY <1>1, <2>3 DEF Promise, SizesOK
<1> QED BY <1>1, <1>2, <1>3, <1>4 DEF Promise, SizesOK, Exact

LEMMA AlonePromise ==
    ASSUME Promise, Inv', Quiet, UNCHANGED acc,
           (UNCHANGED <<th, up>>) \/ (th' = Idle /\ up' = FALSE),
           Placed(table'), Exact(table'), (table').consistent = table.consistent,
           Placed(other'), Exact(other'), (other').consistent
    PROVE  Promise'
<1>1. \A t \in Threads : /\ th'[t].pc = "idle" /\ Asked(th'[t].call) /\ th'[t].call.ret # "pending"
                         /\ acc'[t] = NoAccessor
  <2>1. NoCall \in Call /\ Asked(NoCall) /\ NoCall.ret # "pending" /\ AfterCall(NoCall).call = NoCall
        /\ AfterCall(NoCall).pc = "idle"
    BY DEF NoCall, Call, AfterCall, Asked
  <2>2. CASE UNCHANGED <<th, up>>
    BY <2>2, RestFacts
  <2>3. CASE th' = Idle
    BY <2>1, <2>3, RestFacts DEF Idle
  <2> QED BY <2>2, <2>3
<1>2. Resting'
  BY <1>1, RestFacts DEF Resting, Exact
<1> QED BY <1>2, RestingNext

LEMMA ClearMapPromise ==
    ASSUME Promise, clear_map
    PROVE  Promise'
<1>1. Quiet /\ UNCHANGED <<acc, other, th, up>> /\ table' = ClearTable(table) /\ Inv'
  BY ClearMapStep DEF clear_map, Alone, Promise
<1>2. Placed(table') /\ (table').consistent = table.consistent /\ Exact(table')
  BY <1>1, RestFacts, ClearPlaced, ClearExact
<1>3. Placed(other') /\ Exact(other') /\ (other').consistent
  BY <1>1, RestFacts
<1> QED BY <1>1, <1>2, <1>3, AlonePromise

LEMMA RehashMapPromise ==
    ASSUME Promise, rehash_map
    PROVE  Promise' /\ NodesIn(table') = NodesIn(table)
<1>1. Quiet /\ UNCHANGED <<acc, other, th, up>> /\ Inv'
  BY RehashMapStep DEF rehash_map, Alone, Promise
<1>2. PICK n \in 1 .. 2 ^ number_of_segments : table' = rehash(table, n)
  BY DEF rehash_map
<1>3. n \in 0 .. 2 ^ number_of_segments
  <2>1. number_of_segments \in Exponents
    BY SegmentAssumption DEF Exponents
  <2>2. 2 ^ number_of_segments \in Nat
    BY <2>1, Powers
  <2> QED BY <2>2
<1>4. table.my_size = 0 => NodesIn(table) = {}
  BY <1>1, RestFacts, Zeroed
<1>5. Placed(table') /\ SameCounts(table, table')
  BY <1>1, <1>2, <1>3, <1>4, RestFacts, RehashPlaced
<1>6. Exact(table') /\ (table').consistent = table.consistent /\ NodesIn(table') = NodesIn(table)
  BY <1>1, <1>5, RestFacts, CountsKept DEF SameCounts
<1>7. Placed(other') /\ Exact(other') /\ (other').consistent
  BY <1>1, RestFacts
<1> QED BY <1>1, <1>5, <1>6, <1>7, AlonePromise

\* An assignment, up to some element of the list.
LEMMA AssignedTable ==
    ASSUME Promise, Quiet, NEW list \in scenario.lists, HasRoom(list), NEW n \in 0 .. Len(list),
           NEW in_tx \in BOOLEAN
    PROVE  LET part == SubSeq(list, 1, n)
               new == internal_copy(reserve(ClearTable(table), Len(list)), part, ListIds(list), in_tx, 0)
           IN  /\ Placed(new) /\ Exact(new) /\ new.consistent = table.consistent
               /\ NodesIn(new) = Elements(part, ListIds(list))
               /\ Len(part) = n /\ \A i \in 1 .. n : part[i] = list[i]
<1> DEFINE part == SubSeq(list, 1, n)
           ids == ListIds(list)
<1>1. /\ list \in Seq([key : Keys, val : Values]) /\ Len(list) \in Nat
      /\ Len(list) \in 0 .. 2 ^ number_of_segments
  BY ListFacts DEF Promise, Inv
<1>2. ids \in Addresses(list, FreeIds)
  BY DEF HasRoom, ListIds
<1>3. \A i, k \in DOMAIN list : list[i].key = list[k].key => i = k
  BY ScenarioAssumption DEF Promise, Inv
<1>4. /\ part \in Seq([key : Keys, val : Values]) /\ DOMAIN part \subseteq DOMAIN list
      /\ Len(part) = n /\ DOMAIN part = 1 .. n /\ \A i \in 1 .. n : part[i] = list[i]
  <2> DEFINE S == [key : Keys, val : Values]
  <2> HIDE DEF S
  <2>1. list \in Seq(S) /\ n \in Nat /\ n <= Len(list) /\ Len(list) \in Nat
    BY <1>1 DEF S
  <2>2. \A i \in 1 .. n : list[i] \in S
    BY <2>1
  <2>3. part = [i \in 1 .. n |-> list[i]]
    BY <2>1
  <2>4. part \in Seq(S) /\ DOMAIN part = 1 .. n /\ Len(part) = n
    BY <2>1, <2>2, <2>3
  <2> QED BY <2>1, <2>3, <2>4 DEF S
<1>5. \A i, k \in DOMAIN list : ids[i] = ids[k] => i = k
  BY <1>1, <1>2, AddressFacts
<1> HIDE DEF ids, part
<1>6. \A i, k \in DOMAIN part : ids[i] = ids[k] => i = k
  BY <1>4, <1>5
<1>7. DistinctKeys(part)
  BY <1>3, <1>4 DEF DistinctKeys
<1>8. TableOK(table) /\ AllInUse(table) /\ Placed(table)
  BY RestFacts
<1>9. part \in Lists
  BY <1>4 DEF Lists
<1> DEFINE new == internal_copy(reserve(ClearTable(table), Len(list)), part, ids, in_tx, 0)
<1>10. Placed(new) /\ Exact(new) /\ new.consistent = table.consistent /\ NodesIn(new) = Elements(part, ids)
  BY <1>1, <1>6, <1>7, <1>8, <1>9, AssignedPlaced
<1> QED BY <1>4, <1>10 DEF part, ids

LEMMA AssignListPromise ==
    ASSUME Promise, assign_list
    PROVE  Promise'
<1>1. PICK list \in scenario.lists, in_tx \in BOOLEAN :
        HasRoom(list) /\ table' = AssignTable(table, list, ListIds(list), in_tx, 0)
  BY DEF assign_list
<1>2. Quiet /\ UNCHANGED <<acc, other, th, up>> /\ Inv'
  BY AssignListStep DEF assign_list, Alone, Promise
<1>3. list \in Seq([key : Keys, val : Values]) /\ Len(list) \in Nat
  BY ListFacts DEF Promise, Inv
<1>4. SubSeq(list, 1, Len(list)) = list /\ Len(list) \in 0 .. Len(list)
  BY <1>3
<1>5. Placed(table') /\ Exact(table') /\ (table').consistent = table.consistent
  BY <1>1, <1>2, <1>4, AssignedTable DEF AssignTable
<1>6. Placed(other') /\ Exact(other') /\ (other').consistent
  BY <1>2, RestFacts
<1> QED BY <1>2, <1>5, <1>6, AlonePromise

LEMMA AssignListCutPromise ==
    ASSUME Promise, assign_list_cut
    PROVE  Promise'
<1>0. PICK list \in scenario.lists : \E n \in 0 .. Len(list) :
        /\ HasRoom(list)
        /\ table' = internal_copy(reserve(ClearTable(table), Len(list)), SubSeq(list, 1, n),
                                  ListIds(list), FALSE, 0)
  BY DEF assign_list_cut
<1>1. PICK n \in 0 .. Len(list) :
        /\ HasRoom(list)
        /\ table' = internal_copy(reserve(ClearTable(table), Len(list)), SubSeq(list, 1, n),
                                  ListIds(list), FALSE, 0)
  BY <1>0
<1>2. Quiet /\ UNCHANGED <<acc, other>> /\ th' = Idle /\ up' = FALSE /\ Inv'
  BY AssignListCutStep DEF assign_list_cut, Alone, Promise
<1>3. Placed(table') /\ Exact(table') /\ (table').consistent = table.consistent
  BY <1>1, <1>2, AssignedTable
<1>4. Placed(other') /\ Exact(other') /\ (other').consistent
  BY <1>2, RestFacts
<1> QED BY <1>2, <1>3, <1>4, AlonePromise

\* Maps that a swap can exchange, and a swap that is undone can leave alone.
SwapsMatch == \A s \in Scenarios : s.any_sizes => s.alone \cap {"swap", "undone swap"} = {}

LEMMA SwapPromise ==
    ASSUME SwapsMatch, Promise, swap
    PROVE  Promise' /\ NodesIn(table') = NodesIn(other) /\ NodesIn(other') = NodesIn(table)
<1>1. /\ Quiet /\ UNCHANGED <<acc, th, up>> /\ Inv' /\ "swap" \in scenario.alone
      /\ table' = internal_swap(table, other) /\ other' = internal_swap(other, table)
  BY SwapStep DEF swap, Alone, Promise
<1>2. table.on_init_size = other.on_init_size
  BY <1>1 DEF swap, SwapsMatch, Promise, Inv
<1>3. /\ Placed(table') /\ Exact(table') /\ (table').consistent = table.consistent
      /\ NodesIn(table') = NodesIn(other)
  BY <1>1, <1>2, RestFacts, SwapPlaced
<1>4. /\ Placed(other') /\ Exact(other') /\ (other').consistent
      /\ NodesIn(other') = NodesIn(table)
  <2>1. (other').consistent = other.consistent /\ Placed(other') /\ Exact(other') /\ NodesIn(other') = NodesIn(table)
    BY <1>1, <1>2, RestFacts, SwapPlaced
  <2> QED BY <1>1, <2>1, RestFacts
<1> QED BY <1>1, <1>3, <1>4, AlonePromise

LEMMA SwapUndonePromise ==
    ASSUME SwapsMatch, Promise, swap_undone
    PROVE  Promise' /\ NodesIn(other') = NodesIn(other)
<1>1. /\ Quiet /\ UNCHANGED <<table, acc, th, up>> /\ "undone swap" \in scenario.alone
      /\ other' = SwapUndone(table, other)
  BY DEF swap_undone, Alone
<1>2. Inv'
  <2>1. UndoneSwapsMatch
    BY DEF SwapsMatch, UndoneSwapsMatch
  <2> QED BY <2>1, SwapUndoneStep DEF Promise
<1>3. table.my_mask = other.my_mask /\ table.my_size = other.my_size
  BY <1>1 DEF swap_undone, SwapsMatch, Promise, Inv
<1>4. /\ Placed(other') /\ Exact(other') /\ (other').consistent = other.consistent
      /\ NodesIn(other') = NodesIn(other)
  BY <1>1, <1>3, RestFacts, SwapUndonePlaced
<1>5. Placed(table') /\ Exact(table') /\ (table').consistent = table.consistent
  BY <1>1, RestFacts
<1>6. (other').consistent
  BY <1>1, <1>4, RestFacts
<1> QED BY <1>1, <1>2, <1>4, <1>5, <1>6, AlonePromise

LEMMA IdleRests ==
    /\ Asked(NoCall) /\ NoCall.ret # "pending"
    /\ \A t \in Threads : Idle[t].pc = "idle" /\ Idle[t].call = NoCall
  BY DEF NoCall, AfterCall, Asked, Idle

LEMMA CrashPromise ==
    ASSUME Promise, Crash
    PROVE  Promise' /\ NodesIn(table') = NodesIn(table)
<1>1. PICK kept \in SUBSET (table.rehashed \ table.durable) :
        table' = [table EXCEPT !.rehashed = table.durable \cup kept, !.durable = table.durable \cup kept]
  BY DEF Crash
<1>2. /\ UNCHANGED other /\ th' = Idle /\ acc' = [t \in Threads |-> NoAccessor] /\ up' = FALSE /\ Inv'
  BY CrashStep DEF Crash, Promise
<1>3. TableOK(table) /\ TableOK(table') /\ Placed(table) /\ table.my_mask \in Nat
      /\ table.durable \subseteq table.rehashed
  BY <1>2 DEF Promise, Inv, TableOK, TableType
<1>4. /\ (table').node_list = table.node_list
      /\ (table').rehashed = table.durable \cup kept /\ (table').tls = table.tls
      /\ (table').my_mask = table.my_mask /\ (table').my_size = table.my_size
      /\ (table').on_init_size = table.on_init_size /\ (table').consistent = table.consistent
  BY <1>1, <1>3 DEF TableOK, TableType
<1>5. Placed(table') /\ NodesIn(table') = NodesIn(table)
  <2>1. (table').rehashed \subseteq table.rehashed
    BY <1>3, <1>4
  <2>2. table.my_mask <= (table').my_mask
    BY <1>3, <1>4
  <2> QED BY <1>3, <1>4, <2>1, <2>2, SamePlaced
<1>6. SameCounts(table, table')
  BY <1>4, <1>5 DEF SameCounts
<1>7. Sized(table') /\ ((table').consistent => Counted(table'))
  BY <1>6, CountsKept DEF Promise, SizesOK, SameCounts
<1>8. Placed(other') /\ Exact(other') /\ (other').consistent
  BY <1>2 DEF Promise, SizesOK
<1>9. \A t \in Threads : /\ th'[t].pc = "idle" /\ Asked(th'[t].call) /\ th'[t].call.ret # "pending"
                         /\ acc'[t] = NoAccessor
  BY <1>2, IdleRests
<1>10. Resting'
  BY <1>2, <1>5, <1>7, <1>8, <1>9 DEF Resting
<1> QED BY <1>2, <1>5, <1>10, RestingNext

LEMMA RestartPromise ==
    ASSUME Promise, Restart
    PROVE  Promise' /\ NodesIn(table') = NodesIn(table) /\ NodesIn(other') = NodesIn(other)
<1>1. /\ ~up /\ up' = TRUE /\ table' = runtime_initialize(table) /\ other' = runtime_initialize(other)
      /\ UNCHANGED <<th, acc>> /\ Inv'
  BY RestartStep DEF Restart, Promise
<1>2. th = Idle /\ acc = [t \in Threads |-> NoAccessor]
  BY <1>1 DEF Promise, Inv, DownOK
<1>3. /\ Placed(table') /\ Exact(table') /\ NodesIn(table') = NodesIn(table) /\ (table').consistent
  BY <1>1, InitializePlaced DEF Promise, Inv, SegmentsOK, SizesOK
<1>4. /\ Placed(other') /\ Exact(other') /\ NodesIn(other') = NodesIn(other) /\ (other').consistent
  <2>1. Sized(other) /\ Counted(other)
    BY DEF Promise, SizesOK, Exact
  <2> QED BY <1>1, <2>1, InitializePlaced DEF Promise, Inv
<1>5. \A t \in Threads : /\ th'[t].pc = "idle" /\ Asked(th'[t].call) /\ th'[t].call.ret # "pending"
                         /\ acc'[t] = NoAccessor
  BY <1>1, <1>2, IdleRests
<1>6. Resting'
  BY <1>3, <1>4, <1>5 DEF Resting, Exact
<1> QED BY <1>1, <1>3, <1>4, <1>6, RestingNext

LEMMA InitPromise == Init => Promise
<1> SUFFICES ASSUME Init PROVE Promise
  OBVIOUS
<1>1. PICK list \in scenario.lists, consistent \in BOOLEAN :
        LET built == ConstructFrom(list, CHOOSE ids \in Addresses(list, NodeIds) : TRUE, TRUE, 0)
        IN  /\ Addresses(list, NodeIds) # {}
            /\ table = IF consistent THEN built
                       ELSE [built EXCEPT !.consistent = FALSE, !.on_init_size = 0]
  BY DEF Init
<1> DEFINE ids == CHOOSE ids \in Addresses(list, NodeIds) : TRUE
           built == internal_copy(reserve(Constructed, Len(list)), list, ids, TRUE, 0)
<1>2. /\ list \in Seq([key : Keys, val : Values]) /\ Len(list) \in 0 .. 2 ^ number_of_segments
      /\ \A i, k \in DOMAIN list : list[i].key = list[k].key => i = k
  BY ListFacts, ScenarioAssumption DEF Init
<1>3. ids \in Addresses(list, NodeIds)
  BY <1>1
<1>4. \A i, k \in DOMAIN list : ids[i] = ids[k] => i = k
  BY <1>2, <1>3, AddressFacts
<1>5. table = IF consistent THEN built ELSE [built EXCEPT !.consistent = FALSE, !.on_init_size = 0]
  BY <1>1 DEF ConstructFrom
<1> HIDE DEF ids
<1>6. Placed(built) /\ Exact(built) /\ built.consistent = Constructed.consistent
  BY <1>2, <1>4, ConstructedPlaced, FilledPlaced DEF DistinctKeys, Lists
<1> HIDE DEF built
<1>7. Inv
  BY InitOK
<1>8. /\ Placed(table) /\ Sized(table) /\ (table.consistent => Counted(table))
  <2>1. CASE consistent
    BY <1>5, <1>6, <2>1 DEF Exact
  <2>2. CASE ~consistent
    <3>1. table = [built EXCEPT !.consistent = FALSE, !.on_init_size = 0]
      BY <1>5, <2>2
    <3>2. /\ TableOK(table)
      BY <1>7 DEF Inv
    <3>3. DOMAIN table = DOMAIN built
      BY <3>1
    <3>4. /\ table.node_list = built.node_list /\ table.rehashed = built.rehashed
          /\ table.my_mask = built.my_mask /\ table.my_size = built.my_size
          /\ table.on_init_size = 0 /\ table.consistent = FALSE
      BY <3>1, <3>2, <3>3 DEF TableOK, TableType
    <3>5. Placed(table)
      BY <1>6, <3>4 DEF Placed, Located, InRange, KeysDiffer, Reached
    <3>6. Sized(table)
      BY <1>6, <3>4 DEF Exact, Sized, NodesIn
    <3> QED BY <3>4, <3>5, <3>6
  <2> QED BY <2>1, <2>2
<1>9. other = Constructed /\ th = Idle /\ acc = [t \in Threads |-> NoAccessor] /\ up = FALSE
  BY DEF Init
<1>10. Placed(other) /\ Exact(other) /\ other.consistent
  BY <1>9, ConstructedPlaced
<1>11. \A t \in Threads : /\ th[t].pc = "idle" /\ Asked(th[t].call) /\ th[t].call.ret # "pending"
                          /\ acc[t] = NoAccessor
  BY <1>9, IdleRests
<1>12. Resting
  BY <1>8, <1>9, <1>10, <1>11 DEF Resting
<1> QED BY <1>7, <1>12, RestingOK


LEMMA IdlePromise ==
    ASSUME Promise, UNCHANGED vars
    PROVE  Promise'
<1>1. Inv'
  BY Stutter DEF Promise
<1>2. UNCHANGED <<table, other, th, acc, up>>
  BY DEF vars
<1>3. Placed(table') /\ Placed(other')
  BY <1>2 DEF Promise
<1>4. CallersOK'
  BY <1>2 DEF Promise, CallersOK
<1>5. Marking'
  BY <1>2 DEF Promise, Marking
<1>6. AccessorsOK' /\ Accessed' /\ Owned'
  BY <1>2 DEF Promise, AccessorsOK, Accessed, Owned
<1>7. SizesOK'
  BY <1>2 DEF Promise, SizesOK, Uncounted, ThreadsAt
<1> QED BY <1>1, <1>3, <1>4, <1>5, <1>6, <1>7 DEF Promise

LEMMA WorkPromise ==
    ASSUME Promise, NEW t \in Threads, Step(t)
    PROVE  Promise'
  BY CheckRehashedPromise, TryLockPromise, LockBucketPromise, RehashBucketPromise, MarkRehashedPromise,
     PersistRehashedPromise, SearchMissPromise, SearchHitPromise, TryItemPromise, LocalSizeDiffPromise,
     CacheTlsSizePromise, InsertNodePromise, CountInsertedPromise, AssignItemPromise, EraseNodePromise,
     CountErasedPromise, CheckGrowthPromise, EnableSegmentPromise, PublishMaskPromise, SaveNodesPromise,
     RunDefragPromise, ReleaseAccessorPromise DEF Step

LEMMA NextPromise ==
    ASSUME SwapsMatch, Promise, [Next]_vars
    PROVE  Promise'
<1>1. ASSUME \E t \in Threads : Calls(t) \/ Step(t) \/ StoreThroughAccessor(t) PROVE Promise'
  BY <1>1, WorkPromise, CallsPromise, StoreThroughAccessorPromise
<1>2. ASSUME clear_map \/ rehash_map \/ assign_list \/ assign_list_cut PROVE Promise'
  BY <1>2, ClearMapPromise, RehashMapPromise, AssignListPromise, AssignListCutPromise
<1>3. ASSUME swap \/ swap_undone PROVE Promise'
  BY <1>3, SwapPromise, SwapUndonePromise
<1>4. ASSUME Crash \/ Restart PROVE Promise'
  BY <1>4, CrashPromise, RestartPromise
<1> QED BY <1>1, <1>2, <1>3, <1>4, IdlePromise DEF Next

\* The invariant that the promise rests on: where a key can be, what a thread
\* that found nothing or something knows while its bucket is locked, who may
\* use an element, and how many are not counted yet.
THEOREM PromiseInvariant ==
    ASSUME SwapsMatch
    PROVE  Spec => []Promise
<1>1. Init => Promise
  BY InitPromise
<1>2. Promise /\ [Next]_vars => Promise'
  BY NextPromise
<1> QED BY <1>1, <1>2, PTL DEF Spec

\* No key is in the map twice: two threads that insert it, in buckets that are
\* added and filled meanwhile, do not both find it missing (internal_insert).
THEOREM NoKeyTwice ==
    ASSUME SwapsMatch
    PROVE  Spec => [](KeysUnique(table) /\ KeysUnique(other))
<1>1. Promise => KeysUnique(table) /\ KeysUnique(other)
  BY PlacedUnique DEF Promise, Inv
<1> QED BY <1>1, PromiseInvariant, PTL

LEMMA PromiseCounts == Promise => SizeIsDistance
<1> SUFFICES ASSUME Promise, Quiet
             PROVE  table.my_size = distance(table) /\ other.my_size = distance(other)
  BY DEF SizeIsDistance
<1> QED BY RestFacts, DistanceIs DEF Exact

\* size() is the number of elements whenever no call is under way, although it
\* is counted apart from the transactions, by thread, and restored from the
\* parts by runtime_initialize() after a crash at any step.
THEOREM SizeIsRight ==
    ASSUME SwapsMatch
    PROVE  Spec => []SizeIsDistance
  BY PromiseInvariant, PromiseCounts, PTL


-----------------------------------------------------------------------------
(* What a table holds, for a caller *)

LEMMA ContentsAre ==
    ASSUME NEW tab, TableOK(tab), KeysUnique(tab)
    PROVE  /\ Contents(tab) \in [Keys -> Values \cup {None}]
           /\ \A n \in NodesIn(tab) : n.key \in Keys /\ n.val \in Values /\ Contents(tab)[n.key] = n.val
           /\ \A k \in Keys : (\A n \in NodesIn(tab) : n.key # k) => Contents(tab)[k] = None
<1>1. \A n \in NodesIn(tab) : n.key \in Keys /\ n.val \in Values
  BY InBucket, NodeFacts
<1>2. ASSUME NEW k \in Keys, NEW n \in NodesIn(tab), n.key = k
      PROVE  Contents(tab)[k] = n.val
  <2>1. (CHOOSE m \in NodesIn(tab) : m.key = k) = n
    BY <1>2 DEF KeysUnique
  <2> QED BY <1>2, <2>1 DEF Contents
<1>3. ASSUME NEW k \in Keys, \A n \in NodesIn(tab) : n.key # k
      PROVE  Contents(tab)[k] = None
  BY <1>3 DEF Contents
<1>4. Contents(tab) = [k \in Keys |-> Contents(tab)[k]]
  BY DEF Contents
<1>5. \A k \in Keys : Contents(tab)[k] \in Values \cup {None}
  BY <1>1, <1>2, <1>3
<1> QED BY <1>1, <1>2, <1>3, <1>4, <1>5

LEMMA SameContents ==
    ASSUME NEW tab, NEW new, NodesIn(new) = NodesIn(tab)
    PROVE  Contents(new) = Contents(tab)
  BY DEF Contents

LEMMA SameLists ==
    ASSUME NEW tab, NEW new, new.node_list = tab.node_list
    PROVE  Contents(new) = Contents(tab)
<1>1. NodesIn(new) = NodesIn(tab)
  BY DEF NodesIn
<1> QED BY <1>1, SameContents

\* One key's element comes, goes or changes.
LEMMA ContentsChanged ==
    ASSUME NEW tab, TableOK(tab), KeysUnique(tab), NEW new, TableOK(new), KeysUnique(new),
           NEW k \in Keys, NEW v,
           \/ v = None /\ \A n \in NodesIn(new) : n.key # k
           \/ \E n \in NodesIn(new) : n.key = k /\ n.val = v,
           \A n \in NodesIn(new) : n.key # k => n \in NodesIn(tab),
           \A n \in NodesIn(tab) : n.key # k => n \in NodesIn(new)
    PROVE  Contents(new) = [Contents(tab) EXCEPT ![k] = v]
<1>1. Contents(tab) \in [Keys -> Values \cup {None}] /\ Contents(new) \in [Keys -> Values \cup {None}]
  BY ContentsAre
<1>2. Contents(new)[k] = v
  BY ContentsAre
<1>3. ASSUME NEW j \in Keys, j # k PROVE Contents(new)[j] = Contents(tab)[j]
  <2>1. CASE \E n \in NodesIn(tab) : n.key = j
    <3>1. PICK n \in NodesIn(tab) : n.key = j
      BY <2>1
    <3>2. n \in NodesIn(new)
      BY <1>3, <3>1
    <3> QED BY <3>1, <3>2, ContentsAre
  <2>2. CASE \A n \in NodesIn(tab) : n.key # j
    <3>1. \A n \in NodesIn(new) : n.key # j
      BY <1>3, <2>2
    <3> QED BY <2>2, <3>1, ContentsAre
  <2> QED BY <2>1, <2>2
<1> QED BY <1>1, <1>2, <1>3

\* The value that a list gives a key.
ValueIn(list, k) ==
    IF \E i \in DOMAIN list : list[i].key = k
    THEN list[CHOOSE i \in DOMAIN list : list[i].key = k].val ELSE None

LEMMA ContentsOfList ==
    ASSUME NEW list \in Lists, DistinctKeys(list), NEW ids, NEW tab, NodesIn(tab) = Elements(list, ids)
    PROVE  Contents(tab) = [k \in Keys |-> ValueIn(list, k)]
<1>1. ASSUME NEW k \in Keys PROVE Contents(tab)[k] = ValueIn(list, k)
  <2>1. CASE \E i \in DOMAIN list : list[i].key = k
    <3> DEFINE i == CHOOSE i \in DOMAIN list : list[i].key = k
    <3>1. i \in DOMAIN list /\ list[i].key = k
      BY <2>1
    <3> DEFINE n == CHOOSE n \in NodesIn(tab) : n.key = k
    <3>2. Element(list, ids, i) \in NodesIn(tab) /\ Element(list, ids, i).key = k
      <4> HIDE DEF i
      <4>1. Element(list, ids, i).key = k
        BY <3>1, ElementFacts
      <4>2. Element(list, ids, i) \in Elements(list, ids)
        BY <3>1 DEF Elements
      <4> QED BY <4>1, <4>2
    <3>3. n \in NodesIn(tab) /\ n.key = k
      BY <3>2
    <3>4. Contents(tab)[k] = n.val /\ ValueIn(list, k) = list[i].val
      BY <2>1, <3>2 DEF Contents, ValueIn
    <3> HIDE DEF i, n
    <3>5. PICK j \in DOMAIN list : n = Element(list, ids, j)
      BY <3>3 DEF Elements
    <3>6. n.key = list[j].key /\ n.val = list[j].val
      BY <3>5, ElementFacts
    <3>7. j = i
      BY <3>1, <3>3, <3>6 DEF DistinctKeys
    <3> QED BY <3>4, <3>6, <3>7
  <2>2. CASE \A i \in DOMAIN list : list[i].key # k
    <3>1. \A n \in NodesIn(tab) : n.key # k
      BY <2>2, ElementFacts DEF Elements
    <3> QED BY <2>2, <3>1 DEF Contents, ValueIn
  <2> QED BY <2>1, <2>2
<1> QED BY <1>1 DEF Contents


-----------------------------------------------------------------------------
(* What a caller sees of the threads *)

Unheld == [key |-> None, mode |-> "none"]

Granted(a, r) ==
    /\ \/ a # NoAccessor
       \/ r.pc \in {"count", "item"} /\ r.call.ret = "true" /\ r.call.mode # "none"
    /\ r.call.op # "insert_or_assign"
HeldBy(a, r) == IF Granted(a, r) THEN [key |-> r.call.key, mode |-> r.call.mode] ELSE Unheld

CallsMade == [t \in Threads |-> th[t].call]
ElementsHeld == [t \in Threads |-> HeldBy(acc[t], th[t])]

\* The four parts of what a caller sees.
Seen == <<Contents(table), Contents(other), CallsMade, ElementsHeld>>

LEMMA SeenIs == Promised!vars = Seen
  BY DEF Promised!vars, Seen, CallsMade, ElementsHeld, HeldBy, Granted, Unheld

CallSeen(t, call) == CallsMade' = [CallsMade EXCEPT ![t] = call]
ElementSeen(t, held) == ElementsHeld' = [ElementsHeld EXCEPT ![t] = held]

LEMMA SameCall ==
    ASSUME NEW t \in Threads, CallSeen(t, th[t].call)
    PROVE  CallsMade' = CallsMade
<1>1. CallsMade' = [CallsMade EXCEPT ![t] = th[t].call]
  BY DEF CallSeen
<1>2. [CallsMade EXCEPT ![t] = th[t].call] = CallsMade
  BY DEF CallsMade
<1> QED BY <1>1, <1>2

LEMMA SameElement ==
    ASSUME NEW t \in Threads, ElementSeen(t, HeldBy(acc[t], th[t]))
    PROVE  ElementsHeld' = ElementsHeld
<1>1. ElementsHeld' = [ElementsHeld EXCEPT ![t] = HeldBy(acc[t], th[t])]
  BY DEF ElementSeen
<1>2. [ElementsHeld EXCEPT ![t] = HeldBy(acc[t], th[t])] = ElementsHeld
  BY DEF ElementsHeld
<1> QED BY <1>1, <1>2

\* A step of one thread.
LEMMA SeenStep ==
    ASSUME Inv, NEW t \in Threads, NEW r, th' = [th EXCEPT ![t] = r], NEW a, acc' = [acc EXCEPT ![t] = a]
    PROVE  CallSeen(t, r.call) /\ ElementSeen(t, HeldBy(a, r))
<1>1. DOMAIN th = Threads /\ DOMAIN acc = Threads
  BY DEF Inv
<1>2. th'[t] = r /\ acc'[t] = a
  BY <1>1
<1>3. \A u \in Threads \ {t} : th'[u] = th[u] /\ acc'[u] = acc[u]
  BY <1>1
<1>4. CallsMade' = [u \in Threads |-> th'[u].call]
  BY DEF CallsMade
<1>5. ElementsHeld' = [u \in Threads |-> HeldBy(acc'[u], th'[u])]
  BY DEF ElementsHeld, HeldBy, Granted, Unheld
<1>6. \A u \in Threads : HeldBy(acc'[u], th'[u]) = IF u = t THEN HeldBy(a, r) ELSE HeldBy(acc[u], th[u])
  BY <1>2, <1>3
<1>7. \A u \in Threads : th'[u].call = IF u = t THEN r.call ELSE th[u].call
  BY <1>2, <1>3
<1>8. ElementsHeld' = [ElementsHeld EXCEPT ![t] = HeldBy(a, r)]
  BY <1>5, <1>6 DEF ElementsHeld
<1>9. CallsMade' = [CallsMade EXCEPT ![t] = r.call]
  BY <1>4, <1>7 DEF CallsMade
<1> QED BY <1>8, <1>9 DEF CallSeen, ElementSeen

\* A step that nobody sees.
LEMMA Hidden ==
    ASSUME UNCHANGED Seen
    PROVE  [Promised!Next]_(Promised!vars)
  BY DEF Promised!vars, Seen, CallsMade, ElementsHeld, HeldBy, Granted, Unheld

\* The thread is still in the same call, or has returned from it.
LEMMA HiddenStep ==
    ASSUME Inv, NEW t \in Threads, NEW r, th' = [th EXCEPT ![t] = r], NEW a, acc' = [acc EXCEPT ![t] = a],
           r.call = th[t].call, HeldBy(a, r) = HeldBy(acc[t], th[t]),
           Contents(table') = Contents(table), UNCHANGED other
    PROVE  [Promised!Next]_(Promised!vars)
<1>1. CallSeen(t, r.call) /\ ElementSeen(t, HeldBy(a, r))
  BY SeenStep
<1>2. CallSeen(t, th[t].call) /\ ElementSeen(t, HeldBy(acc[t], th[t]))
  BY <1>1
<1>3. CallsMade' = CallsMade /\ ElementsHeld' = ElementsHeld
  BY <1>2, SameCall, SameElement
<1>4. Contents(other') = Contents(other)
  OBVIOUS
<1> QED BY <1>3, <1>4, Hidden DEF Seen

\* A step that its caller sees.
LEMMA Visible ==
    ASSUME NEW t \in Threads,
           \/ Promised!Invoke(t) \/ Promised!Miss(t) \/ Promised!Hit(t) \/ Promised!Insert(t)
           \/ Promised!InsertOrAssign(t) \/ Promised!Erase(t) \/ Promised!Defragment(t)
           \/ Promised!Store(t) \/ Promised!Release(t)
    PROVE  [Promised!Next]_(Promised!vars)
<1>1. SUFFICES ASSUME ~UNCHANGED Promised!vars PROVE Promised!Next
  OBVIOUS
<1> QED BY <1>1 DEF Promised!Next

LEMMA VisibleToAll ==
    ASSUME \/ Promised!Crash \/ Promised!Clear \/ Promised!Assign \/ Promised!AssignCut \/ Promised!Swap
    PROVE  [Promised!Next]_(Promised!vars)
<1>1. SUFFICES ASSUME ~UNCHANGED Promised!vars PROVE Promised!Next
  OBVIOUS
<1> QED BY <1>1 DEF Promised!Next

\* What a thread holds, in the middle of a call.
LEMMA HeldInCall ==
    ASSUME NEW a, NEW r, a = NoAccessor,
           r.call.ret # "true" \/ r.pc \notin {"count", "item"} \/ r.call.mode = "none"
    PROVE  HeldBy(a, r) = Unheld
  BY DEF HeldBy, Granted

-----------------------------------------------------------------------------
(* An element that others hold *)

\* The element of the key that a thread is promised is a node that it has an
\* accessor for, or has just inserted.
LEMMA HeldNode ==
    ASSUME Promise, NEW u \in Threads, NEW k \in Keys, ElementsHeld[u].key = k
    PROVE  /\ ElementsHeld[u].mode = th[u].call.mode /\ th[u].call.key = k
           /\ \/ /\ acc[u] # NoAccessor /\ acc[u].mode = th[u].call.mode
                 /\ \E n \in NodesIn(table) : n.id = acc[u].id /\ n.key = k
              \/ /\ Owns(th[u])
                 /\ \E n \in NodesIn(table) : n.id = th[u].id /\ n.key = k
<1>1. ElementsHeld[u] = HeldBy(acc[u], th[u])
  BY DEF ElementsHeld
<1>2. k # None
  BY NoneAssumption
<1>3. Granted(acc[u], th[u])
  BY <1>1, <1>2 DEF HeldBy, Unheld
<1>4. ElementsHeld[u].mode = th[u].call.mode /\ th[u].call.key = k
  BY <1>1, <1>3 DEF HeldBy
<1>5. CASE acc[u] # NoAccessor
  <2>1. HoldsItem(acc[u], th[u], table)
    BY <1>5 DEF Promise, AccessorsOK, AccessorOK
  <2> QED BY <1>4, <1>5, <2>1 DEF HoldsItem
<1>6. CASE th[u].pc \in {"count", "item"} /\ th[u].call.ret = "true"
  <2>1. Owns(th[u]) /\ HasItem(th[u])
    BY <1>6 DEF Owns, HasItem
  <2>2. /\ Head(th[u].path) \in Buckets
        /\ \E n \in table.node_list[Head(th[u].path)] : n.id = th[u].id /\ n.key = th[u].call.key
    BY <2>1, ItemFacts
  <2> QED BY <1>4, <2>1, <2>2 DEF NodesIn
<1> QED BY <1>3, <1>5, <1>6 DEF Granted

\* A thread that was let at the node of a key is the only one, or one of those
\* that read it.
LEMMA KeyFree ==
    ASSUME Promise, NEW t \in Threads, NEW n \in NodesIn(table), NEW k \in Keys, n.key = k,
           \/ HasItem(th[t]) /\ th[t].id = n.id
           \/ acc[t].id = n.id,
           NEW mode, \A u \in Threads \ {t} : acc[u].id = n.id => Compatible(acc[u].mode, mode)
    PROVE  Promised!Free(t, k, mode)
<1>1. KeysUnique(table)
  BY PlacedUnique DEF Promise, Inv
<1>2. ASSUME NEW u \in Threads \ {t}, ElementsHeld[u].key = k
      PROVE  ElementsHeld[u].mode = "read" /\ mode = "read"
  <2>1. CASE acc[u] # NoAccessor /\ acc[u].mode = th[u].call.mode
             /\ \E m \in NodesIn(table) : m.id = acc[u].id /\ m.key = k
    <3>1. acc[u].id = n.id
      BY <1>1, <2>1 DEF KeysUnique
    <3> QED BY <1>2, <2>1, <3>1, HeldNode DEF Compatible
  <2>2. CASE Owns(th[u]) /\ \E m \in NodesIn(table) : m.id = th[u].id /\ m.key = k
    <3>1. th[u].id = n.id
      BY <1>1, <2>2 DEF KeysUnique
    <3>2. HasItem(th[u]) /\ th[u].call.op \notin {"count", "find"}
      BY <2>2, OwnsFacts
    <3>3. ~(HasItem(th[t]) /\ th[t].id = n.id)
      BY <3>1, <3>2, OneWorker
    <3>4. acc[t].id # n.id
      BY <2>2, <3>1 DEF Promise, Owned
    <3> QED BY <3>3, <3>4
  <2> QED BY <1>2, <2>1, <2>2, HeldNode
<1>3. \A u \in Threads \ {t} : ElementsHeld[u].key = k => ElementsHeld[u].mode = "read" /\ mode = "read"
  BY <1>2
<1> QED BY <1>3 DEF Promised!Free, ElementsHeld, HeldBy, Granted, Unheld

\* Nobody holds an element that is not there.
LEMMA AbsentFree ==
    ASSUME Promise, NEW t \in Threads, NEW k \in Keys, \A n \in NodesIn(table) : n.key # k, NEW mode
    PROVE  Promised!Free(t, k, mode)
<1>1. \A u \in Threads : ElementsHeld[u].key # k
  BY HeldNode
<1> QED BY <1>1 DEF Promised!Free, ElementsHeld, HeldBy, Granted, Unheld


-----------------------------------------------------------------------------
(* What callers see of each action *)

\* Within a call that has not taken effect yet.
LEMMA InsideStep ==
    ASSUME Inv, NEW t \in Threads, NEW r, th' = [th EXCEPT ![t] = r], UNCHANGED <<acc, other>>,
           r.call = th[t].call, th[t].call.ret = "pending", Contents(table') = Contents(table)
    PROVE  [Promised!Next]_(Promised!vars)
<1>1. acc' = [acc EXCEPT ![t] = acc[t]]
  BY DEF Inv
<1>2. HeldBy(acc[t], r) = HeldBy(acc[t], th[t])
  BY DEF HeldBy, Granted
<1> QED BY <1>1, <1>2, HiddenStep

LEMMA PendingAt ==
    ASSUME Promise, NEW t \in Threads,
           th[t].pc \in Seeking \cup {"local", "cache", "insert", "erase", "defrag", "assign"}
    PROVE  /\ th[t].call.ret = "pending" /\ ThreadType(th[t]) /\ CallOK(th[t])
           /\ Asked(th[t].call) /\ AnswerOK(th[t]) /\ AccessorOK(acc[t], th[t], table)
  BY DEF Promise, CallersOK, CallerOK, AnswerOK, Inv, ThreadsOK, ThreadOK, AccessorsOK

LEMMA CheckRehashedSeen ==
    ASSUME Promise, NEW t \in Threads, CheckRehashed(t)
    PROVE  [Promised!Next]_(Promised!vars)
<1> DEFINE r == [th[t] EXCEPT !.pc = IF Top(t) \in table.rehashed THEN "lock" ELSE "try"]
<1>1. /\ th[t].pc \in Seeking /\ Inv /\ UNCHANGED <<table, acc, other>>
      /\ th' = [th EXCEPT ![t] = r]
  BY DEF CheckRehashed, Seeking, Descending, Promise, env
<1>2. r.call = th[t].call /\ th[t].call.ret = "pending"
  BY <1>1, PendingAt DEF ThreadType
<1> HIDE DEF r
<1> QED BY <1>1, <1>2, InsideStep

LEMMA AcquiredCall ==
    ASSUME NEW q, ThreadType(q)
    PROVE  Acquired(q).call = q.call
  BY DEF Acquired, ThreadType

LEMMA TryLockSeen ==
    ASSUME Promise, NEW t \in Threads, TryLock(t)
    PROVE  [Promised!Next]_(Promised!vars)
<1> DEFINE b == Top(t)
<1> DEFINE locked == [th[t] EXCEPT !.locks = @ \cup {<<b, "write">>}]
<1>1. th[t].pc \in Seeking /\ th[t].pc \in InTable /\ Inv /\ UNCHANGED <<acc, other>> /\ TableOK(table)
  BY DEF TryLock, Seeking, Descending, InTable, Promise, Inv, env
<1>2. ThreadType(th[t]) /\ th[t].call.ret = "pending"
  BY <1>1, PendingAt
<1>3. ThreadType(locked) /\ locked.call = th[t].call
  <2>1. ThreadOK(t, th[t], table)
    BY <1>1 DEF Inv, ThreadsOK
  <2>2. <<b, "write">> \in Lock
    BY <1>1, <2>1, PathFacts DEF Lock, Top
  <2> QED BY <1>2, <2>2 DEF ThreadType
<1>4. Contents(table') = Contents(table)
  <2>1. CASE UNCHANGED table
    BY <2>1
  <2>2. CASE table' = set_rehashed(table, b)
    BY <1>1, <2>2, MarkFields, SameLists
  <2> QED BY <2>1, <2>2 DEF TryLock, b
<1>5. \E r : th' = [th EXCEPT ![t] = r] /\ r.call = th[t].call
  <2>1. CASE th' = [th EXCEPT ![t].pc = "lock"]
    <3> DEFINE r == [th[t] EXCEPT !.pc = "lock"]
    <3>1. th' = [th EXCEPT ![t] = r] /\ r.call = th[t].call
      BY <1>2, <2>1 DEF ThreadType
    <3> QED BY <3>1
  <2> HIDE DEF locked
  <2>2. CASE th' = [th EXCEPT ![t] = Acquired(locked)]
    BY <1>3, <2>2, AcquiredCall
  <2>3. CASE th' = [th EXCEPT ![t] = [locked EXCEPT !.pc = "persist"]]
    <3> DEFINE r == [locked EXCEPT !.pc = "persist"]
    <3>1. th' = [th EXCEPT ![t] = r] /\ r.call = th[t].call
      BY <1>3, <2>3 DEF ThreadType
    <3> QED BY <3>1
  <2>4. CASE th' = [th EXCEPT ![t] = [locked EXCEPT !.pc = "bucket", !.path = Append(@, Parent(b))]]
    <3> DEFINE path == Append(locked.path, Parent(b))
    <3> DEFINE r == [locked EXCEPT !.pc = "bucket", !.path = path]
    <3>1. th' = [th EXCEPT ![t] = r]
      BY <2>4
    <3> HIDE DEF path
    <3>2. r.call = th[t].call
      BY <1>3 DEF ThreadType
    <3> QED BY <3>1, <3>2
  <2> QED BY <2>1, <2>2, <2>3, <2>4 DEF TryLock, locked, b
<1> QED BY <1>1, <1>2, <1>4, <1>5, InsideStep

LEMMA LockBucketSeen ==
    ASSUME Promise, NEW t \in Threads, LockBucket(t)
    PROVE  [Promised!Next]_(Promised!vars)
<1> DEFINE mode == IF Len(th[t].path) > 1 THEN "write" ELSE BucketMode(th[t].call.op)
<1> DEFINE locked == [th[t] EXCEPT !.locks = @ \cup {<<Top(t), mode>>}]
<1> DEFINE r == Acquired(locked)
<1>1. /\ th[t].pc \in Seeking /\ th[t].pc \in InTable /\ Inv /\ UNCHANGED <<table, acc, other>>
      /\ th' = [th EXCEPT ![t] = r]
  BY DEF LockBucket, Seeking, Descending, InTable, Promise, env
<1>2. ThreadType(th[t]) /\ th[t].call.ret = "pending"
  BY <1>1, PendingAt
<1>3. mode \in {"read", "write"}
  BY DEF BucketMode
<1> HIDE DEF mode
<1>4. ThreadType(locked) /\ locked.call = th[t].call
  <2>1. ThreadOK(t, th[t], table)
    BY <1>1 DEF Inv, ThreadsOK
  <2>2. <<Top(t), mode>> \in Lock
    BY <1>1, <1>3, <2>1, PathFacts DEF Lock, Top
  <2> QED BY <1>2, <2>2 DEF ThreadType
<1> HIDE DEF locked
<1>5. r.call = th[t].call
  BY <1>4, AcquiredCall
<1> HIDE DEF r
<1> QED BY <1>1, <1>2, <1>5, InsideStep

LEMMA RehashBucketSeen ==
    ASSUME Promise, NEW t \in Threads, RehashBucket(t)
    PROVE  [Promised!Next]_(Promised!vars)
<1> DEFINE r == [th[t] EXCEPT !.pc = "mark"]
<1>1. th[t].pc \in Seeking /\ Inv /\ UNCHANGED <<acc, other>> /\ th' = [th EXCEPT ![t] = r]
  BY DEF RehashBucket, Seeking, Rehashing, Promise, env
<1>2. r.call = th[t].call /\ th[t].call.ret = "pending"
  BY <1>1, PendingAt DEF ThreadType
<1> HIDE DEF r
<1>3. Contents(table') = Contents(table)
  BY RehashBucketPromise, SameContents
<1> QED BY <1>1, <1>2, <1>3, InsideStep

LEMMA MarkRehashedSeen ==
    ASSUME Promise, NEW t \in Threads, MarkRehashed(t)
    PROVE  [Promised!Next]_(Promised!vars)
<1> DEFINE r == [th[t] EXCEPT !.pc = "persist"]
<1>1. /\ th[t].pc \in Seeking /\ Inv /\ UNCHANGED <<acc, other>> /\ th' = [th EXCEPT ![t] = r]
      /\ TableOK(table) /\ table' = set_rehashed(table, Top(t))
  BY DEF MarkRehashed, Seeking, Rehashing, Promise, Inv, env
<1>2. r.call = th[t].call /\ th[t].call.ret = "pending"
  BY <1>1, PendingAt DEF ThreadType
<1> HIDE DEF r
<1>3. Contents(table') = Contents(table)
  BY <1>1, MarkFields, SameLists
<1> QED BY <1>1, <1>2, <1>3, InsideStep

LEMMA PersistRehashedSeen ==
    ASSUME Promise, NEW t \in Threads, PersistRehashed(t)
    PROVE  [Promised!Next]_(Promised!vars)
<1> DEFINE unlocked == [th[t] EXCEPT !.locks = {l \in @ : l[1] # Parent(Top(t))}]
<1> DEFINE r == Acquired(unlocked)
<1>1. /\ th[t].pc \in Seeking /\ Inv /\ UNCHANGED <<acc, other>> /\ th' = [th EXCEPT ![t] = r]
      /\ TableOK(table) /\ table' = persist_rehashed(table, Top(t))
  BY DEF PersistRehashed, Seeking, Rehashing, Promise, Inv, env
<1>2. ThreadType(th[t]) /\ th[t].call.ret = "pending"
  BY <1>1, PendingAt
<1>3. ThreadType(unlocked) /\ unlocked.call = th[t].call
  BY <1>2 DEF ThreadType
<1> HIDE DEF unlocked
<1>4. r.call = th[t].call
  BY <1>3, AcquiredCall
<1> HIDE DEF r
<1>5. Contents(table') = Contents(table)
  BY <1>1, PersistFields, SameLists
<1> QED BY <1>1, <1>2, <1>4, <1>5, InsideStep


-----------------------------------------------------------------------------
(* Calls that find nothing, or something that they do not change *)

LEMMA AnswerIs ==
    ASSUME NEW t \in Threads, NEW ret \in BOOLEAN, NEW word, word = IF ret THEN "true" ELSE "false",
           NEW c, c = [th[t].call EXCEPT !.ret = word], CallSeen(t, c)
    PROVE  Promised!Answer(t, ret)
<1>1. CallsMade[t] = th[t].call /\ CallsMade' = [CallsMade EXCEPT ![t] = c]
  BY DEF CallsMade, CallSeen
<1>2. CallsMade' = [CallsMade EXCEPT ![t].ret = word]
  BY <1>1
<1> QED BY <1>2 DEF Promised!Answer, CallsMade

LEMMA GrantIs ==
    ASSUME NEW t \in Threads,
           NEW held, held = (IF th[t].call.mode = "none" THEN Unheld
                             ELSE [key |-> th[t].call.key, mode |-> th[t].call.mode]),
           ElementSeen(t, held)
    PROVE  Promised!Grant(t)
<1>1. ElementsHeld' = [ElementsHeld EXCEPT ![t] = held]
  BY DEF ElementSeen
<1>2. CallsMade[t] = th[t].call
  BY DEF CallsMade
<1>3. ElementsHeld' = [ElementsHeld EXCEPT ![t] =
        IF CallsMade[t].mode = "none" THEN Unheld
        ELSE [key |-> CallsMade[t].key, mode |-> CallsMade[t].mode]]
  BY <1>1, <1>2
<1> QED BY <1>3 DEF Promised!Grant, Promised!NotHeld, CallsMade, ElementsHeld, HeldBy, Granted, Unheld

\* A thread that holds nothing before and after.
LEMMA HoldsNothing ==
    ASSUME Inv, NEW t \in Threads, NEW r, th' = [th EXCEPT ![t] = r], NEW a, acc' = [acc EXCEPT ![t] = a],
           HeldBy(a, r) = HeldBy(acc[t], th[t])
    PROVE  ElementsHeld' = ElementsHeld
<1>1. ElementSeen(t, HeldBy(a, r))
  BY SeenStep
<1>2. ElementSeen(t, HeldBy(acc[t], th[t]))
  BY <1>1
<1> QED BY <1>2, SameElement

LEMMA Misses ==
    ASSUME Promise, NEW t \in Threads, th[t].call.op \in {"count", "find", "erase"},
           th[t].call.ret = "pending", th[t].call.key \in Keys,
           \A n \in NodesIn(table) : n.key # th[t].call.key,
           NEW c, c = [th[t].call EXCEPT !.ret = "false"], th' = [th EXCEPT ![t] = AfterCall(c)],
           acc[t] = NoAccessor, UNCHANGED <<acc, table, other>>
    PROVE  Promised!Miss(t)
<1>1. TableOK(table) /\ KeysUnique(table) /\ Inv
  BY PlacedUnique DEF Promise, Inv
<1>2. Contents(table)[th[t].call.key] = None
  BY <1>1, ContentsAre
<1> DEFINE r == AfterCall(c)
<1>3. r.call = c /\ r.pc = "idle"
  BY DEF AfterCall
<1>0. PICK a : a = acc[t]
  OBVIOUS
<1>4. th' = [th EXCEPT ![t] = r] /\ acc' = [acc EXCEPT ![t] = a]
  BY <1>0, <1>1 DEF Inv
<1> HIDE DEF r
<1>5. HeldBy(a, r) = HeldBy(acc[t], th[t])
  BY <1>0, <1>3 DEF HeldBy, Granted
<1>6. ElementsHeld' = ElementsHeld
  BY <1>1, <1>4, <1>5, HoldsNothing
<1>7. CallSeen(t, c)
  <2>1. CallSeen(t, r.call)
    BY <1>1, <1>4, SeenStep
  <2> QED BY <1>3, <2>1
<1>8. Promised!Answer(t, FALSE)
  <2>1. PICK ret \in BOOLEAN : ret = FALSE
    OBVIOUS
  <2>2. Promised!Answer(t, ret)
    BY <1>7, <2>1, AnswerIs
  <2> QED BY <2>1, <2>2
<1>9. CallsMade[t] = th[t].call
  BY DEF CallsMade
<1>10. Promised!Pending(t)
  BY DEF Promised!Pending
<1>11. Contents(table') = Contents(table) /\ Contents(other') = Contents(other)
  OBVIOUS
<1> QED BY <1>2, <1>6, <1>8, <1>10, <1>11
        DEF Promised!Miss, CallsMade, ElementsHeld, HeldBy, Granted, Unheld

\* The caller may have the element of the key that the call asks for.
Allowed(t) ==
    /\ th[t].call.ret = "pending" /\ th[t].call.key \in Keys
    /\ \E n \in NodesIn(table) : n.key = th[t].call.key
    /\ th[t].call.mode # "none" => Promised!Free(t, th[t].call.key, th[t].call.mode)

HitWord(op) == IF op # "insert" THEN "true" ELSE "false"

LEMMA Hits ==
    ASSUME Promise, NEW t \in Threads, th[t].call.op \in {"count", "find", "insert"}, Allowed(t),
           NEW c, c = [th[t].call EXCEPT !.ret = HitWord(th[t].call.op)], th' = [th EXCEPT ![t] = AfterCall(c)],
           NEW a, acc' = [acc EXCEPT ![t] = a], a = NoAccessor <=> th[t].call.mode = "none",
           c.op = th[t].call.op, c.key = th[t].call.key, c.mode = th[t].call.mode,
           UNCHANGED <<table, other>>
    PROVE  Promised!Hit(t)
<1> DEFINE word == HitWord(th[t].call.op)
<1>0. /\ th[t].call.ret = "pending" /\ th[t].call.key \in Keys
      /\ \E n \in NodesIn(table) : n.key = th[t].call.key
      /\ th[t].call.mode # "none" => Promised!Free(t, th[t].call.key, th[t].call.mode)
      /\ word = IF th[t].call.op # "insert" THEN "true" ELSE "false"
  BY DEF Allowed, HitWord
<1> HIDE DEF word
<1>1. TableOK(table) /\ KeysUnique(table) /\ Inv
  BY PlacedUnique DEF Promise, Inv
<1>2. Contents(table)[th[t].call.key] # None
  BY <1>0, <1>1, ContentsAre, NoneAssumption
<1> DEFINE r == AfterCall(c)
<1>3. r.call = c /\ r.pc = "idle"
  BY DEF AfterCall
<1>4. th' = [th EXCEPT ![t] = r]
  OBVIOUS
<1> HIDE DEF r
<1>5. HeldBy(a, r) = IF th[t].call.mode = "none" THEN Unheld
                     ELSE [key |-> th[t].call.key, mode |-> th[t].call.mode]
  BY <1>3 DEF HeldBy, Granted
<1>6. Promised!Grant(t)
  <2>1. ElementSeen(t, HeldBy(a, r))
    BY <1>1, <1>4, SeenStep
  <2> QED BY <1>5, <2>1, GrantIs
<1>7. CallSeen(t, c)
  <2>1. CallSeen(t, r.call)
    BY <1>1, <1>4, SeenStep
  <2> QED BY <1>3, <2>1
<1>8. Promised!Answer(t, CallsMade[t].op # "insert")
  <2>1. CallsMade[t] = th[t].call /\ CallsMade' = [CallsMade EXCEPT ![t] = c]
    BY <1>7 DEF CallsMade, CallSeen
  <2>2. CallsMade' = [CallsMade EXCEPT ![t].ret = word]
    BY <2>1 DEF word
  <2>3. word = IF CallsMade[t].op # "insert" THEN "true" ELSE "false"
    BY <1>0, <2>1
  <2> QED BY <2>2, <2>3 DEF Promised!Answer, CallsMade
<1>10. Promised!Pending(t)
  BY <1>0 DEF Promised!Pending
<1>11. Contents(table') = Contents(table) /\ Contents(other') = Contents(other)
  OBVIOUS
<1>12. CallsMade[t] = th[t].call
  BY DEF CallsMade
<1> QED BY <1>0, <1>2, <1>6, <1>8, <1>10, <1>11, <1>12 DEF Promised!Hit, CallsMade

LEMMA SearchMissSeen ==
    ASSUME Promise, NEW t \in Threads, SearchMiss(t)
    PROVE  [Promised!Next]_(Promised!vars)
<1>1. /\ th[t].pc = "search" /\ th[t].call.op # "defragment" /\ UNCHANGED <<table, other>> /\ Inv
      /\ search_bucket(table, Target(t), th[t].call.key) = {}
  BY DEF SearchMiss, Promise, env
<1>2. ThreadType(th[t]) /\ acc[t] = NoAccessor /\ th[t].call.key \in Keys
  BY <1>1, SearchFacts
<1>3. th[t].call.ret = "pending"
  BY <1>1, PendingAt DEF Seeking
<1>4. CASE Retry(t) /\ UNCHANGED acc
  <2> DEFINE path == <<Masked(Hash(t), table.my_mask)>>
  <2> DEFINE r == [th[t] EXCEPT !.pc = "bucket", !.m = table.my_mask, !.locks = {}, !.path = path]
  <2>1. th' = [th EXCEPT ![t] = r]
    BY <1>4 DEF Retry
  <2> HIDE DEF path
  <2>2. r.call = th[t].call
    BY <1>2 DEF ThreadType
  <2> HIDE DEF r
  <2> QED BY <1>1, <1>3, <1>4, <2>1, <2>2, InsideStep
<1>5. CASE th' = [th EXCEPT ![t].pc = "local", ![t].m = table.my_mask] /\ UNCHANGED acc
  <2> DEFINE r == [th[t] EXCEPT !.pc = "local", !.m = table.my_mask]
  <2>1. th' = [th EXCEPT ![t] = r]
    BY <1>5 DEF Promise, Inv
  <2>2. r.call = th[t].call
    BY <1>2 DEF ThreadType
  <2> HIDE DEF r
  <2> QED BY <1>1, <1>3, <1>5, <2>1, <2>2, InsideStep
<1>6. CASE /\ ~check_mask_race(table, Hash(t), th[t].m)
           /\ th[t].call.op \in {"count", "find", "erase"} /\ Return(t, Answered(th[t], FALSE))
  <2> DEFINE q == Answered(th[t], FALSE)
  <2>1. q = Replied(th[t], "false")
    BY DEF Answered, Replied
  <2>2. th' = [th EXCEPT ![t] = AfterCall(q.call)] /\ (q.call.op # "insert_or_assign" => UNCHANGED acc)
    BY <1>6 DEF Return
  <2> HIDE DEF q
  <2>3. q.call = [th[t].call EXCEPT !.ret = "false"] /\ q.call.op = th[t].call.op
    BY <1>2, <2>1, AnsweredCall
  <2>4. \A n \in NodesIn(table) : n.key # th[t].call.key
    BY <1>1, <1>6, NoneLater DEF Absent
  <2>5. UNCHANGED acc
    BY <1>6, <2>2, <2>3
  <2>6. Promised!Miss(t)
    BY <1>1, <1>2, <1>3, <1>6, <2>2, <2>3, <2>4, <2>5, Misses
  <2> QED BY <2>6, Visible
<1> QED BY <1>4, <1>5, <1>6 DEF SearchMiss

LEMMA SearchHitSeen ==
    ASSUME Promise, NEW t \in Threads, SearchHit(t)
    PROVE  [Promised!Next]_(Promised!vars)
<1> DEFINE found == search_bucket(table, Target(t), th[t].call.key)
<1> DEFINE n == CHOOSE n \in found : TRUE
<1>1. /\ th[t].pc = "search" /\ th[t].call.op # "defragment" /\ UNCHANGED <<table, other>> /\ Inv
      /\ found # {}
  BY DEF SearchHit, Promise, env
<1>2. /\ ThreadOK(t, th[t], table) /\ ThreadType(th[t]) /\ acc[t] = NoAccessor /\ th[t].call.key \in Keys
      /\ Target(t) \in Buckets
  BY <1>1, SearchFacts
<1>3. th[t].call.ret = "pending" /\ Asked(th[t].call)
  BY <1>1, PendingAt DEF Seeking
<1>4. n \in NodesIn(table) /\ n.key = th[t].call.key
  <2>1. n \in found
    BY <1>1
  <2> QED BY <1>2, <2>1 DEF search_bucket, NodesIn
<1>5. CASE /\ th[t].call.mode = "none" /\ th[t].call.op # "erase"
           /\ Return(t, Answered(th[t], th[t].call.op = "count"))
  <2> DEFINE q == Answered(th[t], th[t].call.op = "count")
  <2> DEFINE word == HitWord(th[t].call.op)
  <2>1. th[t].call.op \in {"count", "insert"}
    <3>1. th[t].call.op # "none"
      BY <1>1, <1>2 DEF ThreadOK, KeyedOK, InTable, Working
    <3>2. th[t].call.op \in {"count", "find", "insert", "insert_or_assign", "erase", "none", "defragment"}
      BY <1>2 DEF ThreadType, Call, Keyed_ops
    <3> QED BY <1>1, <1>3, <1>5, <3>1, <3>2 DEF Asked
  <2>2. q = Replied(th[t], word)
    BY <2>1 DEF Answered, Replied, HitWord
  <2>3. th' = [th EXCEPT ![t] = AfterCall(q.call)] /\ (q.call.op # "insert_or_assign" => UNCHANGED acc)
    BY <1>5 DEF Return
  <2>4. word \in {"true", "false"}
    BY DEF HitWord
  <2> HIDE DEF q
  <2> HIDE DEF word
  <2>6. /\ q.call = [th[t].call EXCEPT !.ret = word] /\ q.call.op = th[t].call.op
        /\ q.call.key = th[t].call.key /\ q.call.mode = th[t].call.mode
    BY <1>2, <2>2, <2>4, AnsweredCall
  <2>10. PICK a, c : a = acc[t] /\ c = q.call
    OBVIOUS
  <2>7. acc' = [acc EXCEPT ![t] = a]
    BY <1>1, <2>1, <2>3, <2>6, <2>10 DEF Inv
  <2> HIDE DEF n
  <2>11. Allowed(t)
    BY <1>2, <1>3, <1>4, <1>5 DEF Allowed
  <2>12. a = NoAccessor <=> th[t].call.mode = "none"
    BY <1>2, <1>5, <2>10
  <2>13. th' = [th EXCEPT ![t] = AfterCall(c)] /\ c = [th[t].call EXCEPT !.ret = HitWord(th[t].call.op)]
         /\ c.op = th[t].call.op /\ c.key = th[t].call.key /\ c.mode = th[t].call.mode
    BY <2>3, <2>6, <2>10 DEF word
  <2>8. Promised!Hit(t)
    BY <1>1, <2>1, <2>7, <2>11, <2>12, <2>13, Hits
  <2> QED BY <2>8, Visible
<1>6. CASE th' = [th EXCEPT ![t].pc = "item", ![t].id = n.id] /\ UNCHANGED acc
  <2> HIDE DEF n
  <2> DEFINE r == [th[t] EXCEPT !.pc = "item", !.id = n.id]
  <2>1. th' = [th EXCEPT ![t] = r]
    BY <1>6 DEF Promise, Inv
  <2>2. r.call = th[t].call
    BY <1>2 DEF ThreadType
  <2> HIDE DEF r
  <2> QED BY <1>1, <1>3, <1>6, <2>1, <2>2, InsideStep
<1> QED BY <1>5, <1>6 DEF SearchHit


\* A call starts over.
LEMMA RetrySeen ==
    ASSUME Promise, NEW t \in Threads, Retry(t), ThreadType(th[t]), th[t].call.ret = "pending",
           UNCHANGED <<table, acc, other>>
    PROVE  [Promised!Next]_(Promised!vars)
<1> DEFINE path == <<Masked(Hash(t), table.my_mask)>>
<1> DEFINE r == [th[t] EXCEPT !.pc = "bucket", !.m = table.my_mask, !.locks = {}, !.path = path]
<1>1. th' = [th EXCEPT ![t] = r]
  BY DEF Retry
<1> HIDE DEF path
<1>2. r.call = th[t].call /\ Inv
  BY DEF ThreadType, Promise
<1> HIDE DEF r
<1> QED BY <1>1, <1>2, InsideStep

\* The thread that has found a node is let at it.
LEMMA ItemAllowed ==
    ASSUME Promise, NEW t \in Threads, HasItem(th[t]), th[t].call.ret = "pending", th[t].call.key \in Keys,
           ItemFree(th[t].id, th[t].call.mode)
    PROVE  Allowed(t)
<1>1. PICK n \in NodesIn(table) : n.id = th[t].id /\ n.key = th[t].call.key
  BY ItemFacts DEF NodesIn
<1>2. \A u \in Threads \ {t} : acc[u].id = n.id => Compatible(acc[u].mode, th[t].call.mode)
  BY <1>1 DEF ItemFree
<1>3. PICK k, mode : k = th[t].call.key /\ mode = th[t].call.mode
  OBVIOUS
<1>4. Promised!Free(t, k, mode)
  BY <1>1, <1>2, <1>3, KeyFree
<1> QED BY <1>1, <1>3, <1>4 DEF Allowed

LEMMA TryItemSeen ==
    ASSUME Promise, NEW t \in Threads, TryItem(t)
    PROVE  [Promised!Next]_(Promised!vars)
<1> DEFINE mode == IF th[t].call.op = "erase" THEN "write" ELSE th[t].call.mode
<1>1. th[t].pc = "item" /\ UNCHANGED <<table, other>> /\ HasItem(th[t]) /\ Inv
  BY DEF TryItem, env, Promise, HasItem
<1>2. CallOK(th[t]) /\ th[t].call.op # "defragment"
  BY <1>1 DEF Promise, Inv, ThreadsOK, ThreadOK, CallOK
<1>3. /\ CallerOK(th[t], table) /\ ThreadType(th[t]) /\ acc[t] = NoAccessor /\ th[t].call.key \in Keys
  BY <1>1, <1>2, SearchFacts
<1>4. Asked(th[t].call) /\ AnswerOK(th[t])
  BY <1>3 DEF CallerOK
<1>5. CASE ~ItemFree(th[t].id, mode) /\ Retry(t) /\ UNCHANGED acc
  <2>1. ~Owns(th[t])
    BY <1>5 DEF Promise, Owned, ItemFree
  <2>2. th[t].call.ret = "pending"
    BY <1>1, <1>4, <2>1 DEF AnswerOK, Owns
  <2> QED BY <1>1, <1>3, <1>5, <2>2, RetrySeen
<1>6. CASE th[t].call.op = "erase" /\ th' = [th EXCEPT ![t].pc = "local"] /\ UNCHANGED acc
  <2> DEFINE r == [th[t] EXCEPT !.pc = "local"]
  <2>1. th' = [th EXCEPT ![t] = r]
    BY <1>6
  <2>2. r.call = th[t].call /\ th[t].call.ret = "pending"
    BY <1>1, <1>3, <1>4, <1>6 DEF ThreadType, AnswerOK
  <2> HIDE DEF r
  <2> QED BY <1>1, <1>6, <2>1, <2>2, InsideStep
<1>7. CASE /\ ItemFree(th[t].id, mode) /\ th[t].call.op # "erase"
           /\ acc' = [acc EXCEPT ![t] = [id |-> th[t].id, mode |-> mode]]
           /\ th' = [th EXCEPT ![t] =
                IF th[t].call.ret = "true" THEN [[th[t] EXCEPT !.locks = {}] EXCEPT !.pc = "grow"]
                ELSE IF th[t].call.op = "insert_or_assign" THEN [[th[t] EXCEPT !.locks = {}] EXCEPT !.pc = "assign"]
                ELSE AfterCall(Answered(th[t], th[t].call.op = "find").call)]
  <2>1. PICK a : a = [id |-> th[t].id, mode |-> mode]
    OBVIOUS
  <2>2. acc' = [acc EXCEPT ![t] = a] /\ a # NoAccessor /\ th[t].call.mode # "none" /\ mode = th[t].call.mode
    BY <1>1, <1>4, <1>7, <2>1 DEF AnswerOK, NoAccessor
  <2> HIDE DEF mode
  <2>3. CASE th[t].call.ret = "true"
    <3> DEFINE r == [[th[t] EXCEPT !.locks = {}] EXCEPT !.pc = "grow"]
    <3>1. th' = [th EXCEPT ![t] = r]
      BY <1>7, <2>3
    <3>2. r.call = th[t].call
      BY <1>3 DEF ThreadType
    <3> HIDE DEF r
    <3>3. HeldBy(a, r) = HeldBy(acc[t], th[t])
      BY <1>1, <2>2, <2>3, <3>2 DEF HeldBy, Granted
    <3>4. Contents(table') = Contents(table)
      BY <1>1
    <3> QED BY <1>1, <2>2, <3>1, <3>2, <3>3, <3>4, HiddenStep
  <2>4. CASE th[t].call.ret # "true" /\ th[t].call.op = "insert_or_assign"
    <3> DEFINE r == [[th[t] EXCEPT !.locks = {}] EXCEPT !.pc = "assign"]
    <3>1. th' = [th EXCEPT ![t] = r]
      BY <1>7, <2>4
    <3>2. r.call = th[t].call
      BY <1>3 DEF ThreadType
    <3> HIDE DEF r
    <3>3. HeldBy(a, r) = HeldBy(acc[t], th[t])
      BY <2>4, <3>2 DEF HeldBy, Granted
    <3>4. Contents(table') = Contents(table)
      BY <1>1
    <3> QED BY <1>1, <2>2, <3>1, <3>2, <3>3, <3>4, HiddenStep
  <2>5. CASE th[t].call.ret # "true" /\ th[t].call.op # "insert_or_assign"
    <3> DEFINE q == Answered(th[t], th[t].call.op = "find")
    <3> DEFINE word == HitWord(th[t].call.op)
    <3>1. th[t].call.op \in {"find", "insert"} /\ th[t].call.ret = "pending"
      <4>1. th[t].call.op # "none"
        BY <1>1, <1>2 DEF Promise, Inv, ThreadsOK, ThreadOK, KeyedOK, InTable, Working
      <4>2. th[t].call.op \in {"count", "find", "insert", "insert_or_assign", "erase", "none", "defragment"}
        BY <1>3 DEF ThreadType, Call, Keyed_ops
      <4> QED BY <1>1, <1>2, <1>4, <1>7, <2>2, <2>5, <4>1, <4>2 DEF Asked, AnswerOK
    <3>2. q = Replied(th[t], word)
      BY <3>1 DEF Answered, Replied, HitWord
    <3>3. PICK c : c = q.call
      OBVIOUS
    <3>4. th' = [th EXCEPT ![t] = AfterCall(c)]
      BY <1>7, <2>5, <3>3
    <3> HIDE DEF q
    <3>5. word \in {"true", "false"}
      BY DEF HitWord
    <3> HIDE DEF word
    <3>6. q.call = [th[t].call EXCEPT !.ret = word] /\ q.call.op = th[t].call.op
          /\ q.call.key = th[t].call.key /\ q.call.mode = th[t].call.mode
      BY <1>3, <3>2, <3>5, AnsweredCall
    <3>7. c = [th[t].call EXCEPT !.ret = HitWord(th[t].call.op)]
          /\ c.op = th[t].call.op /\ c.key = th[t].call.key /\ c.mode = th[t].call.mode
      BY <3>3, <3>6 DEF word
    <3>8. Allowed(t)
      BY <1>1, <1>3, <1>7, <2>2, <3>1, ItemAllowed
    <3>9. a = NoAccessor <=> th[t].call.mode = "none"
      BY <2>2
    <3>10. Promised!Hit(t)
      BY <1>1, <2>2, <3>1, <3>4, <3>7, <3>8, <3>9, Hits
    <3> QED BY <3>10, Visible
  <2> QED BY <2>3, <2>4, <2>5
<1> QED BY <1>5, <1>6, <1>7 DEF TryItem

LEMMA LocalSizeDiffSeen ==
    ASSUME Promise, NEW t \in Threads, LocalSizeDiff(t)
    PROVE  [Promised!Next]_(Promised!vars)
<1>1. th[t].pc = "local" /\ UNCHANGED <<acc, other>> /\ Inv /\ TableOK(table)
  BY DEF LocalSizeDiff, env, Promise, Inv
<1>2. ThreadType(th[t]) /\ th[t].call.ret = "pending"
  BY <1>1, PendingAt
<1>3. (table').node_list = table.node_list
  BY <1>1 DEF LocalSizeDiff, TableOK, TableType
<1>4. PICK pc : th' = [th EXCEPT ![t].pc = pc]
  BY DEF LocalSizeDiff
<1> DEFINE r == [th[t] EXCEPT !.pc = pc]
<1>5. th' = [th EXCEPT ![t] = r] /\ r.call = th[t].call
  BY <1>2, <1>4 DEF ThreadType
<1> HIDE DEF r
<1>6. Contents(table') = Contents(table)
  BY <1>3, SameLists
<1> QED BY <1>1, <1>2, <1>5, <1>6, InsideStep

LEMMA CacheTlsSizeSeen ==
    ASSUME Promise, NEW t \in Threads, CacheTlsSize(t)
    PROVE  [Promised!Next]_(Promised!vars)
<1>1. th[t].pc = "cache" /\ UNCHANGED <<acc, other>> /\ Inv /\ TableOK(table)
  BY DEF CacheTlsSize, env, Promise, Inv
<1>2. ThreadType(th[t]) /\ th[t].call.ret = "pending"
  BY <1>1, PendingAt
<1>3. (table').node_list = table.node_list
  BY <1>1 DEF CacheTlsSize, TableOK, TableType
<1> DEFINE r == [th[t] EXCEPT !.pc = ChangePc(th[t].call.op)]
<1>5. th' = [th EXCEPT ![t] = r] /\ r.call = th[t].call
  BY <1>2 DEF ThreadType, CacheTlsSize
<1> HIDE DEF r
<1>6. Contents(table') = Contents(table)
  BY <1>3, SameLists
<1> QED BY <1>1, <1>2, <1>5, <1>6, InsideStep



-----------------------------------------------------------------------------
(* Calls that take effect in a transaction *)

\* What callers see of a thread whose call has taken effect.
LEMMA EffectSeen ==
    ASSUME Inv, NEW t \in Threads, NEW r, th' = [th EXCEPT ![t] = r], UNCHANGED acc, acc[t] = NoAccessor,
           NEW c, r.call = c
    PROVE  CallSeen(t, c) /\ ElementSeen(t, HeldBy(NoAccessor, r))
<1>1. acc' = [acc EXCEPT ![t] = NoAccessor]
  BY DEF Inv
<1>2. CallSeen(t, r.call) /\ ElementSeen(t, HeldBy(NoAccessor, r))
  BY <1>1, SeenStep
<1> QED BY <1>2

LEMMA AnswerTrue ==
    ASSUME NEW t \in Threads, NEW c, c = [th[t].call EXCEPT !.ret = "true"], CallSeen(t, c)
    PROVE  Promised!Answer(t, TRUE)
<1>1. PICK ret \in BOOLEAN : ret = TRUE
  OBVIOUS
<1>2. "true" = IF ret THEN "true" ELSE "false"
  BY <1>1
<1>3. Promised!Answer(t, ret)
  BY <1>2, AnswerIs
<1> QED BY <1>1, <1>3

\* insert_or_assign() tells whether the key was there.
LEMMA AnswerNew ==
    ASSUME NEW t \in Threads, NEW word,
           word = IF Contents(table)[th[t].call.key] = None THEN "true" ELSE "false",
           NEW c, c = [th[t].call EXCEPT !.ret = word], CallSeen(t, c)
    PROVE  Promised!Answer(t, Contents(table)[CallsMade[t].key] = None)
<1>1. CallsMade[t] = th[t].call /\ CallsMade' = [CallsMade EXCEPT ![t] = c]
  BY DEF CallsMade, CallSeen
<1>2. CallsMade' = [CallsMade EXCEPT ![t].ret = word]
  BY <1>1
<1>3. word = IF Contents(table)[CallsMade[t].key] = None THEN "true" ELSE "false"
  BY <1>1
<1> QED BY <1>2, <1>3 DEF Promised!Answer, CallsMade

LEMMA InsertNodeSeen ==
    ASSUME Promise, NEW t \in Threads, InsertNode(t)
    PROVE  [Promised!Next]_(Promised!vars)
<1> DEFINE k == th[t].call.key
<1> DEFINE v == th[t].call.val
<1>1. th[t].pc = "insert" /\ UNCHANGED <<acc, other>> /\ Inv /\ Inv'
  BY InsertNodeStep DEF InsertNode, env, Promise
<1>2. /\ ThreadType(th[t]) /\ CallOK(th[t]) /\ acc[t] = NoAccessor /\ TableOK(table)
  BY <1>1, ChangingFacts
<1>3. PICK n \in Node :
            /\ n.key = k /\ n.val = v
            /\ NodesIn(table') = NodesIn(table) \cup {n}
            /\ Placed(table')
            /\ th' = [th EXCEPT ![t] = [[th[t] EXCEPT !.call.ret = "true"] EXCEPT !.pc = "count", !.id = n.id]]
  BY InsertTable
<1>4. th[t].call.ret = "pending" /\ th[t].call.op \in {"insert", "insert_or_assign"}
  BY <1>1, <1>2, PendingAt DEF CallOK
<1>5. k \in Keys /\ \A m \in NodesIn(table) : m.key # k
  <2>1. Absent(table, Head(th[t].path), k)
    BY <1>1, AddingFacts DEF Adding
  <2>2. k \in Keys
    BY <1>1, AddingFacts DEF Adding
  <2> QED BY <2>1, <2>2 DEF Absent
<1>6. KeysUnique(table) /\ KeysUnique(table') /\ TableOK(table')
  BY <1>1, <1>2, <1>3, PlacedUnique DEF Promise, Inv
<1>7. Contents(table)[k] = None
  BY <1>2, <1>5, <1>6, ContentsAre
<1>8. Contents(table') = [Contents(table) EXCEPT ![k] = v]
  <2>1. \E m \in NodesIn(table') : m.key = k /\ m.val = v
    BY <1>3
  <2>2. \A m \in NodesIn(table') : m.key # k => m \in NodesIn(table)
    BY <1>3
  <2>3. \A m \in NodesIn(table) : m.key # k => m \in NodesIn(table')
    BY <1>3
  <2> HIDE DEF k, v
  <2> QED BY <1>2, <1>5, <1>6, <2>1, <2>2, <2>3, ContentsChanged
<1> DEFINE q == [th[t] EXCEPT !.call.ret = "true"]
<1> DEFINE r == [q EXCEPT !.pc = "count", !.id = n.id]
<1>9. /\ q.call = [th[t].call EXCEPT !.ret = "true"] /\ q.call.op = th[t].call.op
      /\ q.call.key = k /\ q.call.mode = th[t].call.mode /\ q.call.ret = "true"
  <2>1. q = Replied(th[t], "true")
    BY DEF Replied
  <2> HIDE DEF q
  <2> QED BY <1>2, <2>1, AnsweredCall
<1>10. th' = [th EXCEPT ![t] = r]
  BY <1>3
<1>11. r.pc = "count" /\ r.call = q.call
  BY <1>2 DEF ThreadType
<1> HIDE DEF q, r
<1>12. PICK c : c = q.call
  OBVIOUS
<1>13. CallSeen(t, c) /\ ElementSeen(t, HeldBy(NoAccessor, r))
  BY <1>1, <1>2, <1>10, <1>11, <1>12, EffectSeen
<1>14. CallsMade[t] = th[t].call /\ Promised!Pending(t)
  BY <1>4 DEF CallsMade, Promised!Pending
<1>15. Contents(other') = Contents(other)
  BY <1>1
<1>16. CASE th[t].call.op = "insert"
  <2>1. HeldBy(NoAccessor, r) = IF th[t].call.mode = "none" THEN Unheld
                                ELSE [key |-> th[t].call.key, mode |-> th[t].call.mode]
    BY <1>9, <1>11, <1>16 DEF HeldBy, Granted
  <2>2. Promised!Grant(t)
    BY <1>13, <2>1, GrantIs
  <2>3. Promised!Answer(t, TRUE)
    BY <1>9, <1>12, <1>13, AnswerTrue
  <2>4. Promised!Insert(t)
    BY <1>7, <1>8, <1>14, <1>15, <1>16, <2>2, <2>3 DEF Promised!Insert, CallsMade
  <2> QED BY <2>4, Visible
<1>17. CASE th[t].call.op = "insert_or_assign"
  <2>1. HeldBy(NoAccessor, r) = Unheld /\ HeldBy(acc[t], th[t]) = Unheld
    BY <1>9, <1>11, <1>17 DEF HeldBy, Granted
  <2>2. ElementsHeld' = ElementsHeld
    BY <1>13, <2>1, SameElement
  <2>3. Promised!Answer(t, Contents(table)[CallsMade[t].key] = None)
    <3>1. "true" = IF Contents(table)[th[t].call.key] = None THEN "true" ELSE "false"
      BY <1>7
    <3> QED BY <1>9, <1>12, <1>13, <3>1, AnswerNew
  <2>4. Promised!Free(t, k, "write")
    <3> HIDE DEF k
    <3>1. PICK mode : mode = "write"
      OBVIOUS
    <3>2. Promised!Free(t, k, mode)
      BY <1>5, AbsentFree
    <3> QED BY <3>1, <3>2
  <2>5. Promised!InsertOrAssign(t)
    BY <1>8, <1>14, <1>15, <1>17, <2>2, <2>3, <2>4
       DEF Promised!InsertOrAssign, CallsMade, ElementsHeld, HeldBy, Granted, Unheld
  <2> QED BY <2>5, Visible
<1> QED BY <1>4, <1>16, <1>17

LEMMA AssignItemSeen ==
    ASSUME Promise, NEW t \in Threads, AssignItem(t)
    PROVE  [Promised!Next]_(Promised!vars)
<1> DEFINE k == th[t].call.key
<1> DEFINE v == th[t].call.val
<1> DEFINE q == [th[t] EXCEPT !.call.ret = "false"]
<1>1. /\ th[t].pc = "assign" /\ UNCHANGED other /\ Inv /\ Inv'
      /\ table' = StoreValue(table, th[t].id, v) /\ Return(t, q)
  BY AssignItemStep DEF AssignItem, env, Promise, Answered
<1>2. /\ up /\ v \in Values /\ th[t].call.op = "insert_or_assign"
      /\ acc[t] # NoAccessor /\ acc[t].mode = "write" /\ acc[t].id = th[t].id
  BY AssigningFacts
<1>3. PICK n \in NodesIn(table) : n.id = th[t].id /\ n.key = k
  BY AssigningFacts
<1>4. ThreadType(th[t]) /\ TableOK(table') /\ TableOK(table) /\ KeysUnique(table)
  BY <1>1, PlacedUnique DEF Promise, Inv, ThreadsOK, ThreadOK
<1>5. n \in Node /\ k \in Keys
  <2>1. n \in Node
    BY <1>4, InBucket, NodeFacts
  <2> QED BY <1>3, <2>1 DEF Node
<1>6. /\ Placed(table') /\ NodesIn(table') = (NodesIn(table) \ {n}) \cup {Valued(n, v)}
  <2>1. PICK id, val : id = th[t].id /\ val = v
    OBVIOUS
  <2>2. /\ Placed(table') /\ NodesIn(table') = (NodesIn(table) \ {n}) \cup {Valued(n, val)}
    BY <1>1, <1>2, <1>3, <1>4, <2>1, StoreStep
  <2> QED BY <2>1, <2>2
<1>7. KeysUnique(table')
  BY <1>4, <1>6, PlacedUnique
<1>8. Valued(n, v).key = k /\ Valued(n, v).val = v
  BY <1>2, <1>3, <1>5, ValuedFacts
<1>9. Contents(table') = [Contents(table) EXCEPT ![k] = v]
  <2>1. \E m \in NodesIn(table') : m.key = k /\ m.val = v
    BY <1>6, <1>8
  <2>2. \A m \in NodesIn(table') : m.key # k => m \in NodesIn(table)
    BY <1>6, <1>8
  <2>3. \A m \in NodesIn(table) : m.key # k => m \in NodesIn(table')
    BY <1>3, <1>6
  <2> HIDE DEF k, v
  <2> QED BY <1>4, <1>5, <1>7, <2>1, <2>2, <2>3, ContentsChanged
<1>10. Contents(table)[k] # None
  BY <1>3, <1>4, <1>5, ContentsAre, NoneAssumption
<1>11. /\ q.call = [th[t].call EXCEPT !.ret = "false"] /\ q.call.op = th[t].call.op
  <2>1. q = Replied(th[t], "false")
    BY DEF Replied
  <2> HIDE DEF q
  <2> QED BY <1>4, <2>1, AnsweredCall
<1> HIDE DEF q
<1>12. PICK c : c = q.call
  OBVIOUS
<1> DEFINE r == AfterCall(c)
<1>13. th' = [th EXCEPT ![t] = r] /\ acc' = [acc EXCEPT ![t] = NoAccessor]
  BY <1>1, <1>2, <1>11, <1>12 DEF Return
<1>14. r.call = c /\ r.pc = "idle"
  BY DEF AfterCall
<1> HIDE DEF r
<1>15. CallSeen(t, c) /\ ElementSeen(t, HeldBy(NoAccessor, r))
  <2>1. CallSeen(t, r.call) /\ ElementSeen(t, HeldBy(NoAccessor, r))
    BY <1>1, <1>13, SeenStep
  <2> QED BY <1>14, <2>1
<1>16. ElementsHeld' = ElementsHeld
  <2>1. HeldBy(NoAccessor, r) = HeldBy(acc[t], th[t])
    BY <1>2, <1>14, <1>11, <1>12 DEF HeldBy, Granted
  <2> QED BY <1>15, <2>1, SameElement
<1>17. th[t].call.ret = "pending"
  BY <1>1, PendingAt
<1>18. CallsMade[t] = th[t].call /\ Promised!Pending(t)
  BY <1>17 DEF CallsMade, Promised!Pending
<1>19. Promised!Free(t, k, "write")
  <2>1. \A u \in Threads \ {t} : acc[u].id = n.id => Compatible(acc[u].mode, "write")
    BY <1>2, <1>3 DEF Promise, Accessed, Compatible
  <2>2. PICK mode : mode = "write"
    OBVIOUS
  <2>3. acc[t].id = n.id
    BY <1>2, <1>3
  <2> HIDE DEF k
  <2>4. Promised!Free(t, k, mode)
    BY <1>3, <1>5, <2>1, <2>2, <2>3, KeyFree
  <2> QED BY <2>2, <2>4
<1>20. Promised!Answer(t, Contents(table)[CallsMade[t].key] = None)
  <2>1. "false" = IF Contents(table)[th[t].call.key] = None THEN "true" ELSE "false"
    BY <1>10
  <2> QED BY <1>11, <1>12, <1>15, <2>1, AnswerNew
<1>21. Contents(other') = Contents(other)
  BY <1>1
<1>22. Promised!InsertOrAssign(t)
  BY <1>2, <1>9, <1>16, <1>18, <1>19, <1>20, <1>21
     DEF Promised!InsertOrAssign, CallsMade, ElementsHeld, HeldBy, Granted, Unheld
<1> QED BY <1>22, Visible

LEMMA EraseNodeSeen ==
    ASSUME Promise, NEW t \in Threads, EraseNode(t)
    PROVE  [Promised!Next]_(Promised!vars)
<1> DEFINE k == th[t].call.key
<1>1. th[t].pc = "erase" /\ UNCHANGED <<acc, other>> /\ Inv /\ Inv'
  BY EraseNodeStep DEF EraseNode, env, Promise
<1>2. /\ ThreadType(th[t]) /\ CallOK(th[t]) /\ acc[t] = NoAccessor /\ TableOK(table)
  BY <1>1, ChangingFacts
<1>3. PICK n \in NodesIn(table) :
            /\ n.id = th[t].id /\ n.key = k
            /\ NodesIn(table') = NodesIn(table) \ {n}
            /\ Placed(table')
            /\ th' = [th EXCEPT ![t] = [[th[t] EXCEPT !.call.ret = "true"] EXCEPT !.pc = "uncount"]]
  BY EraseTable
<1>4. th[t].call.ret = "pending" /\ th[t].call.op = "erase"
  BY <1>1, <1>2, PendingAt DEF CallOK
<1>5. k \in Keys
  <2>1. n \in Node
    BY <1>2, InBucket, NodeFacts
  <2> QED BY <1>3, <2>1 DEF Node
<1>6. KeysUnique(table) /\ KeysUnique(table') /\ TableOK(table')
  BY <1>1, <1>2, <1>3, PlacedUnique DEF Promise, Inv
<1>7. Contents(table)[k] # None
  BY <1>2, <1>3, <1>5, <1>6, ContentsAre, NoneAssumption
<1>8. Contents(table') = [Contents(table) EXCEPT ![k] = None]
  <2>1. \A m \in NodesIn(table') : m.key # k
    BY <1>3, <1>6 DEF KeysUnique
  <2>2. \A m \in NodesIn(table') : m.key # k => m \in NodesIn(table)
    BY <1>3
  <2>3. \A m \in NodesIn(table) : m.key # k => m \in NodesIn(table')
    BY <1>3
  <2> HIDE DEF k
  <2> QED BY <1>2, <1>5, <1>6, <2>1, <2>2, <2>3, ContentsChanged
<1> DEFINE q == [th[t] EXCEPT !.call.ret = "true"]
<1> DEFINE r == [q EXCEPT !.pc = "uncount"]
<1>9. /\ q.call = [th[t].call EXCEPT !.ret = "true"]
  <2>1. q = Replied(th[t], "true")
    BY DEF Replied
  <2> HIDE DEF q
  <2> QED BY <1>2, <2>1, AnsweredCall
<1>10. th' = [th EXCEPT ![t] = r]
  BY <1>3
<1>11. r.pc = "uncount" /\ r.call = q.call
  BY <1>2 DEF ThreadType
<1> HIDE DEF q, r
<1>12. PICK c : c = q.call
  OBVIOUS
<1>13. CallSeen(t, c) /\ ElementSeen(t, HeldBy(NoAccessor, r))
  BY <1>1, <1>2, <1>10, <1>11, <1>12, EffectSeen
<1>14. ElementsHeld' = ElementsHeld
  <2>1. HeldBy(NoAccessor, r) = HeldBy(acc[t], th[t])
    BY <1>1, <1>2, <1>11 DEF HeldBy, Granted
  <2> QED BY <1>13, <2>1, SameElement
<1>15. Promised!Answer(t, TRUE)
  BY <1>9, <1>12, <1>13, AnswerTrue
<1>16. CallsMade[t] = th[t].call /\ Promised!Pending(t)
  BY <1>4 DEF CallsMade, Promised!Pending
<1>17. Promised!Free(t, k, "write")
  <2>1. Owns(th[t]) /\ HasItem(th[t]) /\ th[t].id = n.id
    BY <1>1, <1>3 DEF Owns, HasItem
  <2>2. \A u \in Threads \ {t} : acc[u].id = n.id => Compatible(acc[u].mode, "write")
    BY <2>1 DEF Promise, Owned
  <2>3. PICK mode : mode = "write"
    OBVIOUS
  <2> HIDE DEF k
  <2>4. Promised!Free(t, k, mode)
    BY <1>3, <1>5, <2>1, <2>2, <2>3, KeyFree
  <2> QED BY <2>3, <2>4
<1>18. Contents(other') = Contents(other)
  BY <1>1
<1>19. Promised!Erase(t)
  BY <1>4, <1>7, <1>8, <1>14, <1>15, <1>16, <1>17, <1>18
     DEF Promised!Erase, CallsMade, ElementsHeld, HeldBy, Granted, Unheld
<1> QED BY <1>19, Visible



-----------------------------------------------------------------------------
(* Steps after the call has taken effect, and the other calls *)

LEMMA ReturnHeld ==
    ASSUME NEW a, NEW r, r.pc \notin {"count", "item"}
    PROVE  HeldBy(Kept(r.call, a), AfterCall(r.call)) = HeldBy(a, r)
<1> DEFINE e == AfterCall(r.call)
<1>1. e.pc = "idle" /\ e.call = r.call
  BY DEF AfterCall
<1> HIDE DEF e
<1>2. HeldBy(Kept(r.call, a), e) = HeldBy(a, r)
  <2>1. CASE r.call.op = "insert_or_assign"
    BY <1>1, <2>1 DEF HeldBy, Granted
  <2>2. CASE r.call.op # "insert_or_assign"
    BY <1>1, <2>2 DEF HeldBy, Granted, Kept
  <2> QED BY <2>1, <2>2
<1> QED BY <1>2 DEF e

LEMMA ReturnSeen ==
    ASSUME Promise, NEW t \in Threads, th[t].pc \notin {"count", "item"}, Return(t, th[t]),
           Contents(table') = Contents(table), UNCHANGED other
    PROVE  [Promised!Next]_(Promised!vars)
<1> DEFINE r == AfterCall(th[t].call)
<1>1. PICK a : a = Kept(th[t].call, acc[t])
  OBVIOUS
<1>2. th' = [th EXCEPT ![t] = r] /\ acc' = [acc EXCEPT ![t] = a] /\ Inv
  BY <1>1, ReturnIs DEF Promise
<1>3. HeldBy(a, r) = HeldBy(acc[t], th[t])
  BY <1>1, ReturnHeld
<1>4. r.call = th[t].call
  BY DEF AfterCall
<1> HIDE DEF r
<1> QED BY <1>2, <1>3, <1>4, HiddenStep

LEMMA CountInsertedSeen ==
    ASSUME Promise, NEW t \in Threads, CountInserted(t)
    PROVE  [Promised!Next]_(Promised!vars)
<1>1. th[t].pc = "count" /\ UNCHANGED <<acc, other>> /\ Inv
  BY DEF CountInserted, env, Promise
<1>2. /\ ThreadType(th[t]) /\ CallerOK(th[t], table) /\ acc[t] = NoAccessor /\ TableOK(table)
  BY <1>1, ChangingFacts
<1>3. th[t].call.ret = "true"
  BY <1>1, <1>2 DEF CallerOK, AnswerOK
<1>4. PICK r : /\ th' = [th EXCEPT ![t] = r] /\ r.call = th[t].call
               /\ r.pc = IF th[t].call.mode = "none" THEN "grow" ELSE "item"
  <2> DEFINE counted == [th[t] EXCEPT !.new_size = table.my_size + 1]
  <2>1. CASE th[t].call.mode = "none"
    <3> DEFINE r == [counted EXCEPT !.pc = "grow", !.locks = {}]
    <3>1. th' = [th EXCEPT ![t] = r]
      BY <2>1 DEF CountInserted
    <3>2. r.call = th[t].call /\ r.pc = "grow"
      BY <1>2 DEF ThreadType
    <3> QED BY <2>1, <3>1, <3>2
  <2>2. CASE th[t].call.mode # "none"
    <3> DEFINE r == [counted EXCEPT !.pc = "item"]
    <3>1. th' = [th EXCEPT ![t] = r]
      BY <2>2 DEF CountInserted
    <3>2. r.call = th[t].call /\ r.pc = "item"
      BY <1>2 DEF ThreadType
    <3> QED BY <2>2, <3>1, <3>2
  <2> QED BY <2>1, <2>2
<1>5. PICK a : a = acc[t]
  OBVIOUS
<1>6. acc' = [acc EXCEPT ![t] = a]
  BY <1>1, <1>5 DEF Inv
<1>7. HeldBy(a, r) = HeldBy(acc[t], th[t])
  BY <1>1, <1>2, <1>3, <1>4, <1>5 DEF HeldBy, Granted
<1>8. Contents(table') = Contents(table)
  <2>1. (table').node_list = table.node_list
    BY <1>2 DEF CountInserted, TableOK, TableType
  <2> QED BY <2>1, SameLists
<1> QED BY <1>1, <1>4, <1>6, <1>7, <1>8, HiddenStep

LEMMA CountErasedSeen ==
    ASSUME Promise, NEW t \in Threads, CountErased(t)
    PROVE  [Promised!Next]_(Promised!vars)
<1>1. th[t].pc = "uncount" /\ UNCHANGED other /\ Return(t, th[t])
  BY DEF CountErased, env
<1>2. TableOK(table)
  BY DEF Promise, Inv
<1>3. (table').node_list = table.node_list
  BY <1>2 DEF CountErased, TableOK, TableType
<1>4. Contents(table') = Contents(table)
  BY <1>3, SameLists
<1> QED BY <1>1, <1>4, ReturnSeen

\* A thread that has its accessor goes on, outside of the table.
LEMMA LeavingSeen ==
    ASSUME Promise, NEW t \in Threads, th[t].pc \in {"grow", "enable"},
           NEW pc \in {"enable", "publish"}, th' = [th EXCEPT ![t].pc = pc], UNCHANGED <<acc, other>>,
           Contents(table') = Contents(table)
    PROVE  [Promised!Next]_(Promised!vars)
<1> DEFINE r == [th[t] EXCEPT !.pc = pc]
<1>1. ThreadType(th[t]) /\ Inv
  BY LeavingFacts DEF Promise
<1>2. th' = [th EXCEPT ![t] = r] /\ r.call = th[t].call /\ r.pc = pc
  BY <1>1 DEF ThreadType
<1> HIDE DEF r
<1>3. PICK a : a = acc[t]
  OBVIOUS
<1>4. acc' = [acc EXCEPT ![t] = a]
  BY <1>1, <1>3 DEF Inv
<1>5. HeldBy(a, r) = HeldBy(acc[t], th[t])
  BY <1>2, <1>3 DEF HeldBy, Granted
<1> QED BY <1>1, <1>2, <1>4, <1>5, HiddenStep

LEMMA CheckGrowthSeen ==
    ASSUME Promise, NEW t \in Threads, CheckGrowth(t)
    PROVE  [Promised!Next]_(Promised!vars)
<1>1. th[t].pc = "grow" /\ UNCHANGED <<table, other>> /\ Contents(table') = Contents(table)
  BY DEF CheckGrowth, env
<1>2. CASE th' = [th EXCEPT ![t].pc = "enable"] /\ UNCHANGED acc
  BY <1>1, <1>2, LeavingSeen
<1>3. CASE Return(t, th[t])
  BY <1>1, <1>3, ReturnSeen
<1> QED BY <1>2, <1>3 DEF CheckGrowth

LEMMA EnableSegmentSeen ==
    ASSUME Promise, NEW t \in Threads, EnableSegment(t)
    PROVE  [Promised!Next]_(Promised!vars)
<1>1. /\ th[t].pc = "enable" /\ th' = [th EXCEPT ![t].pc = "publish"] /\ UNCHANGED <<acc, other>>
  BY DEF EnableSegment, env
<1>2. TableOK(table)
  BY DEF Promise, Inv
<1>3. (table').node_list = table.node_list
  BY <1>2 DEF EnableSegment, enable, TableOK, TableType
<1>4. Contents(table') = Contents(table)
  BY <1>3, SameLists
<1> QED BY <1>1, <1>4, LeavingSeen

LEMMA PublishMaskSeen ==
    ASSUME Promise, NEW t \in Threads, PublishMask(t)
    PROVE  [Promised!Next]_(Promised!vars)
<1>1. th[t].pc = "publish" /\ UNCHANGED other /\ Return(t, th[t])
  BY DEF PublishMask, env
<1>2. TableOK(table)
  BY DEF Promise, Inv
<1>3. (table').node_list = table.node_list
  BY <1>2 DEF PublishMask, TableOK, TableType
<1>4. Contents(table') = Contents(table)
  BY <1>3, SameLists
<1> QED BY <1>1, <1>4, ReturnSeen

LEMMA SaveNodesSeen ==
    ASSUME Promise, NEW t \in Threads, SaveNodes(t)
    PROVE  [Promised!Next]_(Promised!vars)
<1>1. /\ th[t].pc = "search" /\ UNCHANGED <<table, acc, other>> /\ Inv
  BY DEF SaveNodes, env, Promise
<1>2. ThreadType(th[t]) /\ th[t].call.ret = "pending"
  BY <1>1, PendingAt DEF Seeking
<1>3. PICK r : th' = [th EXCEPT ![t] = r] /\ r.call = th[t].call
  <2> DEFINE b == Target(t)
             ids == {n.id : n \in table.node_list[b]}
             usable == \A id \in ids : ItemFree(id, "write")
             locks == IF usable THEN th[t].locks ELSE th[t].locks \ {<<b, "write">>}
             saved == IF usable THEN th[t].saved \cup ids ELSE th[t].saved
             seen == [th[t] EXCEPT !.locks = locks, !.saved = saved]
  <2>1. th' = [th EXCEPT ![t] = IF b = seen.from THEN [seen EXCEPT !.pc = "defrag"]
                                ELSE [seen EXCEPT !.pc = "bucket", !.path = <<b - 1>>]]
    BY <1>2 DEF SaveNodes, ThreadType
  <2> HIDE DEF locks, saved, b
  <2>2. CASE b = seen.from
    <3> DEFINE r == [seen EXCEPT !.pc = "defrag"]
    <3>1. th' = [th EXCEPT ![t] = r]
      BY <2>1, <2>2
    <3>2. r.call = th[t].call
      BY <1>2 DEF ThreadType
    <3> QED BY <3>1, <3>2
  <2>3. CASE b # seen.from
    <3> DEFINE r == [seen EXCEPT !.pc = "bucket", !.path = <<b - 1>>]
    <3>1. th' = [th EXCEPT ![t] = r]
      BY <2>1, <2>3
    <3>2. r.call = th[t].call
      BY <1>2 DEF ThreadType
    <3> QED BY <3>1, <3>2
  <2> QED BY <2>2, <2>3
<1> QED BY <1>1, <1>2, <1>3, InsideStep

LEMMA RunDefragSeen ==
    ASSUME Promise, NEW t \in Threads, RunDefrag(t)
    PROVE  [Promised!Next]_(Promised!vars)
<1> DEFINE q == [th[t] EXCEPT !.call.ret = "true"]
<1>1. /\ th[t].pc = "defrag" /\ Return(t, q) /\ UNCHANGED <<table, other>> /\ Inv
  BY DEF RunDefrag, env, Promise, Answered
<1>2. ThreadType(th[t]) /\ th[t].call.ret = "pending" /\ th[t].call.op = "defragment" /\ acc[t] = NoAccessor
  BY <1>1, PendingAt, InCall DEF AnswerOK
<1>3. q.call = [th[t].call EXCEPT !.ret = "true"] /\ q.call.op = th[t].call.op
  <2>1. q = Replied(th[t], "true")
    BY DEF Replied
  <2> HIDE DEF q
  <2> QED BY <1>2, <2>1, AnsweredCall
<1> HIDE DEF q
<1>4. PICK c : c = q.call
  OBVIOUS
<1> DEFINE r == AfterCall(c)
<1>5. th' = [th EXCEPT ![t] = r] /\ UNCHANGED acc
  BY <1>1, <1>2, <1>3, <1>4 DEF Return
<1>6. r.call = c /\ r.pc = "idle"
  BY DEF AfterCall
<1> HIDE DEF r
<1>7. CallSeen(t, c) /\ ElementSeen(t, HeldBy(NoAccessor, r))
  BY <1>1, <1>2, <1>5, <1>6, EffectSeen
<1>8. ElementsHeld' = ElementsHeld
  <2>1. HeldBy(NoAccessor, r) = HeldBy(acc[t], th[t])
    BY <1>1, <1>2, <1>6 DEF HeldBy, Granted
  <2> QED BY <1>7, <2>1, SameElement
<1>9. Promised!Answer(t, TRUE)
  BY <1>3, <1>4, <1>7, AnswerTrue
<1>10. CallsMade[t] = th[t].call /\ Promised!Pending(t)
  BY <1>2 DEF CallsMade, Promised!Pending
<1>11. Contents(table') = Contents(table) /\ Contents(other') = Contents(other)
  BY <1>1
<1>12. Promised!Defragment(t)
  BY <1>2, <1>8, <1>9, <1>10, <1>11
     DEF Promised!Defragment, CallsMade, ElementsHeld, HeldBy, Granted, Unheld
<1> QED BY <1>12, Visible

\* What a thread with an accessor holds, between two calls.
LEMMA HeldIdle ==
    ASSUME Promise, NEW t \in Threads, th[t].pc = "idle", acc[t] # NoAccessor
    PROVE  /\ ElementsHeld[t] = [key |-> th[t].call.key, mode |-> acc[t].mode]
           /\ HoldsItem(acc[t], th[t], table)
<1>1. HoldsItem(acc[t], th[t], table)
  BY DEF Promise, AccessorsOK, AccessorOK
<1>2. ElementsHeld[t] = HeldBy(acc[t], th[t])
  BY DEF ElementsHeld
<1> QED BY <1>1, <1>2 DEF HoldsItem, HeldBy, Granted

LEMMA StoreSeen ==
    ASSUME Promise, NEW t \in Threads, StoreThroughAccessor(t)
    PROVE  [Promised!Next]_(Promised!vars)
<1> DEFINE k == th[t].call.key
<1>1. th[t].pc = "idle" /\ UNCHANGED <<th, acc, other>> /\ Inv /\ Inv'
  BY StoreThroughAccessorStep DEF StoreThroughAccessor, env, Promise
<1>2. up /\ acc[t] # NoAccessor /\ acc[t].mode = "write"
  BY StoreFact
<1>3. PICK n \in NodesIn(table) : \E v \in Values :
            n.id = acc[t].id /\ n.key = k /\ table' = StoreValue(table, acc[t].id, v)
  BY StoreFact
<1>4. PICK v \in Values : n.id = acc[t].id /\ n.key = k /\ table' = StoreValue(table, acc[t].id, v)
  BY <1>3
<1>5. TableOK(table') /\ TableOK(table) /\ KeysUnique(table)
  BY <1>1, PlacedUnique DEF Promise, Inv
<1>6. n \in Node /\ k \in Keys
  <2>1. n \in Node
    BY <1>5, InBucket, NodeFacts
  <2> QED BY <1>4, <2>1 DEF Node
<1>7. /\ Placed(table') /\ NodesIn(table') = (NodesIn(table) \ {n}) \cup {Valued(n, v)}
  BY <1>2, <1>4, <1>5, StoreStep
<1>8. KeysUnique(table')
  BY <1>5, <1>7, PlacedUnique
<1>9. Valued(n, v).key = k /\ Valued(n, v).val = v
  BY <1>4, <1>6, ValuedFacts
<1>10. Contents(table') = [Contents(table) EXCEPT ![k] = v]
  <2>1. \E m \in NodesIn(table') : m.key = k /\ m.val = v
    BY <1>7, <1>9
  <2>2. \A m \in NodesIn(table') : m.key # k => m \in NodesIn(table)
    BY <1>7, <1>9
  <2>3. \A m \in NodesIn(table) : m.key # k => m \in NodesIn(table')
    BY <1>4, <1>7
  <2> HIDE DEF k
  <2> QED BY <1>5, <1>6, <1>8, <2>1, <2>2, <2>3, ContentsChanged
<1>11. ElementsHeld[t] = [key |-> k, mode |-> "write"]
  BY <1>1, <1>2, HeldIdle
<1>12. ElementsHeld[t].key = k /\ ElementsHeld[t].mode = "write"
  BY <1>11
<1> HIDE DEF k
<1>13. \E x \in Values : Contents(table') = [Contents(table) EXCEPT ![ElementsHeld[t].key] = x]
  BY <1>10, <1>12
<1>14. Contents(other') = Contents(other) /\ CallsMade' = CallsMade /\ ElementsHeld' = ElementsHeld
  BY <1>1 DEF CallsMade, ElementsHeld, HeldBy, Granted
<1>15. Promised!Store(t)
  BY <1>12, <1>13, <1>14 DEF Promised!Store, CallsMade, ElementsHeld, HeldBy, Granted, Unheld
<1> QED BY <1>15, Visible

LEMMA ReleaseSeen ==
    ASSUME Promise, NEW t \in Threads, ReleaseAccessor(t)
    PROVE  [Promised!Next]_(Promised!vars)
<1> DEFINE r == th[t]
<1>1. /\ th[t].pc = "idle" /\ acc[t] # NoAccessor /\ acc' = [acc EXCEPT ![t] = NoAccessor]
      /\ UNCHANGED <<table, th, other>> /\ Inv
  BY DEF ReleaseAccessor, env, Promise
<1>2. th' = [th EXCEPT ![t] = r]
  BY <1>1 DEF Inv
<1>3. ElementsHeld[t] = [key |-> th[t].call.key, mode |-> acc[t].mode] /\ HoldsItem(acc[t], th[t], table)
  BY <1>1, HeldIdle
<1>4. ElementsHeld[t] # Unheld
  <2>1. ElementsHeld[t].mode = acc[t].mode /\ acc[t].mode # "none"
    BY <1>3 DEF HoldsItem
  <2> QED BY <2>1 DEF Unheld
<1>5. HeldBy(NoAccessor, r) = Unheld
  BY <1>1 DEF HeldBy, Granted
<1> HIDE DEF r
<1>6. ElementSeen(t, HeldBy(NoAccessor, r))
  BY <1>1, <1>2, SeenStep
<1>7. ElementsHeld' = [ElementsHeld EXCEPT ![t] = Unheld]
  BY <1>5, <1>6 DEF ElementSeen
<1>8. Contents(table') = Contents(table) /\ Contents(other') = Contents(other) /\ CallsMade' = CallsMade
  BY <1>1 DEF CallsMade
<1>9. Promised!Release(t)
  BY <1>4, <1>7, <1>8
     DEF Promised!Release, Promised!NotHeld, CallsMade, ElementsHeld, HeldBy, Granted, Unheld
<1> QED BY <1>9, Visible

LEMMA CallsSeen ==
    ASSUME Promise, NEW t \in Threads, Calls(t)
    PROVE  [Promised!Next]_(Promised!vars)
<1>1. PICK call, b, from : Start(t, call, table.my_mask, b, from) /\ Asking(call) /\ call.op # "none"
  BY CallAsks DEF Promise
<1> DEFINE r == [AfterCall(call) EXCEPT !.pc = "bucket", !.m = table.my_mask, !.path = <<b>>, !.from = from]
<1>2. /\ th[t].pc = "idle" /\ acc[t] = NoAccessor /\ UNCHANGED <<table, other, acc>>
      /\ th' = [th EXCEPT ![t] = r] /\ Inv
  BY <1>1 DEF Start, Promise
<1>3. /\ r.pc = "bucket" /\ r.call = call
  BY DEF AfterCall
<1> HIDE DEF r
<1>4. CallSeen(t, call) /\ ElementSeen(t, HeldBy(NoAccessor, r))
  BY <1>2, <1>3, EffectSeen
<1>5. ElementsHeld[t] = Unheld /\ ElementsHeld' = ElementsHeld
  <2>1. HeldBy(NoAccessor, r) = HeldBy(acc[t], th[t]) /\ HeldBy(acc[t], th[t]) = Unheld
    BY <1>2, <1>3 DEF HeldBy, Granted
  <2>2. ElementsHeld[t] = HeldBy(acc[t], th[t])
    BY DEF ElementsHeld
  <2> QED BY <1>4, <2>1, <2>2, SameElement
<1>6. ~Promised!Pending(t)
  <2>1. th[t].call.ret # "pending"
    BY <1>2 DEF Promise, CallersOK, CallerOK, AnswerOK
  <2> QED BY <2>1 DEF Promised!Pending
<1>7. \E op \in {"count", "find", "insert", "insert_or_assign", "erase", "defragment"},
         k \in Keys \cup {None}, v \in Values \cup {None}, mode \in {"none", "read", "write"} :
        CallsMade' = [CallsMade EXCEPT ![t] = [op |-> op, key |-> k, val |-> v, mode |-> mode, ret |-> "pending"]]
  <2>1. CallsMade' = [CallsMade EXCEPT ![t] = call]
    BY <1>4 DEF CallSeen
  <2>2. call \in Call /\ call.ret = "pending" /\ call.op # "none"
    BY <1>1 DEF Asking
  <2>3. call = [op |-> call.op, key |-> call.key, val |-> call.val, mode |-> call.mode, ret |-> "pending"]
        /\ call.op \in {"count", "find", "insert", "insert_or_assign", "erase", "defragment"}
        /\ call.key \in Keys \cup {None} /\ call.val \in Values \cup {None} /\ call.mode \in {"none", "read", "write"}
    BY <2>2 DEF Call, Keyed_ops
  <2> QED BY <2>1, <2>3
<1>8. Contents(table') = Contents(table) /\ Contents(other') = Contents(other)
  BY <1>2
<1>9. Promised!Invoke(t)
  BY <1>5, <1>6, <1>7, <1>8
     DEF Promised!Invoke, Promised!NotHeld, CallsMade, ElementsHeld, HeldBy, Granted, Unheld
<1> QED BY <1>9, Visible


-----------------------------------------------------------------------------
(* What a caller sees of an operation of one thread alone, and of a crash *)

LEMMA RestingHolds ==
    ASSUME \A t \in Threads : /\ th[t].pc = "idle" /\ acc[t] = NoAccessor
    PROVE  ElementsHeld = [t \in Threads |-> Unheld]
<1>1. \A t \in Threads : HeldBy(acc[t], th[t]) = Unheld
  BY DEF HeldBy, Granted
<1> QED BY <1>1 DEF ElementsHeld

LEMMA QuietSeen ==
    ASSUME Promise, Quiet
    PROVE  Promised!Quiet
<1>1. \A t \in Threads : th[t].pc = "idle" /\ acc[t] = NoAccessor /\ th[t].call.ret # "pending"
  BY RestFacts
<1> QED BY <1>1 DEF Promised!Quiet, Promised!Pending, Promised!NotHeld

LEMMA SameCallers ==
    ASSUME UNCHANGED <<th, acc>>
    PROVE  CallsMade' = CallsMade /\ ElementsHeld' = ElementsHeld
  BY DEF CallsMade, ElementsHeld, HeldBy, Granted, Unheld

LEMMA ClearMapSeen ==
    ASSUME Promise, clear_map
    PROVE  [Promised!Next]_(Promised!vars)
<1>1. Quiet /\ UNCHANGED <<acc, other, th>> /\ table' = ClearTable(table)
  BY DEF clear_map, Alone
<1>2. NodesIn(table') = {}
  BY <1>1, RestFacts, ClearPlaced
<1>3. Contents(table') = [k \in Keys |-> None]
  BY <1>2 DEF Contents
<1>4. Contents(other') = Contents(other) /\ CallsMade' = CallsMade /\ ElementsHeld' = ElementsHeld
  BY <1>1, SameCallers
<1>5. Promised!Quiet
  BY <1>1, QuietSeen
<1>6. Promised!Clear
  BY <1>3, <1>4, <1>5
     DEF Promised!Clear, Promised!Empty, CallsMade, ElementsHeld, HeldBy, Granted, Unheld
<1> QED BY <1>6, VisibleToAll

LEMMA RehashMapSeen ==
    ASSUME Promise, rehash_map
    PROVE  [Promised!Next]_(Promised!vars)
<1>1. UNCHANGED <<acc, other, th>>
  BY DEF rehash_map, Alone
<1>2. Contents(table') = Contents(table)
  BY RehashMapPromise, SameContents
<1>3. Contents(other') = Contents(other) /\ CallsMade' = CallsMade /\ ElementsHeld' = ElementsHeld
  BY <1>1, SameCallers
<1> QED BY <1>2, <1>3, Hidden DEF Seen

\* The contents that a list of a scenario stands for.
LEMMA ListAssigned ==
    ASSUME Inv, NEW list \in scenario.lists
    PROVE  /\ list \in Lists /\ DistinctKeys(list)
           /\ list \in UNION {s.lists : s \in Scenarios}
           /\ Contents(ConstructFrom(list, [i \in DOMAIN list |-> i], TRUE, 0))
                = [k \in Keys |-> ValueIn(list, k)]
<1> DEFINE ids == [i \in DOMAIN list |-> i]
<1>1. scenario \in Scenarios
  BY DEF Inv
<1>2. /\ list \in Seq([key : Keys, val : Values]) /\ Len(list) \in 0 .. 2 ^ number_of_segments
      /\ \A i, k \in DOMAIN list : list[i].key = list[k].key => i = k
  BY <1>1, ListFacts, ScenarioAssumption
<1>3. list \in Lists /\ DistinctKeys(list)
  BY <1>2 DEF Lists, DistinctKeys
<1>4. \A i, k \in DOMAIN list : ids[i] = ids[k] => i = k
  OBVIOUS
<1> DEFINE new == ConstructFrom(list, ids, TRUE, 0)
<1> HIDE DEF ids
<1>5. NodesIn(new) = Elements(list, ids)
  <2> DEFINE built == internal_copy(reserve(Constructed, Len(list)), list, ids, TRUE, 0)
  <2>1. new = built
    BY DEF ConstructFrom
  <2> HIDE DEF new
  <2>2. PICK n \in 0 .. 2 ^ number_of_segments : n = Len(list)
    BY <1>2
  <2>3. PICK tab : tab = Constructed
    OBVIOUS
  <2>4. PICK in_tx \in BOOLEAN : in_tx = TRUE
    OBVIOUS
  <2>5. /\ TableOK(tab) /\ AllInUse(tab) /\ Placed(tab) /\ NodesIn(tab) = {}
        /\ tab.my_size = 0 /\ tab.on_init_size = 0 /\ tab.tls = Construct
    BY <2>3, ConstructedPlaced
  <2>6. NodesIn(internal_copy(reserve(tab, n), list, ids, in_tx, 0)) = Elements(list, ids)
    BY <1>3, <1>4, <2>5, FilledPlaced
  <2> QED BY <2>1, <2>2, <2>3, <2>4, <2>6
<1> HIDE DEF new
<1>6. Contents(new) = [k \in Keys |-> ValueIn(list, k)]
  BY <1>3, <1>5, ContentsOfList
<1> QED BY <1>1, <1>3, <1>6 DEF new, ids

LEMMA AssignListSeen ==
    ASSUME Promise, assign_list
    PROVE  [Promised!Next]_(Promised!vars)
<1>1. PICK list \in scenario.lists : \E in_tx \in BOOLEAN :
        HasRoom(list) /\ table' = AssignTable(table, list, ListIds(list), in_tx, 0)
  BY DEF assign_list
<1>2. PICK in_tx \in BOOLEAN :
        HasRoom(list) /\ table' = AssignTable(table, list, ListIds(list), in_tx, 0)
  BY <1>1
<1>3. Quiet /\ UNCHANGED <<acc, other, th>> /\ Inv
  BY DEF assign_list, Alone, Promise
<1>4. list \in Seq([key : Keys, val : Values]) /\ Len(list) \in Nat
  BY <1>3, ListFacts DEF Inv
<1>5. SubSeq(list, 1, Len(list)) = list /\ Len(list) \in 0 .. Len(list)
  BY <1>4
<1>6. NodesIn(table') = Elements(list, ListIds(list))
  BY <1>2, <1>3, <1>5, AssignedTable DEF AssignTable
<1>7. Contents(table') = [k \in Keys |-> ValueIn(list, k)]
  <2>1. list \in Lists /\ DistinctKeys(list)
    BY <1>3, ListAssigned
  <2> DEFINE ids == ListIds(list)
  <2>2. NodesIn(table') = Elements(list, ids)
    BY <1>6
  <2> HIDE DEF ids
  <2> QED BY <2>1, <2>2, ContentsOfList
<1>8. Contents(table') \in {Contents(ConstructFrom(l, [i \in DOMAIN l |-> i], TRUE, 0)) :
                              l \in UNION {s.lists : s \in Scenarios}}
  BY <1>3, <1>7, ListAssigned
<1>9. Contents(other') = Contents(other) /\ CallsMade' = CallsMade /\ ElementsHeld' = ElementsHeld
  BY <1>3, SameCallers
<1>10. Promised!Quiet
  BY <1>3, QuietSeen
<1>11. Promised!Assign
  BY <1>8, <1>9, <1>10
     DEF Promised!Assign, CallsMade, ElementsHeld, HeldBy, Granted, Unheld
<1> QED BY <1>11, VisibleToAll

\* A list that was cut short gives a key what the list does, or nothing.
LEMMA CutValues ==
    ASSUME NEW list \in Lists, DistinctKeys(list), NEW n \in 0 .. Len(list), NEW part, Len(part) = n,
           part \in Lists, \A i \in 1 .. n : part[i] = list[i], NEW k
    PROVE  ValueIn(part, k) \in {ValueIn(list, k), None}
<1>1. DOMAIN part = 1 .. n /\ DOMAIN part \subseteq DOMAIN list /\ DOMAIN list = 1 .. Len(list)
  BY DEF Lists
<1>2. CASE \E i \in DOMAIN part : part[i].key = k
  <2> DEFINE i == CHOOSE i \in DOMAIN part : part[i].key = k
             j == CHOOSE j \in DOMAIN list : list[j].key = k
  <2>1. i \in DOMAIN part /\ part[i].key = k
    BY <1>2
  <2>2. \E l \in DOMAIN list : list[l].key = k
    <3> HIDE DEF i
    <3> QED BY <1>1, <2>1
  <2>3. j \in DOMAIN list /\ list[j].key = k
    BY <2>2
  <2>4. ValueIn(part, k) = part[i].val /\ ValueIn(list, k) = list[j].val
    BY <1>2, <2>2 DEF ValueIn
  <2> HIDE DEF i, j
  <2>5. i = j
    BY <1>1, <2>1, <2>3 DEF DistinctKeys
  <2> QED BY <1>1, <2>1, <2>4, <2>5
<1>3. CASE ~\E i \in DOMAIN part : part[i].key = k
  BY <1>3 DEF ValueIn
<1> QED BY <1>2, <1>3

LEMMA AssignListCutSeen ==
    ASSUME Promise, assign_list_cut
    PROVE  [Promised!Next]_(Promised!vars)
<1>0. PICK list \in scenario.lists : \E n \in 0 .. Len(list) :
        /\ HasRoom(list)
        /\ table' = internal_copy(reserve(ClearTable(table), Len(list)), SubSeq(list, 1, n),
                                  ListIds(list), FALSE, 0)
  BY DEF assign_list_cut
<1>1. PICK n \in 0 .. Len(list) :
        /\ HasRoom(list)
        /\ table' = internal_copy(reserve(ClearTable(table), Len(list)), SubSeq(list, 1, n),
                                  ListIds(list), FALSE, 0)
  BY <1>0
<1>2. Quiet /\ UNCHANGED <<acc, other>> /\ th' = Idle /\ Inv
  BY DEF assign_list_cut, Alone, Promise
<1> DEFINE part == SubSeq(list, 1, n)
<1>3. /\ NodesIn(table') = Elements(part, ListIds(list)) /\ Len(part) = n
      /\ \A i \in 1 .. n : part[i] = list[i]
  BY <1>1, <1>2, AssignedTable
<1>4. list \in Lists /\ DistinctKeys(list) /\ list \in UNION {s.lists : s \in Scenarios}
      /\ Contents(ConstructFrom(list, [i \in DOMAIN list |-> i], TRUE, 0))
           = [k \in Keys |-> ValueIn(list, k)]
  BY <1>2, ListAssigned
<1>5. part \in Lists /\ DOMAIN part = 1 .. n
  <2> DEFINE S == [key : Keys, val : Values]
  <2> HIDE DEF S
  <2>1. list \in Seq(S) /\ n \in Nat /\ n <= Len(list) /\ Len(list) \in Nat
    BY <1>4 DEF Lists, S
  <2>2. \A i \in 1 .. n : list[i] \in S
    BY <2>1
  <2>3. part = [i \in 1 .. n |-> list[i]]
    BY <2>1
  <2>4. part \in Seq(S) /\ DOMAIN part = 1 .. n
    BY <2>1, <2>2, <2>3
  <2> QED BY <2>4 DEF S, Lists
<1> HIDE DEF part
<1>6. DistinctKeys(part)
  <2>1. DOMAIN list = 1 .. Len(list)
    BY <1>4 DEF Lists
  <2> QED BY <1>3, <1>4, <1>5, <2>1 DEF DistinctKeys
<1>7. Contents(table') = [k \in Keys |-> ValueIn(part, k)]
  BY <1>3, <1>5, <1>6, ContentsOfList
<1>8. \A k \in Keys : Contents(table')[k] \in {ValueIn(list, k), None}
  BY <1>3, <1>4, <1>5, <1>7, CutValues
<1> DEFINE new == Contents(ConstructFrom(list, [i \in DOMAIN list |-> i], TRUE, 0))
<1>9. new \in {Contents(ConstructFrom(l, [i \in DOMAIN l |-> i], TRUE, 0)) :
                  l \in UNION {s.lists : s \in Scenarios}}
  BY <1>4
<1>10. \A k \in Keys : Contents(table')[k] \in {new[k], None}
  BY <1>4, <1>8
<1>11. Contents(other') = Contents(other)
  BY <1>2
<1>12. CallsMade' = [t \in Threads |-> NoCall]
  BY <1>2, IdleRests DEF CallsMade
<1>13. ElementsHeld' = ElementsHeld
  <2>1. \A t \in Threads : th[t].pc = "idle" /\ acc[t] = NoAccessor
    BY <1>2, RestFacts
  <2>2. \A t \in Threads : th'[t].pc = "idle" /\ acc'[t] = NoAccessor
    BY <1>2, <2>1, IdleRests
  <2>3. \A t \in Threads : HeldBy(acc'[t], th'[t]) = Unheld
    BY <2>2 DEF HeldBy, Granted
  <2>4. ElementsHeld' = [t \in Threads |-> HeldBy(acc'[t], th'[t])]
    BY DEF ElementsHeld, HeldBy, Granted, Unheld
  <2> QED BY <2>1, <2>3, <2>4, RestingHolds
<1>14. Promised!Quiet
  BY <1>2, QuietSeen
<1> HIDE DEF new
<1>15. \E x \in {Contents(ConstructFrom(l, [i \in DOMAIN l |-> i], TRUE, 0)) :
                  l \in UNION {s.lists : s \in Scenarios}} :
          \A k \in Keys : Contents(table')[k] \in {x[k], None}
  BY <1>9, <1>10
<1>16. Promised!AssignCut
  BY <1>11, <1>12, <1>13, <1>14, <1>15
     DEF Promised!AssignCut, Promised!NoCall, NoCall, CallsMade, ElementsHeld, HeldBy, Granted, Unheld
<1> QED BY <1>16, VisibleToAll

LEMMA SwapSeen ==
    ASSUME SwapsMatch, Promise, swap
    PROVE  [Promised!Next]_(Promised!vars)
<1>1. Quiet /\ UNCHANGED <<acc, th>>
  BY DEF swap, Alone
<1>2. Contents(table') = Contents(other) /\ Contents(other') = Contents(table)
  BY SwapPromise, SameContents
<1>3. CallsMade' = CallsMade /\ ElementsHeld' = ElementsHeld
  BY <1>1, SameCallers
<1>4. Promised!Quiet
  BY <1>1, QuietSeen
<1>5. Promised!Swap
  BY <1>2, <1>3, <1>4 DEF Promised!Swap, CallsMade, ElementsHeld, HeldBy, Granted, Unheld
<1> QED BY <1>5, VisibleToAll

LEMMA SwapUndoneSeen ==
    ASSUME SwapsMatch, Promise, swap_undone
    PROVE  [Promised!Next]_(Promised!vars)
<1>1. UNCHANGED <<table, acc, th>>
  BY DEF swap_undone, Alone
<1>2. Contents(other') = Contents(other)
  BY SwapUndonePromise, SameContents
<1>3. Contents(table') = Contents(table) /\ CallsMade' = CallsMade /\ ElementsHeld' = ElementsHeld
  BY <1>1, SameCallers
<1> QED BY <1>2, <1>3, Hidden DEF Seen

LEMMA CrashSeen ==
    ASSUME Promise, Crash
    PROVE  [Promised!Next]_(Promised!vars)
<1>1. UNCHANGED other /\ th' = Idle /\ acc' = [t \in Threads |-> NoAccessor]
  BY DEF Crash
<1>2. Contents(table') = Contents(table)
  BY CrashPromise, SameContents
<1>3. Contents(other') = Contents(other)
  BY <1>1
<1>4. CallsMade' = [t \in Threads |-> NoCall]
  BY <1>1, IdleRests DEF CallsMade
<1>5. ElementsHeld' = [t \in Threads |-> Unheld]
  <2>1. \A t \in Threads : th'[t].pc = "idle" /\ acc'[t] = NoAccessor
    BY <1>1, IdleRests
  <2>2. \A t \in Threads : HeldBy(acc'[t], th'[t]) = Unheld
    BY <2>1 DEF HeldBy, Granted
  <2>3. ElementsHeld' = [t \in Threads |-> HeldBy(acc'[t], th'[t])]
    BY DEF ElementsHeld, HeldBy, Granted, Unheld
  <2> QED BY <2>2, <2>3
<1>6. Promised!Crash
  BY <1>2, <1>3, <1>4, <1>5
     DEF Promised!Crash, Promised!NoCall, Promised!NotHeld, NoCall, CallsMade, ElementsHeld, HeldBy,
         Granted, Unheld
<1> QED BY <1>6, VisibleToAll

LEMMA RestartSeen ==
    ASSUME Promise, Restart
    PROVE  [Promised!Next]_(Promised!vars)
<1>1. UNCHANGED <<acc, th>>
  BY DEF Restart
<1>2. Contents(table') = Contents(table) /\ Contents(other') = Contents(other)
  BY RestartPromise, SameContents
<1>3. CallsMade' = CallsMade /\ ElementsHeld' = ElementsHeld
  BY <1>1, SameCallers
<1> QED BY <1>2, <1>3, Hidden DEF Seen

LEMMA StutterSeen ==
    ASSUME UNCHANGED vars
    PROVE  [Promised!Next]_(Promised!vars)
<1>1. UNCHANGED <<table, other, th, acc>>
  BY DEF vars
<1>2. Contents(table') = Contents(table) /\ Contents(other') = Contents(other)
  BY <1>1
<1>3. CallsMade' = CallsMade /\ ElementsHeld' = ElementsHeld
  BY <1>1, SameCallers
<1> QED BY <1>2, <1>3, Hidden DEF Seen

LEMMA InitSeen == Init => Promised!Init
<1> SUFFICES ASSUME Init PROVE Promised!Init
  OBVIOUS
<1>1. Promise
  BY InitPromise
<1>2. th = Idle /\ acc = [t \in Threads |-> NoAccessor]
  BY DEF Init
<1>3. Contents(table) \in [Keys -> Values \cup {None}] /\ Contents(other) \in [Keys -> Values \cup {None}]
  <2>1. TableOK(table) /\ TableOK(other) /\ KeysUnique(table) /\ KeysUnique(other)
    BY <1>1, PlacedUnique DEF Promise, Inv
  <2> QED BY <2>1, ContentsAre
<1>4. CallsMade = [t \in Threads |-> NoCall]
  BY <1>2, IdleRests DEF CallsMade
<1>5. ElementsHeld = [t \in Threads |-> Unheld]
  BY <1>2, IdleRests, RestingHolds
<1> QED BY <1>3, <1>4, <1>5
        DEF Promised!Init, Promised!NoCall, Promised!NotHeld, NoCall, CallsMade, ElementsHeld, HeldBy,
            Granted, Unheld

LEMMA WorkSeen ==
    ASSUME Promise, NEW t \in Threads, Step(t)
    PROVE  [Promised!Next]_(Promised!vars)
<1>1. CASE CheckRehashed(t) \/ TryLock(t) \/ LockBucket(t) \/ RehashBucket(t) \/ MarkRehashed(t)
           \/ PersistRehashed(t)
  BY <1>1, CheckRehashedSeen, TryLockSeen, LockBucketSeen, RehashBucketSeen, MarkRehashedSeen,
     PersistRehashedSeen
<1>2. CASE SearchMiss(t) \/ SearchHit(t) \/ TryItem(t) \/ LocalSizeDiff(t) \/ CacheTlsSize(t)
  BY <1>2, SearchMissSeen, SearchHitSeen, TryItemSeen, LocalSizeDiffSeen, CacheTlsSizeSeen
<1>3. CASE InsertNode(t) \/ CountInserted(t) \/ AssignItem(t) \/ EraseNode(t) \/ CountErased(t)
  BY <1>3, InsertNodeSeen, CountInsertedSeen, AssignItemSeen, EraseNodeSeen, CountErasedSeen
<1>4. CASE CheckGrowth(t) \/ EnableSegment(t) \/ PublishMask(t)
  BY <1>4, CheckGrowthSeen, EnableSegmentSeen, PublishMaskSeen
<1>5. CASE SaveNodes(t) \/ RunDefrag(t) \/ ReleaseAccessor(t)
  BY <1>5, SaveNodesSeen, RunDefragSeen, ReleaseSeen
<1> QED BY <1>1, <1>2, <1>3, <1>4, <1>5 DEF Step

LEMMA NextSeen ==
    ASSUME SwapsMatch, Promise, [Next]_vars
    PROVE  [Promised!Next]_(Promised!vars)
<1>1. ASSUME \E t \in Threads : Calls(t) \/ Step(t) \/ StoreThroughAccessor(t)
      PROVE  [Promised!Next]_(Promised!vars)
  BY <1>1, WorkSeen, CallsSeen, StoreSeen
<1>2. ASSUME clear_map \/ rehash_map \/ assign_list \/ assign_list_cut
      PROVE  [Promised!Next]_(Promised!vars)
  BY <1>2, ClearMapSeen, RehashMapSeen, AssignListSeen, AssignListCutSeen
<1>3. ASSUME swap \/ swap_undone PROVE [Promised!Next]_(Promised!vars)
  BY <1>3, SwapSeen, SwapUndoneSeen
<1>4. ASSUME Crash \/ Restart PROVE [Promised!Next]_(Promised!vars)
  BY <1>4, CrashSeen, RestartSeen
<1> QED BY <1>1, <1>2, <1>3, <1>4, StutterSeen DEF Next

\* concurrent_hash_map keeps the promise of ConcurrentMap: every call takes
\* effect in one step between its start and its end (insert, find, erase,
\* insert_or_assign, count), an accessor is a lock on its element, and a crash
\* at any step loses nothing that was done.
THEOREM PromiseKept ==
    ASSUME SwapsMatch
    PROVE  Spec => KeepsPromise
<1>1. Init => Promised!Init
  BY InitSeen
<1>2. Promise /\ [Next]_vars => [Promised!Next]_(Promised!vars)
  BY NextSeen
<1>3. Spec => []Promise
  BY PromiseInvariant
<1> QED BY <1>1, <1>2, <1>3, PTL DEF Spec, KeepsPromise, Promised!Spec
=============================================================================

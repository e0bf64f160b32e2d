------------------------- MODULE ConcurrentSkipList -------------------------
(***************************************************************************)
(* concurrent_skip_list: threads that search it without a lock and insert  *)
(* into it while they hold the locks of the nodes before the new one, and  *)
(* a crash at any step.                                                    *)
(*                                                                         *)
(* A node is linked level by level with stores that become persistent one  *)
(* by one, and not in a transaction: the entry of the thread in tls says   *)
(* what recovery has to complete.  A store is one step and the persist     *)
(* that follows it is another: a crash between the two may lose the store. *)
(* A transaction is one step: what it changes, no other thread looks at.   *)
(***************************************************************************)
EXTENDS SkipList

CONSTANT
    Scenarios           \* what the threads may do, see below

(***************************************************************************)
(* A scenario bounds a behaviour:                                          *)
(*   lists     what the map may hold at first, or be assigned              *)
(*   spares    what the other map may hold at first                        *)
(*   ops       the calls that threads make                                 *)
(*   keys      the keys they are about                                     *)
(*   levels    the numbers of levels that random_level() draws             *)
(*   alone     the calls that one thread makes alone                       *)
(*   any_sizes whether lists whose sizes have changed are moved or swapped  *)
(*   fails     whether there may be no memory for a node                   *)
(*   calls     the number of calls                                         *)
(*   crashes   the number of crashes                                       *)
(***************************************************************************)
VARIABLES
    list,               \* the skip list
    other,              \* another one
    th,                 \* what each thread is doing
    up,                 \* runtime_initialize() has run
    calls, crashes,     \* how many are left
    scenario

vars == <<list, other, th, up, calls, crashes, scenario>>
env == <<other, up, calls, crashes, scenario>>

NoCall == [op |-> "none", key |-> None, val |-> None, status |-> "none", ret |-> None]
NoUndo == [what |-> "none", id |-> None, old |-> None]

\* A thread between two calls, and one that is in a call:
\*   levels    the height of the new node, and n its id once it exists
\*   level     of the list that it searches, locks or links
\*   prev      how far it got on that level
\*   prevs, nexts   where the new node is to be linked
\*   locks     the nodes it has locked
\*   undo      its last store, if that is not persistent yet: what it replaced
AfterCall(call) ==
    [pc |-> "idle", call |-> call, levels |-> 0, n |-> None, level |-> 0, prev |-> None,
     prevs |-> <<>>, nexts |-> <<>>, locks |-> {}, undo |-> NoUndo]

Idle == [t \in Threads |-> AfterCall(NoCall)]

Insertions == {"insert", "emplace"}
Queries == {"find", "lower_bound", "upper_bound", "find_lower", "find_lower_eq"}

Quiet == up /\ \A t \in Threads : th[t].pc = "idle"

Return(t, status, ret) ==
    th' = [th EXCEPT ![t] = AfterCall([@.call EXCEPT !.status = status, !.ret = ret])]

-----------------------------------------------------------------------------
(* Calls *)

\* A search starts at the top level of the dummy head.
Searching(r) ==
    [r EXCEPT !.pc = "search", !.level = MAX_LEVEL, !.prev = dummy_head, !.locks = {},
              !.prevs = [l \in Levels |-> None], !.nexts = [l \in Levels |-> None]]

Called(t, op) ==
    /\ up /\ th[t].pc = "idle"
    /\ op \in scenario.ops
    /\ calls > 0 /\ calls' = calls - 1
    /\ UNCHANGED <<other, up, crashes, scenario>>

Request(op, k, v) == [op |-> op, key |-> k, val |-> v, status |-> "pending", ret |-> None]

\* find(), contains() and count() are a lower_bound() and a comparison.
query(t) ==
    \E op \in Queries, k \in scenario.keys :
        /\ Called(t, op)
        /\ th' = [th EXCEPT ![t] = Searching(AfterCall(Request(op, k, None)))]
        /\ UNCHANGED list

insert(t) ==
    \E k \in scenario.keys, levels \in scenario.levels :
        /\ Called(t, "insert")
        /\ th' = [th EXCEPT ![t] = Searching([AfterCall(Request("insert", k, t))
                                                EXCEPT !.levels = levels])]
        /\ UNCHANGED list

\* internal_emplace() creates the node first, since only the node has the key.
\* It is as if the call started with its first transaction.
emplace(t) ==
    \E k \in scenario.keys, levels \in scenario.levels :
        LET n == NewId(list)
        IN  /\ Called(t, "emplace")
            /\ list' = [AddNode(list, n, k, t, [l \in 1 .. levels |-> None])
                            EXCEPT !.tls[t] = [ptr |-> n, in_progress |-> FALSE,
                                               size_diff |-> @.size_diff + 1]]
            /\ th' = [th EXCEPT ![t] = Searching([AfterCall(Request("emplace", k, t))
                                                    EXCEPT !.levels = levels, !.n = n])]

-----------------------------------------------------------------------------
(* Searches: internal_find_position() reads one pointer at a time. *)

\* Mutant: find_lower_eq() compares with _compare.
OrEqual_Strict(op) == op = "upper_bound"

OrEqual(op) == op \in {"upper_bound", "find_lower_eq"}

\* The pointer that a thread reads next.
Seen(t) == next(list, th[t].prev, th[t].level)

Goes(t) == Seen(t) # None /\ Before(list, Seen(t), th[t].call.key, OrEqual(th[t].call.op))

Advance(t) ==
    /\ th[t].pc = "search" /\ Goes(t)
    /\ th' = [th EXCEPT ![t].prev = Seen(t)]
    /\ UNCHANGED <<list, env>>

Placed(t) ==
    [th[t] EXCEPT !.prevs[th[t].level] = th[t].prev, !.nexts[th[t].level] = Seen(t)]

Descend(t) ==
    /\ th[t].pc = "search" /\ ~Goes(t) /\ th[t].level > 1
    /\ th' = [th EXCEPT ![t] = IF th[t].call.op \in Insertions
                               THEN [Placed(t) EXCEPT !.level = @ - 1]
                               ELSE [@ EXCEPT !.level = @ - 1]]
    /\ UNCHANGED <<list, env>>

KeyOf(n) == IF n = None THEN None ELSE list.node[n].key

\* What a query returns: internal_get_bound(), internal_find() or
\* internal_get_biggest_less_than().
Result(t) ==
    LET op == th[t].call.op
        bound == KeyOf(Seen(t))
    IN  IF op \in {"find_lower", "find_lower_eq"} THEN KeyOf(th[t].prev)
        ELSE IF op = "find" THEN (IF bound = th[t].call.key THEN bound ELSE None)
        ELSE bound

AtBottom(t) == th[t].pc = "search" /\ ~Goes(t) /\ th[t].level = 1

Answer(t) ==
    /\ AtBottom(t) /\ th[t].call.op \in Queries
    /\ Return(t, "found", Result(t))
    /\ UNCHANGED <<list, env>>

Exists(t) == Seen(t) # None /\ KeyOf(Seen(t)) = th[t].call.key

\* internal_insert_node(): the element exists.  emplace() has a node to delete.
Refuse(t) ==
    /\ AtBottom(t) /\ th[t].call.op \in Insertions /\ Exists(t)
    /\ IF th[t].call.op = "insert" THEN Return(t, "exists", th[t].call.key)
       ELSE th' = [th EXCEPT ![t] = [AfterCall([@.call EXCEPT !.status = "exists", !.ret = th[t].call.key])
                                        EXCEPT !.pc = "discard", !.n = th[t].n]]
    /\ UNCHANGED <<list, env>>

Position(t) ==
    /\ AtBottom(t) /\ th[t].call.op \in Insertions /\ ~Exists(t)
    /\ th' = [th EXCEPT ![t] = [Placed(t) EXCEPT !.pc = "lock", !.prev = None]]
    /\ UNCHANGED <<list, env>>

Discard(t) ==
    /\ th[t].pc = "discard"
    /\ list' = [delete_node(list, th[t].n) EXCEPT !.tls[t].ptr = None, !.tls[t].size_diff = @ - 1]
    /\ th' = [th EXCEPT ![t] = AfterCall(@.call)]
    /\ UNCHANGED env

-----------------------------------------------------------------------------
(* try_insert_node() *)

\* Mutant: a node that is before the new one on two levels is locked twice.
LockFree_Again(n, t) == \A u \in Threads : n \notin th[u].locks

LockFree(n, t) == \A u \in Threads \ {t} : n \notin th[u].locks

\* The pointer is still the one that the search saw.
StillThere(t) ==
    LET r == th[t] IN next(list, r.prevs[r.level], r.level) = r.nexts[r.level]

\* try_lock_nodes(), a level: the lock and the pointer that it protects.  When
\* that has changed, all locks are dropped and the search starts over.
LockPrev(t) ==
    LET r == th[t]
    IN  /\ r.pc = "lock" /\ LockFree(r.prevs[r.level], t)
        /\ th' = [th EXCEPT ![t] =
                    IF ~StillThere(t) THEN Searching(r)
                    ELSE IF r.level = r.levels
                    THEN [r EXCEPT !.pc = "prepare", !.locks = @ \cup {r.prevs[r.level]}]
                    ELSE [r EXCEPT !.level = @ + 1, !.locks = @ \cup {r.prevs[r.level]}]]
        /\ UNCHANGED <<list, env>>

\* The new node is prepared: its lock is taken before others can see it.
Prepared(r, n) == [r EXCEPT !.pc = "link", !.level = 1, !.n = n, !.locks = @ \cup {n}]

\* internal_insert() makes the node with its pointers and its log at once.
CreateNode(t) ==
    LET r == th[t]
        n == NewId(list)
    IN  /\ r.pc = "prepare" /\ r.call.op = "insert"
        /\ list' = [AddNode(list, n, r.call.key, r.call.val, SubSeq(r.nexts, 1, r.levels))
                        EXCEPT !.tls[t] = [ptr |-> n, in_progress |-> TRUE,
                                           size_diff |-> @.size_diff + 1]]
        /\ th' = [th EXCEPT ![t] = Prepared(r, n)]
        /\ UNCHANGED env

\* The transaction throws, and the locks are released.
CreateNodeFails(t) ==
    /\ scenario.fails
    /\ th[t].pc = "prepare" /\ th[t].call.op = "insert"
    /\ Return(t, "thrown", None)
    /\ UNCHANGED <<list, env>>

\* A store of a thread that is not persistent yet.
Stored(r, what, id, old) == [r EXCEPT !.undo = [what |-> what, id |-> id, old |-> old]]

Persisted(t) == th[t].undo = NoUndo

\* internal_emplace(): the node gets its pointers, and then they are persistent,
SetNexts(t) ==
    LET r == th[t]
    IN  /\ r.pc = "prepare" /\ r.call.op = "emplace"
        /\ list' = set_nexts(list, r.n, SubSeq(r.nexts, 1, r.levels))
        /\ th' = [th EXCEPT ![t] = Stored([r EXCEPT !.pc = "stage"], "next", r.n,
                                          list.node[r.n].next)]
        /\ UNCHANGED env

\* and the log says that recovery may link it.
SetInProgress(t) ==
    /\ th[t].pc = "stage" /\ Persisted(t)
    /\ list' = [list EXCEPT !.tls[t].in_progress = TRUE]
    /\ th' = [th EXCEPT ![t] = Stored(Prepared(@, th[t].n), "stage", t, FALSE)]
    /\ UNCHANGED env

\* Other threads see the element from the first of these stores on.
Link(t) ==
    LET r == th[t]
        p == r.prevs[r.level]
        seen == [r.call EXCEPT !.status = "inserted", !.ret = r.call.key]
    IN  /\ r.pc = "link" /\ Persisted(t)
        /\ list' = set_next(list, p, r.level, r.n)
        /\ th' = [th EXCEPT ![t] = Stored([r EXCEPT !.call = seen, !.level = @ + 1,
                                                !.pc = IF r.level = r.levels THEN "unlog" ELSE "link"],
                                          "next", p, list.node[p].next)]
        /\ UNCHANGED env

Unlog(t) ==
    /\ th[t].pc = "unlog" /\ Persisted(t)
    /\ list' = [list EXCEPT !.tls[t].ptr = None]
    /\ th' = [th EXCEPT ![t] = Stored([@ EXCEPT !.pc = "count"], "ptr", t, th[t].n)]
    /\ UNCHANGED env

Persist(t) ==
    /\ ~Persisted(t)
    /\ th' = [th EXCEPT ![t].undo = NoUndo]
    /\ UNCHANGED <<list, env>>

\* The element is counted and the locks are released.
Count(t) ==
    /\ th[t].pc = "count" /\ Persisted(t)
    /\ list' = [list EXCEPT !.size = @ + 1]
    /\ th' = [th EXCEPT ![t] = AfterCall(@.call)]
    /\ UNCHANGED env

-----------------------------------------------------------------------------
(* Operations of one thread alone, each of them one transaction *)

Alone(name) ==
    /\ name \in scenario.alone
    /\ Quiet
    /\ calls > 0 /\ calls' = calls - 1
    /\ UNCHANGED <<th, up, crashes, scenario>>

unsafe_erase ==
    /\ Alone("erase")
    /\ \E lo, hi \in Keys, t \in Threads : lo <= hi /\ list' = EraseFrom(list, lo, hi, t)
    /\ UNCHANGED other

clear_list ==
    /\ Alone("clear")
    /\ list' = clear(list)
    /\ UNCHANGED other

\* The heights of new nodes.
Drawn(n) == [1 .. n -> scenario.levels]

assign_list ==
    /\ Alone("assign")
    /\ \E l \in scenario.lists : \E levels \in Drawn(Len(l)) : list' = AssignList(list, l, levels)
    /\ UNCHANGED other

assign_copy ==
    /\ Alone("copy")
    /\ \E levels \in Drawn(distance(other)) : list' = AssignCopy(list, other, levels)
    /\ UNCHANGED other

\* The source of a move keeps its sizes and its tls, but not its nodes: with the
\* code as it is the sizes are right only if the source is destroyed at once,
\* and nothing was inserted into it or erased from it since the pool was opened.
assign_move ==
    /\ Alone("move")
    /\ scenario.any_sizes \/ SizeDiff(other) = 0
    /\ list' = AssignMove(list, other)
    /\ other' = IF scenario.any_sizes THEN MovedFrom(other) ELSE init

\* With the code as it is the sizes that a swap leaves in the pool are right
\* only while both lists have grown by the same number.
swap ==
    /\ Alone("swap")
    /\ scenario.any_sizes \/ SizeDiff(list) = SizeDiff(other)
    /\ list' = SwapWith(list, other) /\ other' = SwapWith(other, list)

-----------------------------------------------------------------------------
(* Crashes *)

UndoStore(s, t) ==
    LET u == th[t].undo
    IN  CASE u.what = "next"  -> set_nexts(s, u.id, u.old)
          [] u.what = "stage" -> [s EXCEPT !.tls[u.id].in_progress = u.old]
          [] u.what = "ptr"   -> [s EXCEPT !.tls[u.id].ptr = u.old]
          [] u.what = "none"  -> s

\* Stores that are not persistent may be lost, locks and _size are.
Crash ==
    /\ up /\ crashes > 0 /\ crashes' = crashes - 1
    /\ \E lost \in SUBSET {t \in Threads : ~Persisted(t)} :
        list' = FoldLeft(UndoStore, [list EXCEPT !.size = 0], SetToSeq(lost))
    /\ other' = [other EXCEPT !.size = 0]
    /\ th' = Idle /\ up' = FALSE
    /\ UNCHANGED <<calls, scenario>>

-----------------------------------------------------------------------------
(* Recovery: tls_restore() goes through the logs.  It looks only at what is *)
(* in the pool, and a step that a crash undoes is done again: a crash in it *)
(* is no step of its own.                                                   *)

Logged == {t \in Threads : list.tls[t].ptr # None}

Restoring(t) == ~up /\ Logged # {} /\ t = Min(Logged)

CompleteInsert(t) ==
    LET log == list.tls[t]
    IN  /\ Restoring(t) /\ log.in_progress
        /\ list' = IF Unlinked(list, log.ptr) # {} THEN CompleteLevel(list, log.ptr)
                   ELSE [list EXCEPT !.tls[t].ptr = None]
        /\ UNCHANGED <<th, env>>

\* Mutant: a node that was never linked is forgotten.
DropInsert_Leak(t) ==
    /\ Restoring(t) /\ ~list.tls[t].in_progress
    /\ list' = [list EXCEPT !.tls[t].ptr = None, !.tls[t].size_diff = @ - 1]
    /\ UNCHANGED <<th, env>>

DropInsert(t) ==
    LET log == list.tls[t]
    IN  /\ Restoring(t) /\ ~log.in_progress
        /\ list' = [delete_node(list, log.ptr) EXCEPT !.tls[t].ptr = None, !.tls[t].size_diff = @ - 1]
        /\ UNCHANGED <<th, env>>

runtime_initialize ==
    /\ ~up /\ Logged = {} /\ up' = TRUE
    /\ list' = ClearTls(list) /\ other' = ClearTls(other)
    /\ UNCHANGED <<th, calls, crashes, scenario>>

-----------------------------------------------------------------------------
Init ==
    /\ scenario \in Scenarios
    /\ calls = scenario.calls /\ crashes = scenario.crashes
    /\ \E l \in scenario.lists, m \in scenario.spares : \E k \in Drawn(Len(l)), n \in Drawn(Len(m)) :
        list = EmplaceAll(init, l, k) /\ other = EmplaceAll(init, m, n)
    /\ th = Idle /\ up = TRUE

Calls(t) == query(t) \/ insert(t) \/ emplace(t)

\* What a thread does once it is in a call.
Step(t) ==
    \/ Advance(t) \/ Descend(t) \/ Answer(t) \/ Refuse(t) \/ Position(t) \/ Discard(t)
    \/ LockPrev(t) \/ CreateNode(t) \/ CreateNodeFails(t) \/ SetNexts(t) \/ SetInProgress(t)
    \/ Link(t) \/ Unlog(t) \/ Persist(t) \/ Count(t)

Next ==
    \/ \E t \in Threads : Calls(t) \/ Step(t) \/ CompleteInsert(t) \/ DropInsert(t)
    \/ unsafe_erase \/ clear_list \/ assign_list \/ assign_copy
    \/ assign_move \/ swap
    \/ Crash \/ runtime_initialize

Spec == Init /\ [][Next]_vars /\ \A t \in Threads : WF_vars(Step(t))

-----------------------------------------------------------------------------
(* Properties *)

\* The nodes whose elements are in the map for a caller who does not see the
\* pointers: the ones that are linked on the lowest level and, after a crash,
\* the ones that recovery is going to link.
Inserted(s) ==
    Range(OnLevel(s, 1)) \cup
    (IF up THEN {} ELSE {s.tls[t].ptr : t \in {u \in Threads : s.tls[u].in_progress}} \ {None})

Contents(s) ==
    LET inserted == Inserted(s)
    IN  [k \in Keys |-> LET with == {n \in inserted : s.node[n].key = k}
                        IN  IF with = {} THEN None ELSE s.node[CHOOSE n \in with : TRUE].val]

ContentsOf(l) == [k \in Keys |-> LET with == {i \in DOMAIN l : l[i].key = k}
                                 IN  IF with = {} THEN None ELSE l[Min(with)].val]

Promised ==
    INSTANCE ConcurrentOrderedMap WITH
        Values <- Threads,
        Assigned <- {ContentsOf(l) : l \in UNION {s.lists : s \in Scenarios}},
        map <- Contents(list),
        spare <- Contents(other),
        call <- [t \in Threads |-> th[t].call]

\* concurrent_map keeps the promise: whichever way the steps of searches and
\* insertions interleave, and wherever a crash comes, each call has its answer
\* from one moment in which it was right, of two insertions of a key one
\* succeeds, and an element that any call has inserted or seen outlives the
\* crash, although its pointers were not persistent yet (try_insert_node,
\* complete_insert).
KeepsPromise == Promised!Spec

\* Every level is sorted and its nodes are on the level below it, also in what
\* a crash leaves.  There the node in a log points to the successors it still
\* has where it is not linked (the assertions of complete_insert), and once the
\* pool is open again and no call is running, no node misses a level it has.
LevelsNested ==
    LET on == [level \in Levels |-> OnLevel(list, level)] IN
    /\ \A level \in Levels :
        /\ \A i \in 1 .. Len(on[level]) - 1 : list.node[on[level][i]].key < list.node[on[level][i + 1]].key
        /\ level > 1 => Range(on[level]) \subseteq Range(on[level - 1])
    /\ ~up => \A t \in Logged : list.tls[t].in_progress =>
        LET n == list.tls[t].ptr
            nexts == next_nodes(list, prev_nodes(list, list.node[n].key, FALSE))
        IN  \A level \in Unlinked(list, n) : next(list, n, level) = nexts[level]
    /\ Quiet => \A n \in DOMAIN list.node \ {dummy_head} : \A level \in 1 .. height(list, n) :
        n \in Range(on[level])

\* No node is leaked: the list or a log leads to it, after a crash too.  When no
\* call is running the size, which is kept in parts, by thread and since the
\* pool was opened, is the number of elements (runtime_initialize asserts it).
Accounted ==
    /\ DOMAIN list.node \subseteq
        {dummy_head} \cup Range(OnLevel(list, 1)) \cup {list.tls[t].ptr : t \in Threads}
    /\ Quiet => \A s \in {list, other} :
        /\ \A t \in Threads : s.tls[t].ptr = None
        /\ s.size = distance(s)
        /\ s.on_init_size + SizeDiff(s) = distance(s)

\* No call waits for ever: the locks of the nodes before the new one are taken
\* from the last of them to the first by every thread, and a search that starts
\* over does so because another insertion succeeded.
EveryCallReturns == \A t \in Threads : th[t].pc # "idle" ~> th[t].pc = "idle"
=============================================================================

------------------------- MODULE ConcurrentRadixTree ------------------------
(***************************************************************************)
(* radix_tree in MtMode: one writer and a reader that takes no locks       *)
(* (experimental/radix_tree.hpp).  The writer stores one pointer at a time *)
(* into the tree, in a transaction; the reader loads one pointer at a      *)
(* time, in a critical section, during which nothing it can come to is     *)
(* freed (RadixReclaim).  Nobody disturbs the reads of the writer itself,  *)
(* whence Run.                                                             *)
(***************************************************************************)
EXTENDS RadixTree

CONSTANT Scenarios
    \* trees   the sets of keys the tree may start with
    \* writes  the operations of the writer    ops      how many it makes
    \* reads   the operations of the reader    iterate  whether ++ follows them
    \* fails   whether transactions may be rolled back
    \* strict  whether `always' and `beside' are of each call alone

VARIABLES
    scenario,
    tree,
    tx,         \* whether the writer is in a transaction
    plan,       \* the operations left of it
    stores,     \* the stores left of the operation it is in
    saved,      \* the tree that the undo log brings back
    keys,       \* the keys an ordered map would have
    ops,        \* operations the writer may still start
    r,          \* the reader's call
    seen        \* ever     the leaves that were in the tree during the call
                \* always   the keys that were, and
                \* beside   the operations there were, since the critical section began
                \* answers  the right results at each moment of the call
                \* free     the leaves that came before a moment without the call's key

writerVars == <<tx, plan, stores, saved, keys, ops>>
vars == <<scenario, tree, writerVars, r, seen>>

NotReading == [pc |-> "none", broken |-> FALSE]
NothingSeen == [ever |-> {}, always |-> {}, answers |-> {}, free |-> {}, beside |-> 0]
NoSave == [tree |-> EmptyTree, keys |-> {}]
Reading == r.pc # "none"
Watching == Reading /\ (r.pc = "done" => scenario.iterate)

\* Calls of the writer.
Find(t, k) == Run(t, Read("find", k)).leaf
Increment(t, leaf) == Run(t, Neighbour(t, "next", leaf)).leaf
Decrement(t, leaf) ==
    Run(t, IF leaf = Nil THEN Read("prev", << >>) ELSE Neighbour(t, "prev", leaf)).leaf
Begin(t) == Run(t, Read("begin", << >>)).leaf

-----------------------------------------------------------------------------
(* What the reader can see *)

Leaves(t) == {n \in DOMAIN t.info : is_leaf(t, n)}
Elements(t) == {n \in Leaves(t) : Find(t, Key(t, n)) = n}
KeysOf(t, S) == {Key(t, n) : n \in S}

Less(k1, k2) ==
    \/ Len(k1) < Len(k2) /\ k1 = SubSeq(k2, 1, Len(k1))
    \/ \E i \in DOMAIN k1 \cap DOMAIN k2 :
         k1[i] < k2[i] /\ SubSeq(k1, 1, i - 1) = SubSeq(k2, 1, i - 1)

\* The leaves of the least and of the greatest of the keys.
Lowest(t, K) == IF K = {} THEN Nil ELSE Find(t, CHOOSE k \in K : \A j \in K : ~Less(j, k))
Highest(t, K) == IF K = {} THEN Nil ELSE Find(t, CHOOSE k \in K : \A j \in K : ~Less(k, j))

\* What a call looks for.
Sought(call, k) ==
    CASE call.op = "find" -> k = call.key
      [] call.op = "lower" -> ~Less(k, call.key)
      [] call.op \in {"upper", "next"} -> Less(call.key, k)
      [] call.op = "begin" -> TRUE

Answer(t, call, S) == Lowest(t, {k \in KeysOf(t, S) : Sought(call, k)})

\* An operation half-way through its stores has and has not taken effect: `now'
\* and `then' are the trees without and with the rest of them.
Moment(old, call, t, in) ==
    [old EXCEPT !.ever = @ \cup in,
                !.always = @ \cap KeysOf(t, in),
                !.answers = @ \cup {Answer(t, call, in)},
                !.free = IF call.key \in KeysOf(t, in) THEN @ ELSE old.ever \cup in]
Witnessed(old, call, now, then) ==
    Moment(Moment(old, call, now, Elements(now)), call, then, Elements(then))
Witness(old, call, t, todo) == seen' = Witnessed(old, call, t, Applied(Update(t, todo)))

\* A critical section begins, and what a call of it has still to see.
Entering ==
    [NothingSeen EXCEPT !.always = KeysOf(tree, Leaves(tree)), !.beside = IF stores = << >> THEN 0 ELSE 1]
Calling(old) == [old EXCEPT !.ever = {}, !.answers = {}, !.free = {}]

-----------------------------------------------------------------------------
(* The writer *)

Emplace(k) == [op |-> "emplace", key |-> k]
Put(k) == [op |-> "put", key |-> k]
Erase(first, last) == [op |-> "erase", first |-> first, last |-> last]

\* The calls, as the operations their transaction consists of.
clear(t) == <<Erase(Begin(t), Nil)>>
assign(t, list) == clear(t) \o [i \in DOMAIN list |-> Emplace(list[i])]
erase_range(t, first, last) == <<Erase(Find(t, first), Find(t, last))>>
EraseAt(t, it) == IF it = Nil THEN << >> ELSE <<Erase(it, Increment(t, it))>>
erase_key(t, k) == EraseAt(t, Find(t, k))

Plan(t, w) ==
    CASE w.op = "try_emplace" -> <<Emplace(w.key)>>
      [] w.op = "insert_or_assign" -> <<Put(w.key)>>
      [] w.op = "erase" -> erase_key(t, w.key)
      [] w.op = "erase range" -> erase_range(t, w.key, w.last)
      [] w.op = "clear" -> clear(t)
      [] w.op = "assign" -> assign(t, w.list)

\* The same calls, on an ordered map.
Effect(w, K) ==
    CASE w.op \in {"try_emplace", "insert_or_assign"} -> K \cup {w.key}
      [] w.op = "erase" -> K \ {w.key}
      [] w.op = "erase range" -> {k \in K : Less(k, w.key) \/ (w.last \in K /\ ~Less(k, w.last))}
      [] w.op = "clear" -> {}
      [] w.op = "assign" -> Range(w.list)

Start(w) ==
    /\ ~tx /\ ops > 0
    \* a valid range
    /\ w.op = "erase range" => w.key \in keys /\ ~Less(w.last, w.key)
    /\ tx' = TRUE
    /\ plan' = Plan(tree, w)
    /\ saved' = [tree |-> tree, keys |-> keys]
    /\ keys' = Effect(w, keys)
    /\ ops' = ops - 1
    /\ UNCHANGED <<scenario, tree, stores, r, seen>>

\* The next operation, up to its first store.
Operate ==
    /\ stores = << >> /\ plan # << >>
    /\ LET p == Head(plan)
           at == IF p.op = "put" THEN Find(tree, p.key) ELSE Nil
           Do(u) == /\ tree' = u.tree /\ stores' = u.stores
                         /\ IF Watching THEN Witness([seen EXCEPT !.beside = @ + 1], r, u.tree, u.stores)
                            ELSE UNCHANGED seen
       IN  \/ /\ p.op \in {"emplace", "put"} /\ at = Nil
              /\ Do(internal_emplace(tree, p.key))
              /\ plan' = Tail(plan)
           \/ /\ p.op = "put" /\ at # Nil
              /\ Do(replace_val(tree, at))
              /\ plan' = Tail(plan)
           \/ /\ p.op = "erase" /\ p.first # p.last
              /\ Do(erase(tree, p.first))
              /\ plan' = <<Erase(Increment(tree, p.first), p.last)>> \o Tail(plan)
           \/ /\ p.op = "erase" /\ p.first = p.last
              /\ plan' = Tail(plan)
              /\ UNCHANGED <<tree, stores, seen>>
    /\ UNCHANGED <<scenario, tx, saved, keys, ops, r>>

Store ==
    /\ stores # << >>
    /\ tree' = Stored(tree, Head(stores))
    /\ stores' = Tail(stores)
    /\ IF Watching THEN Witness(seen, r, tree', stores') ELSE UNCHANGED seen
    /\ UNCHANGED <<scenario, tx, plan, saved, keys, ops, r>>

Commit ==
    /\ tx /\ plan = << >> /\ stores = << >>
    /\ tx' = FALSE
    /\ saved' = NoSave
    /\ UNCHANGED <<scenario, tree, plan, stores, keys, ops, r, seen>>

\* A power failure, or an exception when nobody reads the tree.
Rollback ==
    /\ tx /\ scenario.fails
    /\ tree' = saved.tree /\ keys' = saved.keys
    /\ tx' = FALSE /\ plan' = << >> /\ stores' = << >> /\ saved' = NoSave
    /\ r' = NotReading /\ seen' = NothingSeen
    /\ UNCHANGED <<scenario, ops>>

-----------------------------------------------------------------------------
(* The reader *)

Enter(read) ==
    /\ ~Reading
    /\ r' = Read(read.op, read.key)
    /\ Witness(Entering, r', tree, stores)
    /\ UNCHANGED <<scenario, tree, writerVars>>

Load ==
    /\ r.pc \notin {"none", "done"}
    /\ r' = Step(tree, r)
    /\ UNCHANGED <<scenario, tree, writerVars, seen>>

\* operator++ of the iterator it has got, of an element that may be gone.
Advanced ==
    /\ r.pc = "done" /\ r.leaf # Nil /\ scenario.iterate
    /\ r' = Neighbour(tree, "next", r.leaf)
    /\ Witness(Calling(IF scenario.strict THEN Entering ELSE seen), r', tree, stores)
    /\ UNCHANGED <<scenario, tree, writerVars>>

-----------------------------------------------------------------------------

Init ==
    /\ scenario \in Scenarios
    /\ keys \in scenario.trees
    /\ tree = Build(SetToSeq(keys))
    /\ tx = FALSE /\ plan = << >> /\ stores = << >> /\ saved = NoSave
    /\ ops = scenario.ops
    /\ r = NotReading /\ seen = NothingSeen

Next ==
    \/ \E w \in scenario.writes : Start(w)
    \/ Operate \/ Store \/ Commit \/ Rollback
    \/ \E read \in scenario.reads : Enter(read)
    \/ Load \/ Advanced

\* Weak fairness of the writer within a transaction and of the reader within a
\* call, written out: only their own steps, and a rollback, change these.
WriterGoesOn == []<>(plan = << >> /\ stores = << >>) \/ []<><<TRUE>>_<<plan, stores>>
ReaderGoesOn == []<>(r.pc \in {"none", "done"}) \/ []<><<TRUE>>_r

Spec == Init /\ [][Next]_vars /\ WriterGoesOn /\ ReaderGoesOn

-----------------------------------------------------------------------------
(* Properties *)

\* Whatever the writer has inserted, replaced and erased, and after a rollback,
\* the tree answers as an ordered map: size, find, lower_bound, upper_bound,
\* begin and the neighbours of each element.  Nodes that are split on the way in
\* and merged on the way out neither lose nor misplace an element.
AsOrderedMap ==
    ~tx /\ ~Reading =>
        /\ tree.size = Cardinality(keys)
        /\ Begin(tree) = Lowest(tree, keys)
        /\ keys # {} => Decrement(tree, Nil) = Highest(tree, keys)
        /\ \A w \in scenario.writes \cup scenario.reads :
             LET k == w.key
                 le == {j \in keys : ~Less(j, k)}
             IN  /\ Find(tree, k) = Nil <=> k \notin keys
                 /\ Run(tree, Read("lower", k)).leaf = Lowest(tree, le)
                 /\ Run(tree, Read("upper", k)).leaf = Lowest(tree, le \ {k})
        /\ \A k \in keys :
             /\ Find(tree, k) # Nil /\ Key(tree, Find(tree, k)) = k
             /\ Increment(tree, Find(tree, k)) = Lowest(tree, {j \in keys : Less(k, j)})
             /\ LET lower == {j \in keys : Less(j, k)}
                IN  lower # {} => Decrement(tree, Find(tree, k)) = Highest(tree, lower)

\* A read beside the writer's stores fails no assertion, and returns what it may
\* return.  Beside a single operation, that is the right answer of some moment
\* of the call.  In any case it is an element that was in the tree during the
\* call and that the call looks for, with no element before it that had been
\* there since the critical section began; and a lower bound does not pass over
\* its key for an element that was not there before the key was.
ReadsHold ==
    /\ ~r.broken
    /\ r.pc = "done" =>
        LET passed == {k \in seen.always : Sought(r, k)}
        IN  /\ seen.beside <= 1 => r.leaf \in seen.answers
            /\ IF r.leaf = Nil THEN passed = {}
               ELSE /\ r.leaf \in seen.ever
                    /\ Sought(r, Key(tree, r.leaf))
                    /\ \A k \in passed : ~Less(k, Key(tree, r.leaf))
                    /\ r.op = "lower" => Key(tree, r.leaf) = r.key \/ r.leaf \in seen.free

\* A read returns once the writer is done with what it is doing: no leaf or node
\* that was taken out of the tree can keep a reader going round.
ReadsReturn == Reading ~> (r.pc \in {"none", "done"})
=============================================================================

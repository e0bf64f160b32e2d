------------------------ MODULE ConcurrentOrderedMap ------------------------
(***************************************************************************)
(* What concurrent_map promises its callers.  An ordered map that several  *)
(* threads search and insert into at once: every such call takes effect in *)
(* one indivisible step between its start and its end, and an element that *)
(* a call has inserted or found is never lost in a crash.  An insertion    *)
(* that a crash cuts short has taken effect or not.                        *)
(*                                                                         *)
(* `spare' is a second map, for the operations on two maps.                *)
(***************************************************************************)
EXTENDS Integers, FiniteSetsExt

CONSTANTS
    Threads,
    Keys,       \* a set of integers
    Values,
    None,       \* the value of a key that is not in the map
    Assigned    \* the contents that callers assign to the map

VARIABLES
    map,        \* the value of each key
    spare,      \* the same, of another map
    call        \* the call a thread makes, or made last, with its answer

vars == <<map, spare, call>>

NoCall == [op |-> "none", key |-> None, val |-> None, status |-> "none", ret |-> None]

Insertions == {"insert", "emplace"}
Queries == {"find", "lower_bound", "upper_bound", "find_lower", "find_lower_eq"}

Pending(t) == call[t].status = "pending"
Quiet == \A t \in Threads : ~Pending(t)

Answer(t, status, ret) == call' = [call EXCEPT ![t].status = status, ![t].ret = ret]

Least(S) == IF S = {} THEN None ELSE Min(S)
Greatest(S) == IF S = {} THEN None ELSE Max(S)

Present == {k \in Keys : map[k] # None}

\* The element that a query for k is about.
Found(op, k) ==
    CASE op = "find"          -> Least({x \in Present : x = k})
      [] op = "lower_bound"   -> Least({x \in Present : x >= k})
      [] op = "upper_bound"   -> Least({x \in Present : x > k})
      [] op = "find_lower"    -> Greatest({x \in Present : x < k})
      [] op = "find_lower_eq" -> Greatest({x \in Present : x <= k})

Init ==
    /\ map \in [Keys -> Values \cup {None}]
    /\ spare \in [Keys -> Values \cup {None}]
    /\ call = [t \in Threads |-> NoCall]

Invoke(t) ==
    /\ ~Pending(t)
    /\ \E op \in Insertions \cup Queries, k \in Keys, v \in Values \cup {None} :
        call' = [call EXCEPT ![t] = [op |-> op, key |-> k, val |-> v, status |-> "pending", ret |-> None]]
    /\ UNCHANGED <<map, spare>>

Query(t) ==
    /\ Pending(t) /\ call[t].op \in Queries
    /\ Answer(t, "found", Found(call[t].op, call[t].key))
    /\ UNCHANGED <<map, spare>>

Insert(t) ==
    /\ Pending(t) /\ call[t].op \in Insertions
    /\ map[call[t].key] = None
    /\ map' = [map EXCEPT ![call[t].key] = call[t].val]
    /\ Answer(t, "inserted", call[t].key)
    /\ UNCHANGED spare

Refuse(t) ==
    /\ Pending(t) /\ call[t].op \in Insertions
    /\ map[call[t].key] # None
    /\ Answer(t, "exists", call[t].key)
    /\ UNCHANGED <<map, spare>>

\* There was no memory for the element.
Throw(t) ==
    /\ Pending(t) /\ call[t].op \in Insertions
    /\ Answer(t, "thrown", None)
    /\ UNCHANGED <<map, spare>>

Crash ==
    /\ \E done \in SUBSET {t \in Threads : Pending(t) /\ call[t].op \in Insertions} :
        /\ \A t \in done : map[call[t].key] = None
        /\ \A t, u \in done : t # u => call[t].key # call[u].key
        /\ map' = [k \in Keys |-> IF \E t \in done : call[t].key = k
                                  THEN call[CHOOSE t \in done : call[t].key = k].val
                                  ELSE map[k]]
    /\ call' = [t \in Threads |-> NoCall]
    /\ UNCHANGED spare

\* The operations that are not safe to run beside others.
EraseRange ==
    /\ Quiet
    /\ \E lo, hi \in Keys :
        map' = [k \in Keys |-> IF lo <= k /\ k <= hi THEN None ELSE map[k]]
    /\ UNCHANGED <<spare, call>>

Clear ==
    /\ Quiet
    /\ map' = [k \in Keys |-> None]
    /\ UNCHANGED <<spare, call>>

Assign ==
    /\ Quiet
    /\ map' \in Assigned
    /\ UNCHANGED <<spare, call>>

Copy ==
    /\ Quiet
    /\ map' = spare
    /\ UNCHANGED <<spare, call>>

Move ==
    /\ Quiet
    /\ map' = spare /\ spare' = [k \in Keys |-> None]
    /\ UNCHANGED call

Swap ==
    /\ Quiet
    /\ map' = spare /\ spare' = map
    /\ UNCHANGED call

Next ==
    \/ \E t \in Threads : Invoke(t) \/ Query(t) \/ Insert(t) \/ Refuse(t) \/ Throw(t)
    \/ Crash \/ EraseRange \/ Clear \/ Assign \/ Copy \/ Move \/ Swap

Spec == Init /\ [][Next]_vars
=============================================================================

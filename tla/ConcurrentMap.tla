---------------------------- MODULE ConcurrentMap ---------------------------
(***************************************************************************)
(* What concurrent_hash_map promises its callers.  A map from keys to      *)
(* values that several threads use at once: every call takes effect in one *)
(* indivisible step between its start and its end, that effect is never    *)
(* lost in a crash, and an accessor is a lock on one element: while a      *)
(* thread holds one, no other thread erases the element, and none changes  *)
(* it unless it holds the only accessor.                                   *)
(*                                                                         *)
(* `spare' is a second map, for the operations on two maps.                *)
(***************************************************************************)
EXTENDS Integers

CONSTANTS
    Threads,
    Keys,
    Values,
    None,       \* the value of a key that is not in the map
    Assigned    \* the contents that callers assign to the map

VARIABLES
    map,        \* the value of each key
    spare,      \* the same, of another map
    call,       \* the call a thread makes, or made last, with its answer
    held        \* the element a thread has an accessor for

vars == <<map, spare, call, held>>

NoCall == [op |-> "none", key |-> None, val |-> None, mode |-> "none", ret |-> "none"]
NotHeld == [key |-> None, mode |-> "none"]

Empty == [k \in Keys |-> None]

\* No other thread's accessor keeps t from having one for k.
Free(t, k, mode) ==
    \A u \in Threads \ {t} :
        held[u].key = k => held[u].mode = "read" /\ mode = "read"

Pending(t) == call[t].ret = "pending"

Quiet == \A t \in Threads : ~Pending(t) /\ held[t] = NotHeld

Answer(t, ret) == call' = [call EXCEPT ![t].ret = IF ret THEN "true" ELSE "false"]

Grant(t) ==
    held' = [held EXCEPT ![t] = IF call[t].mode = "none" THEN NotHeld
                                ELSE [key |-> call[t].key, mode |-> call[t].mode]]

Init ==
    /\ map \in [Keys -> Values \cup {None}]
    /\ spare \in [Keys -> Values \cup {None}]
    /\ call = [t \in Threads |-> NoCall]
    /\ held = [t \in Threads |-> NotHeld]

Invoke(t) ==
    /\ ~Pending(t) /\ held[t] = NotHeld
    /\ \E op \in {"count", "find", "insert", "insert_or_assign", "erase", "defragment"},
          k \in Keys \cup {None}, v \in Values \cup {None}, mode \in {"none", "read", "write"} :
        call' = [call EXCEPT ![t] = [op |-> op, key |-> k, val |-> v, mode |-> mode,
                                     ret |-> "pending"]]
    /\ UNCHANGED <<map, spare, held>>

Miss(t) ==
    /\ Pending(t) /\ call[t].op \in {"count", "find", "erase"}
    /\ map[call[t].key] = None
    /\ Answer(t, FALSE)
    /\ UNCHANGED <<map, spare, held>>

Hit(t) ==
    /\ Pending(t) /\ call[t].op \in {"count", "find", "insert"}
    /\ map[call[t].key] # None
    /\ call[t].mode # "none" => Free(t, call[t].key, call[t].mode)
    /\ Answer(t, call[t].op # "insert")
    /\ Grant(t)
    /\ UNCHANGED <<map, spare>>

Insert(t) ==
    /\ Pending(t) /\ call[t].op = "insert"
    /\ map[call[t].key] = None
    /\ map' = [map EXCEPT ![call[t].key] = call[t].val]
    /\ Answer(t, TRUE)
    /\ Grant(t)
    /\ UNCHANGED spare

InsertOrAssign(t) ==
    /\ Pending(t) /\ call[t].op = "insert_or_assign"
    /\ Free(t, call[t].key, "write")
    /\ map' = [map EXCEPT ![call[t].key] = call[t].val]
    /\ Answer(t, map[call[t].key] = None)
    /\ UNCHANGED <<spare, held>>

Erase(t) ==
    /\ Pending(t) /\ call[t].op = "erase"
    /\ map[call[t].key] # None
    /\ Free(t, call[t].key, "write")
    /\ map' = [map EXCEPT ![call[t].key] = None]
    /\ Answer(t, TRUE)
    /\ UNCHANGED <<spare, held>>

\* Defragmentation moves what the elements point to, and changes nothing.
Defragment(t) ==
    /\ Pending(t) /\ call[t].op = "defragment"
    /\ Answer(t, TRUE)
    /\ UNCHANGED <<map, spare, held>>

Store(t) ==
    /\ held[t].mode = "write"
    /\ \E v \in Values : map' = [map EXCEPT ![held[t].key] = v]
    /\ UNCHANGED <<spare, call, held>>

Release(t) ==
    /\ held[t] # NotHeld
    /\ held' = [held EXCEPT ![t] = NotHeld]
    /\ UNCHANGED <<map, spare, call>>

\* A crash ends every call, wherever it is, and drops the accessors.
Crash ==
    /\ call' = [t \in Threads |-> NoCall]
    /\ held' = [t \in Threads |-> NotHeld]
    /\ UNCHANGED <<map, spare>>

Clear ==
    /\ Quiet
    /\ map' = Empty
    /\ UNCHANGED <<spare, call, held>>

Assign ==
    /\ Quiet
    /\ map' \in Assigned
    /\ UNCHANGED <<spare, call, held>>

\* An assignment that a crash cuts short leaves some of the new elements and
\* none of the old ones.
AssignCut ==
    /\ Quiet
    /\ \E new \in Assigned : \A k \in Keys : map'[k] \in {new[k], None}
    /\ call' = [t \in Threads |-> NoCall]
    /\ UNCHANGED <<spare, held>>

Swap ==
    /\ Quiet
    /\ map' = spare /\ spare' = map
    /\ UNCHANGED <<call, held>>

Next ==
    /\ vars' # vars
    /\ \/ \E t \in Threads :
            \/ Invoke(t) \/ Miss(t) \/ Hit(t) \/ Insert(t) \/ InsertOrAssign(t) \/ Erase(t)
            \/ Defragment(t) \/ Store(t) \/ Release(t)
       \/ Crash \/ Clear \/ Assign \/ AssignCut \/ Swap

Spec == Init /\ [][Next]_vars
=============================================================================

---------------------------- MODULE TxContainer -----------------------------
(***************************************************************************)
(* What the specifications of the transactional containers have in common: *)
(* one thread uses two containers in transactions of its own.  Container   *)
(* "a" is a member of the root object, "b" is created and deleted in a     *)
(* transaction with make_persistent and delete_persistent.  A method opens *)
(* a flat transaction inside the application's; without one around it, it  *)
(* is a transaction of one method.  Allocations fail, methods throw, the   *)
(* application catches what they throw inside its transaction or outside   *)
(* it, it aborts, the power fails.                                         *)
(***************************************************************************)
EXTENDS TxHeap

CONSTANTS
    Names,              \* of the containers: {"a"} or {"a", "b"}
    MaxOps,             \* bound on the methods called in one transaction
    Ooms,               \* which allocation of a transaction may fail; 0 none
    Misuse              \* what else the application does: a subset of the forms
                        \* a container names, and "catch": it commits a
                        \* transaction in which it has caught what a method
                        \* threw after it had changed something

VARIABLES
    heap,               \* the pool
    ops,                \* methods left in this transaction; -1 outside one
    cur,                \* history: what containers of the standard library
                        \* would hold now
    committed,          \* history: what they held after the last commit
    shrunk,             \* history: containers shrunk in this transaction
    spoilt              \* history: the application has caught in it what a
                        \* method threw half-way

vars == <<heap, ops, cur, committed, shrunk, spoilt>>

RootB == <<0, 0>>       \* the persistent_ptr to b
Obj(h, x) == IF x = "a" THEN <<0, 1>> ELSE <<At(h, RootB), 0>>
Exists(h, x) == x = "a" \/ At(h, RootB) # Nil
Callable == ops > 0 /\ ~spoilt
Usable(x) == x \in Names /\ Callable /\ Exists(heap, x)
Absent == <<Raw>>
SetCur(x, s) == [cur EXCEPT ![x] = s]

InitWith(root) ==
    /\ heap = NewHeap(root)
    /\ ops = -1
    /\ cur = [x \in Names |-> IF x = "a" THEN << >> ELSE Absent]
    /\ committed = cur
    /\ shrunk = {}
    /\ spoilt = FALSE

-----------------------------------------------------------------------------
(* Transactions *)

Begin ==
    /\ ops = -1
    /\ \E oom \in Ooms : heap' = [heap EXCEPT !.oom = oom]
    /\ ops' = MaxOps
    /\ UNCHANGED <<cur, committed, shrunk, spoilt>>

CommitTx ==
    /\ ops >= 0
    /\ spoilt => "catch" \in Misuse
    /\ heap' = Commit(heap)
    /\ ops' = -1
    /\ committed' = cur
    /\ shrunk' = {}
    /\ spoilt' = FALSE
    /\ UNCHANGED cur

Rollback(h) ==
    /\ heap' = h
    /\ ops' = -1
    /\ cur' = committed
    /\ shrunk' = {}
    /\ spoilt' = FALSE
    /\ UNCHANGED committed

AbortTx == ops >= 0 /\ Rollback(Abort(heap))

Crash == \E lost \in SUBSET Volatile(heap) : Rollback(Recover(heap, lost))

Caught(h) == [h EXCEPT !.failed = FALSE]

\* A method took the heap to h; the standard container would now hold std.  What
\* it throws aborts the transaction if it is the outermost one itself or nobody
\* catches it inside; caught inside, all that the method did stays.
Method(h, std) ==
    /\ Callable
    /\ \/ /\ h.failed
          /\ Rollback(Abort(Caught(h)))
       \/ /\ h.failed
          /\ heap' = Caught(h)
          /\ ops' = ops - 1
          /\ spoilt' = (h.mem # heap.mem \/ h.freed # heap.freed)
          /\ UNCHANGED <<cur, committed, shrunk>>
       \/ /\ ~h.failed
          /\ heap' = h
          /\ ops' = ops - 1
          /\ cur' = std
          /\ shrunk' = shrunk \cup {x \in Names : cur[x] # Absent /\ Len(std[x]) < Len(cur[x])}
          /\ UNCHANGED <<committed, spoilt>>

Transactions == Begin \/ CommitTx \/ AbortTx \/ Crash

-----------------------------------------------------------------------------
(* make_persistent<container>(...): the constructor runs in n cells that the *)
(* transaction has allocated, and keeps when the constructor throws          *)

Make(n, ctor(_, _), std) ==
    /\ "b" \in Names /\ Callable /\ ~Exists(heap, "b")
    /\ LET b == NewBlock(heap)
       IN  Method(Then(Then(Alloc(heap, n), LAMBDA h : ctor(h, <<b, 0>>)),
                       LAMBDA h : Assign(h, RootB, b)), std)

\* delete_persistent: the destructor, then the object's own memory.
Delete(dtor(_, _)) ==
    /\ Usable("b")
    /\ LET v == Obj(heap, "b")
       IN  Method(Assign(Free(dtor(heap, v), v[1]), RootB, Nil), SetCur("b", Absent))

-----------------------------------------------------------------------------
(* What the containers of the standard library do *)

Inserted(s, i, t) == SubSeq(s, 1, i) \o t \o SubSeq(s, i + 1, Len(s))
Erased(s, i, n) == SubSeq(s, 1, i) \o SubSeq(s, i + n + 1, Len(s))
Resized(s, n, y) == [i \in 1..n |-> IF i <= Len(s) THEN s[i] ELSE y]

=============================================================================

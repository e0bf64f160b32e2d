------------------------------- MODULE TxHeap -------------------------------
(***************************************************************************)
(* A pool of libpmemobj as a container of this library sees it inside a    *)
(* transaction: persistent blocks of cells, the undo log, and what is and  *)
(* is not yet in the persistence domain.  External: modelled from how      *)
(* include/libpmemobj++ uses pmemobj_tx_add_range, pmemobj_tx_alloc,       *)
(* pmemobj_tx_free and the end of a transaction.                           *)
(*                                                                         *)
(* A heap h is a value; every operation takes one and returns the next, so *)
(* that the code of a method reads as a composition of operations.         *)
(*   mem     the blocks; block 0 holds the root object                     *)
(*   undo    location -> the value a rollback restores                     *)
(*   range   the locations the transaction has added, with or without a    *)
(*           snapshot, and those of the blocks it allocated                *)
(*   fresh   blocks it allocated      freed   blocks it is to free         *)
(*   dirty   location -> what the medium holds, where a store is not yet   *)
(*           known to be flushed                                           *)
(*   oom     n > 0: the n-th allocation from now on fails                  *)
(*   failed  an exception is on its way: nothing more of the method runs,  *)
(*           and what it has done stays done                               *)
(*   broken  an assertion of the code did not hold                         *)
(***************************************************************************)
EXTENDS Integers, Sequences, FiniteSets

Nil == 0                        \* nullptr: nothing points at the root
Raw == -1                       \* memory without an object in it
Moved == -2                     \* an object after it was moved from

NoLog == [l \in {} |-> 0]
Overlay(f, g) == [x \in DOMAIN f \cup DOMAIN g |-> IF x \in DOMAIN g THEN g[x] ELSE f[x]]
Without(f, S) == [x \in DOMAIN f \ S |-> f[x]]

NewHeap(root) ==
    [mem |-> [b \in {0} |-> root], undo |-> NoLog, range |-> {}, fresh |-> {}, freed |-> {},
     dirty |-> NoLog, oom |-> 0, failed |-> FALSE, broken |-> FALSE]

At(h, l) == h.mem[l[1]][l[2]]
Cells(l, n) == {<<l[1], l[2] + i>> : i \in 0..(n - 1)}
Plus(l, n) == <<l[1], l[2] + n>>
BlockCells(h, B) == UNION {{<<b, o>> : o \in DOMAIN h.mem[b]} : b \in B}

WithLog(mem, log) ==
    [b \in DOMAIN mem |->
        [o \in DOMAIN mem[b] |-> IF <<b, o>> \in DOMAIN log THEN log[<<b, o>>] ELSE mem[b][o]]]

Outside(h) ==
    [h EXCEPT !.undo = NoLog, !.range = {}, !.fresh = {}, !.freed = {}, !.oom = 0]

-----------------------------------------------------------------------------
(* The end of a transaction *)

\* Everything in the ranges is flushed, what was freed is gone.
Commit(h) ==
    [Outside(h) EXCEPT
        !.mem = Without(@, h.freed),
        !.dirty = Without(@, h.range \cup BlockCells(h, h.freed))]

\* Snapshots are restored and flushed; what was allocated is gone.
Abort(h) ==
    [Outside(h) EXCEPT
        !.mem = Without(WithLog(@, h.undo), h.fresh),
        !.dirty = Without(@, DOMAIN h.undo \cup BlockCells(h, h.fresh))]

\* What the medium may lack when the power fails: no snapshot restores it.
Volatile(h) == DOMAIN h.dirty \ (DOMAIN h.undo \cup BlockCells(h, h.fresh))

\* The pool is opened again; the stores to lost never reached the medium.
Recover(h, lost) ==
    LET log == Overlay(h.undo, [l \in lost |-> h.dirty[l]])
    IN  [Outside(h) EXCEPT !.mem = Without(WithLog(@, log), h.fresh), !.dirty = NoLog]

-----------------------------------------------------------------------------
(* Calls made inside it *)

\* Flat transactions are set to POBJ_TX_FAILURE_RETURN: neither a failed call
\* nor an exception that leaves a nested one aborts anything.
Throw(h) == [h EXCEPT !.failed = TRUE]

\* The rest of a method, which an exception skips.
Then(h, rest(_)) == IF h.failed THEN h ELSE rest(h)

\* The destructors of what an exception leaves behind.
Unwind(h, dtors(_)) == IF h.failed THEN Throw(dtors([h EXCEPT !.failed = FALSE])) ELSE h

Asserted(h, cond) == IF h.failed \/ cond THEN h ELSE [h EXCEPT !.broken = TRUE]

\* A store that a snapshot covers needs no entry in dirty: the medium holds the
\* new value after the commit and the old one without it.
Covers(h, l) == l \in DOMAIN h.undo \/ l[1] \in h.fresh \/ l \in DOMAIN h.dirty

\* A store to memory.
Store(h, l, v) ==
    IF h.failed THEN h
    ELSE [h EXCEPT
            !.mem[l[1]][l[2]] = v,
            !.dirty = IF Covers(h, l) THEN @ ELSE Overlay(@, [x \in {l} |-> At(h, l)])]

\* Stores to each of the cells of vals.
StoreCells(h, vals) ==
    IF h.failed THEN h
    ELSE [h EXCEPT
            !.mem = WithLog(@, vals),
            !.dirty = Overlay(@, [l \in {x \in DOMAIN vals : ~Covers(h, x)} |-> At(h, l)])]

\* pmemobj_tx_xadd_range: what is in a range already is left as it is.
Snapshot(h, L) ==
    IF h.failed THEN h
    ELSE [h EXCEPT !.undo = Overlay([l \in L \ h.range |-> At(h, l)], @), !.range = @ \cup L]

AddNoSnapshot(h, L) ==          \* POBJ_XADD_NO_SNAPSHOT
    IF h.failed THEN h ELSE [h EXCEPT !.range = @ \cup L]

\* p<>::operator=, and that of persistent_ptr: snapshot, then store.
Assign(h, l, v) == Store(Snapshot(h, {l}), l, v)

NewBlock(h) == CHOOSE b \in 1..(Cardinality(DOMAIN h.mem) + 1) :
                 b \notin DOMAIN h.mem /\ \A c \in 1..(b - 1) : c \in DOMAIN h.mem

\* pmemobj_tx_alloc and the test of what it returned, which throws; the new
\* block is NewBlock of the heap before the call.
Alloc(h, n) ==
    IF h.failed THEN h
    ELSE IF h.oom = 1 THEN [Throw(h) EXCEPT !.oom = 0]
    ELSE LET b == NewBlock(h)
             i == [h EXCEPT !.mem = Overlay(@, [x \in {b} |-> [o \in 0..(n - 1) |-> Raw]]),
                            !.fresh = @ \cup {b}, !.oom = IF @ = 0 THEN 0 ELSE @ - 1]
         IN  [i EXCEPT !.range = @ \cup BlockCells(i, {b})]

Free(h, b) ==                   \* pmemobj_tx_free; freeing a null object does nothing
    IF h.failed \/ b = Nil THEN h ELSE [h EXCEPT !.freed = @ \cup {b}]

=============================================================================

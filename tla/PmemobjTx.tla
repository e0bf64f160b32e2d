----------------------------- MODULE PmemobjTx -----------------------------
(***************************************************************************)
(* The transactions of libpmemobj (C) as this library uses them: stages,   *)
(* nesting, the undo log, the failure behaviour and the stage callback.    *)
(* libpmemobj is not part of this repository.                              *)
(*                                                                         *)
(* A transaction is a record; an operation maps it to the record after the *)
(* call.  depth is the number of transactions begun and not ended.  The    *)
(* stage callback is transaction_base::c_callback.                         *)
(***************************************************************************)
EXTENDS Integers

CONSTANTS
    Cells,                  \* the persistent variables
    Values,                 \* what they hold
    Locks,                  \* the persistent mutexes passed to transactions
    NoSnapshot              \* of a cell the undo log has no entry for

ASSUME NoSnapshotAssumption == NoSnapshot \notin Values

CallbackStages == {"WORK", "ONCOMMIT", "ONABORT", "FINALLY"}

Memory == [Cells -> Values]

TxRecords ==
    [stage : {"NONE"} \cup CallbackStages,
     error : BOOLEAN,                       \* pmemobj_tx_errno() # 0
     mem   : Memory,
     undo  : [Cells -> Values \cup {NoSnapshot}],
     locks : SUBSET Locks,
     registered : SUBSET CallbackStages,    \* tx_data::callbacks
     ran   : [CallbackStages -> 0 .. 1]]    \* history: callbacks of this transaction

EmptyLog == [c \in Cells |-> NoSnapshot]
NothingRan == [s \in CallbackStages |-> 0]

Undone(t) ==
    [c \in Cells |-> IF t.undo[c] = NoSnapshot THEN t.mem[c] ELSE t.undo[c]]

-----------------------------------------------------------------------------
\* Mutant: the callbacks of an aborted transaction are those for its commit.
c_callback_WrongList(t, stage) ==
    IF stage \in t.registered
    THEN [t EXCEPT !.ran[IF stage = "ONABORT" THEN "ONCOMMIT" ELSE stage] = 1]
    ELSE t

\* Mutant: every callback is called twice.
c_callback_Twice(t, stage) ==
    IF stage \in t.registered THEN [t EXCEPT !.ran[stage] = @ + 2] ELSE t

(***************************************************************************)
(* transaction_base::c_callback: call what is registered for the stage; at *)
(* the last one, delete the tx_data.                                       *)
(***************************************************************************)
c_callback(t, stage) ==
    [t EXCEPT !.ran[stage] = IF stage \in t.registered THEN 1 ELSE @,
              !.registered = IF stage = "FINALLY" THEN {} ELSE @]

pmemobj_tx_begin(t, depth) ==
    IF depth = 0
    THEN [t EXCEPT !.stage = "WORK", !.error = FALSE, !.ran = NothingRan]
    ELSE t

pmemobj_tx_lock(t, locks) == [t EXCEPT !.locks = @ \cup locks]

pmemobj_tx_add_range(t, c) ==
    IF t.undo[c] = NoSnapshot THEN [t EXCEPT !.undo[c] = t.mem[c]] ELSE t

(***************************************************************************)
(* Only the outermost transaction rolls back.                              *)
(***************************************************************************)
pmemobj_tx_abort(t, depth) ==
    LET aborted == [t EXCEPT !.stage = "ONABORT", !.error = TRUE]
    IN  IF depth = 1
        THEN c_callback([aborted EXCEPT !.mem = Undone(t), !.undo = EmptyLog], "ONABORT")
        ELSE aborted

pmemobj_tx_commit(t, depth) ==
    IF depth = 1
    THEN c_callback([c_callback(t, "WORK") EXCEPT !.stage = "ONCOMMIT", !.undo = EmptyLog],
                    "ONCOMMIT")
    ELSE [t EXCEPT !.stage = "ONCOMMIT"]

(***************************************************************************)
(* The end of a nested transaction that aborted aborts the one around it.  *)
(***************************************************************************)
pmemobj_tx_end(t, depth) ==
    IF depth = 1
    THEN [c_callback(t, "FINALLY") EXCEPT !.stage = "NONE", !.locks = {}]
    ELSE LET outer == [t EXCEPT !.stage = "WORK"]
         IN  IF t.error THEN pmemobj_tx_abort(outer, depth - 1) ELSE outer

(***************************************************************************)
(* Opening the pool after a crash rolls back what did not commit.          *)
(***************************************************************************)
Recovered(t) ==
    [stage |-> "NONE", error |-> FALSE, mem |-> Undone(t), undo |-> EmptyLog,
     locks |-> {}, registered |-> {}, ran |-> NothingRan]

=============================================================================

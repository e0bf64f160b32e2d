---------------------------- MODULE Transaction ----------------------------
(***************************************************************************)
(* The transaction scopes of include/libpmemobj++/transaction.hpp in one   *)
(* thread: transaction_base<is_flat>::manual, ::automatic and ::run, for   *)
(* basic_transaction and flat_transaction, in any nesting; and p<>, whose  *)
(* assignment takes part in the transaction.                               *)
(*                                                                         *)
(* frames are the scopes the thread is in, the innermost last.  The code   *)
(* between them is the application's: it assigns, takes snapshots, adds    *)
(* callbacks, commits, aborts, throws, and catches what reaches it.        *)
(***************************************************************************)
EXTENDS PmemobjTx, Sequences

CONSTANTS
    MaxDepth,               \* bound on the nesting
    WriteAfterAbort         \* the application assigns to a p<> in the body of
                            \* a transaction after it was aborted

ASSUME TransactionAssumption ==
    /\ MaxDepth \in Nat \ {0}
    /\ WriteAfterAbort \in BOOLEAN

Kinds == {"manual", "automatic", "run"}
Frames == [kind : Kinds, is_flat : BOOLEAN, nested : BOOLEAN,
           failure_return : BOOLEAN]        \* POBJ_TX_FAILURE_RETURN

VARIABLES
    tx,                     \* the thread's libpmemobj transaction, and the memory
    frames,                 \* see above
    unwinding,              \* an exception is on its way
    leaving,                \* the innermost scope's body is over
    before,                 \* history: the memory when the outermost began
    outcome,                \* history: how the last outermost one went
    due,                    \* history: there is a reason to abort
    returned                \* history: the outermost run/automatic was left
                            \* without an exception

historyVars == <<before, outcome, due, returned>>
vars == <<tx, frames, unwinding, leaving, historyVars>>

Depth == Len(frames)
Top == frames[Depth]
Running == ~unwinding /\ ~leaving
InBody == Depth > 0 /\ Running

TypeOK ==
    /\ tx \in TxRecords
    /\ frames \in Seq(Frames)
    /\ unwinding \in BOOLEAN
    /\ leaving \in BOOLEAN
    /\ before \in Memory
    /\ outcome \in {"none", "open", "committed", "aborted"}
    /\ due \in BOOLEAN
    /\ returned \in BOOLEAN

Init ==
    /\ \E m \in Memory :
         /\ tx = [stage |-> "NONE", error |-> FALSE, mem |-> m, undo |-> EmptyLog,
                  locks |-> {}, registered |-> {}, ran |-> NothingRan]
         /\ before = m
    /\ frames = << >>
    /\ unwinding = FALSE
    /\ leaving = FALSE
    /\ outcome = "none"
    /\ due = FALSE
    /\ returned = FALSE

-----------------------------------------------------------------------------
(* manual's constructor *)

Throw ==
    /\ unwinding' = TRUE
    /\ UNCHANGED leaving

Enter(kind, is_flat) ==
    LET nested == tx.stage = "WORK"
    IN  Append(frames,
               [kind |-> kind, is_flat |-> is_flat, nested |-> nested,
                failure_return |-> is_flat \/ (nested /\ Top.failure_return)])

Opens(result) ==
    /\ before' = IF Depth = 0 THEN tx.mem ELSE before
    /\ outcome' = IF Depth = 0 THEN result ELSE outcome
    /\ returned' = (Depth > 0 /\ returned)

begin(kind, is_flat, locks) ==
    /\ Running
    /\ tx.stage \in {"WORK", "NONE"}
    /\ Depth < MaxDepth
    /\ tx' = pmemobj_tx_lock(pmemobj_tx_begin(tx, Depth), locks)
    /\ frames' = Enter(kind, is_flat)
    /\ Opens("open")
    /\ due' = (Depth > 0 /\ due)
    /\ UNCHANGED <<unwinding, leaving>>

(***************************************************************************)
(* "failed to add lock": the transaction begun is aborted and ended.       *)
(***************************************************************************)
begin_lock_fails(locks) ==
    /\ Running
    /\ tx.stage \in {"WORK", "NONE"}
    /\ Depth < MaxDepth
    /\ tx' = pmemobj_tx_end(pmemobj_tx_abort(
                pmemobj_tx_lock(pmemobj_tx_begin(tx, Depth), locks), Depth + 1), Depth + 1)
    /\ Throw
    /\ Opens("aborted")
    /\ due' = TRUE
    /\ UNCHANGED frames

begin_wrong_stage ==
    /\ InBody
    /\ tx.stage \notin {"WORK", "NONE"}
    /\ Throw
    /\ UNCHANGED <<tx, frames, historyVars>>

-----------------------------------------------------------------------------
(* What the body does *)

WrongStage ==
    /\ InBody
    /\ tx.stage # "WORK"
    /\ Throw
    /\ UNCHANGED <<tx, frames, historyVars>>

(***************************************************************************)
(* A transactional function of libpmemobj fails: out of memory, a range    *)
(* outside of the pool, a nested pmemobj_tx_begin of another pool.         *)
(***************************************************************************)
operation_fails ==
    /\ InBody
    /\ tx.stage = "WORK"
    /\ IF Top.failure_return
       THEN UNCHANGED <<tx, due>>
       ELSE tx' = pmemobj_tx_abort(tx, Depth) /\ due' = TRUE
    /\ Throw
    /\ UNCHANGED <<frames, before, outcome, returned>>

\* Mutant: the cell is not added to the transaction.
conditional_add_to_tx_Not(t, c) == IF c \in Cells THEN t ELSE pmemobj_tx_add_range(t, c)

conditional_add_to_tx(t, c) ==
    IF t.stage = "WORK" THEN pmemobj_tx_add_range(t, c) ELSE t

(***************************************************************************)
(* p::operator=.  After commit() the caller is responsible for doing       *)
(* nothing more.                                                           *)
(***************************************************************************)
assign(c, v) ==
    /\ InBody
    /\ tx.stage = "WORK" \/ (tx.stage = "ONABORT" /\ WriteAfterAbort)
    /\ tx' = [conditional_add_to_tx(tx, c) EXCEPT !.mem[c] = v]
    /\ UNCHANGED <<frames, unwinding, leaving, historyVars>>

snapshot(c) ==
    /\ InBody
    /\ tx.stage = "WORK"
    /\ tx' = pmemobj_tx_add_range(tx, c)
    /\ UNCHANGED <<frames, unwinding, leaving, historyVars>>

register_callback(stage) ==
    /\ InBody
    /\ tx.stage = "WORK"
    /\ tx' = [tx EXCEPT !.registered = @ \cup {stage}]
    /\ UNCHANGED <<frames, unwinding, leaving, historyVars>>

abort ==
    /\ InBody
    /\ tx.stage = "WORK"
    /\ tx' = pmemobj_tx_abort(tx, Depth)
    /\ due' = TRUE
    /\ Throw
    /\ UNCHANGED <<frames, before, outcome, returned>>

Commits == outcome' = IF Depth = 1 THEN "committed" ELSE outcome

commit ==
    /\ InBody
    /\ tx.stage = "WORK"
    /\ tx' = pmemobj_tx_commit(tx, Depth)
    /\ Commits
    /\ UNCHANGED <<frames, unwinding, leaving, before, due, returned>>

throw ==
    /\ InBody
    /\ Throw
    /\ UNCHANGED <<tx, frames, historyVars>>

(***************************************************************************)
(* A handler in the body of the innermost scope, or outside of all.        *)
(***************************************************************************)
catch ==
    /\ unwinding
    /\ ~leaving
    /\ unwinding' = FALSE
    /\ UNCHANGED <<tx, frames, leaving, historyVars>>

-----------------------------------------------------------------------------
(* Leaving a scope *)

\* Mutant: an aborted transaction is not reported.
AutoCommit_Silent ==
    IF tx.stage = "WORK"
    THEN /\ tx' = pmemobj_tx_commit(tx, Depth)
         /\ Commits
         /\ UNCHANGED unwinding
    ELSE UNCHANGED <<tx, outcome, unwinding>>

(***************************************************************************)
(* The body returned: what run and automatic's destructor do then.         *)
(***************************************************************************)
AutoCommit ==
    CASE tx.stage = "WORK" ->
           /\ tx' = pmemobj_tx_commit(tx, Depth)
           /\ Commits
           /\ UNCHANGED unwinding
      [] tx.stage = "ONABORT" ->
           /\ unwinding' = TRUE
           /\ UNCHANGED <<tx, outcome>>
      [] OTHER ->
           UNCHANGED <<tx, outcome, unwinding>>

body_returns ==
    /\ InBody
    /\ leaving' = TRUE
    /\ IF Top.kind \in {"run", "automatic"}
       THEN AutoCommit
       ELSE UNCHANGED <<tx, outcome, unwinding>>
    /\ UNCHANGED <<frames, before, due, returned>>

\* Mutant: a nested flat transaction aborts like a basic one.
CommitsNested_Never(f) == f.is_flat /\ f.nested /\ f.kind \notin Kinds

(***************************************************************************)
(* What manual's destructor does to a transaction nobody committed.        *)
(***************************************************************************)
CommitsNested(f) == f.is_flat /\ f.nested

(***************************************************************************)
(* An exception left the body, or nobody committed a manual transaction.   *)
(***************************************************************************)
LeftUncommitted == tx.stage # "ONCOMMIT" /\ (~leaving \/ Top.kind = "manual")

destroy_manual ==
    /\ Depth > 0
    /\ leaving \/ unwinding
    /\ LET ended == IF tx.stage # "WORK" THEN tx
                    ELSE IF CommitsNested(Top) THEN pmemobj_tx_commit(tx, Depth)
                    ELSE pmemobj_tx_abort(tx, Depth)
       IN  tx' = pmemobj_tx_end(ended, Depth)
    /\ due' = (due \/ (LeftUncommitted /\ (Depth = 1 \/ ~Top.is_flat)))
    /\ outcome' = IF Depth = 1 /\ outcome = "open" THEN "aborted" ELSE outcome
    /\ returned' = (Depth = 1 /\ ~unwinding /\ Top.kind # "manual")
    /\ frames' = SubSeq(frames, 1, Depth - 1)
    /\ leaving' = FALSE
    /\ UNCHANGED <<unwinding, before>>

(***************************************************************************)
(* The process dies and the pool is opened again.                          *)
(***************************************************************************)
Crash ==
    /\ tx' = Recovered(tx)
    /\ frames' = << >>
    /\ unwinding' = FALSE
    /\ leaving' = FALSE
    /\ returned' = FALSE
    /\ outcome' = IF outcome = "open" THEN "aborted" ELSE outcome
    /\ due' = (due \/ outcome = "open")
    /\ UNCHANGED before

-----------------------------------------------------------------------------
Next ==
    \/ \E kind \in Kinds, is_flat \in BOOLEAN, locks \in SUBSET Locks :
         begin(kind, is_flat, locks)
    \/ \E locks \in SUBSET Locks : begin_lock_fails(locks)
    \/ begin_wrong_stage
    \/ WrongStage
    \/ operation_fails
    \/ \E c \in Cells, v \in Values : assign(c, v)
    \/ \E c \in Cells : snapshot(c)
    \/ \E stage \in CallbackStages : register_callback(stage)
    \/ abort
    \/ commit
    \/ throw
    \/ catch
    \/ body_returns
    \/ destroy_manual
    \/ Crash

Spec == Init /\ [][Next]_vars

-----------------------------------------------------------------------------
(***************************************************************************)
(* A transaction that does not commit leaves no trace in persistent        *)
(* memory, whatever scopes were nested in it, whoever caught which         *)
(* exception, and also when the process dies ("the p property makes sure   *)
(* that changes to a variable within a transaction are made atomically").  *)
(***************************************************************************)
AllOrNothing == outcome = "aborted" => tx.mem = before

(***************************************************************************)
(* A run or automatic transaction that is left without an exception has    *)
(* committed.                                                              *)
(***************************************************************************)
ReturnMeansCommitted == returned => outcome = "committed"

(***************************************************************************)
(* The outermost transaction commits if, and only if, nothing in it called *)
(* for an abort: abort(), a failed lock, a failed operation outside of     *)
(* flat transactions, an exception that left a basic transaction or the    *)
(* outermost one, a manual one of these that was not committed.            *)
(***************************************************************************)
AbortsWhenDue ==
    /\ outcome = "committed" => ~due
    /\ outcome = "aborted" => due

(***************************************************************************)
(* "In case of nested transactions those callbacks are called when the     *)
(* outer most transaction enters a specified stage": the ones for a commit *)
(* when it committed, the ones for an abort when it aborted, the last ones *)
(* at the end.                                                             *)
(***************************************************************************)
CallbacksMatchOutcome ==
    /\ tx.ran["WORK"] + tx.ran["ONCOMMIT"] > 0 => outcome = "committed"
    /\ tx.ran["ONABORT"] = 1 => outcome # "committed" /\ tx.mem = before
    /\ tx.ran["FINALLY"] = 1 => Depth = 0
    /\ Depth = 0 => tx.registered = {}
    /\ \A s \in tx.registered :
          tx.ran[s] = 1 <=> \/ s \in {"WORK", "ONCOMMIT"} /\ outcome = "committed"
                            \/ s = "ONABORT" /\ Depth = 1 /\ tx.stage = "ONABORT"

=============================================================================

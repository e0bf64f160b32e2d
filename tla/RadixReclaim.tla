---------------------------- MODULE RadixReclaim ----------------------------
(***************************************************************************)
(* How radix_tree in MtMode reclaims nodes and leaves: one writer, many    *)
(* readers, garbage lists per epoch (experimental/radix_tree.hpp) on top   *)
(* of Ebr.  The tree's shape is abstracted to the set of its objects       *)
(* (nodes and leaves) that a traversal from the root can reach.            *)
(*                                                                         *)
(* A reader in a critical section may hold, or may still obtain through a  *)
(* pointer it holds, every object that was reachable at some moment since  *)
(* it stored its epoch; may_hold is that set.                              *)
(***************************************************************************)
EXTENDS Ebr

CONSTANT Objects            \* the allocations nodes and leaves can live in

VARIABLES
    status,                 \* of each allocation: free, reachable, unlinked
                            \* (not yet in a list) or garbage
    garbages,               \* radix_tree::garbages
    may_hold                \* for each reader thread, see above

radixVars == <<status, garbages, may_hold>>
vars == <<ebrVars, radixVars>>

Reachable == {o \in Objects : status[o] = "reachable"}

TypeOK ==
    /\ global_epoch \in Epoch
    /\ workers \subseteq Threads
    /\ local_epoch \in [Threads -> {0} \cup {Marked(e) : e \in Epoch}]
    /\ new_epoch \in [Threads -> {0} \cup {Marked(e) : e \in Epoch}]
    /\ pc \in [Threads -> {"unregistered", "idle", "entering", "critical"}]
    /\ mtx_held \in BOOLEAN
    /\ op \in {"none", "sync", "full_sync"}
    /\ syncpc \in {"none", "load", "lock", "scan", "done"}
    /\ current_epoch \in Epoch
    /\ unseen \subseteq Threads
    /\ syncs_cnt \in 0 .. EPOCHS_NUMBER
    /\ status \in [Objects -> {"free", "reachable", "unlinked", "garbage"}]
    /\ garbages \in [Epoch -> SUBSET Objects]
    /\ may_hold \in [Threads -> SUBSET Objects]

Init ==
    /\ EbrInit
    /\ status = [o \in Objects |-> "free"]
    /\ garbages = [e \in Epoch |-> {}]
    /\ may_hold = [t \in Threads |-> {}]

-----------------------------------------------------------------------------
(* Readers *)

Register(t) == register_worker(t) /\ UNCHANGED radixVars
Unregister(t) == destroy_worker(t) /\ UNCHANGED radixVars
EnterLoad(t) == critical_load(t) /\ UNCHANGED radixVars

EnterStore(t) ==
    /\ critical_store(t)
    /\ may_hold' = [may_hold EXCEPT ![t] = Reachable]
    /\ UNCHANGED <<status, garbages>>

Leave(t) ==
    /\ critical_end(t)
    /\ may_hold' = [may_hold EXCEPT ![t] = {}]
    /\ UNCHANGED <<status, garbages>>

-----------------------------------------------------------------------------
(* The writer: it is never inside sync() while it changes the tree.        *)

WriterIdle == syncpc = "none"

(***************************************************************************)
(* A store that links a new object: every reader inside a critical section *)
(* can see it from now on.                                                 *)
(***************************************************************************)
Link(o) ==
    /\ WriterIdle
    /\ status[o] = "free"
    /\ status' = [status EXCEPT ![o] = "reachable"]
    /\ may_hold' = [t \in Threads |-> IF pc[t] = "critical"
                                      THEN may_hold[t] \cup {o}
                                      ELSE may_hold[t]]
    /\ UNCHANGED <<ebrVars, garbages>>

(***************************************************************************)
(* A store that removes the last path to an object (erase, clear, the old  *)
(* leaf in assign_val and insert_or_assign).                               *)
(***************************************************************************)
Unlink(o) ==
    /\ WriterIdle
    /\ status[o] = "reachable"
    /\ status' = [status EXCEPT ![o] = "unlinked"]
    /\ UNCHANGED <<ebrVars, garbages, may_hold>>

(***************************************************************************)
(* radix_tree::free with ebr_ set.                                         *)
(***************************************************************************)
Stage(o) ==
    /\ WriterIdle
    /\ status[o] = "unlinked"
    /\ status' = [status EXCEPT ![o] = "garbage"]
    /\ garbages' = [garbages EXCEPT ![staging_epoch] = @ \cup {o}]
    /\ UNCHANGED <<ebrVars, may_hold>>

(***************************************************************************)
(* The tree operation that unlinked an object stages it before it returns, *)
(* so none is pending when the writer calls garbage_collect*().            *)
(***************************************************************************)
StartCollect(kind) ==
    /\ \A o \in Objects : status[o] # "unlinked"
    /\ start_sync(kind)
    /\ UNCHANGED radixVars

SyncStep ==
    /\ \/ sync_load
       \/ sync_lock
       \/ \E t \in Threads : sync_check(t) \/ sync_fail(t)
       \/ sync_store
    /\ UNCHANGED radixVars

(***************************************************************************)
(* clear_garbage for the given epochs; then garbage_collect*() returns.    *)
(***************************************************************************)
clear_garbage(epochs) ==
    /\ status' = [o \in Objects |-> IF \E e \in epochs : o \in garbages[e]
                                    THEN "free" ELSE status[o]]
    /\ garbages' = [e \in Epoch |-> IF e \in epochs THEN {} ELSE garbages[e]]
    /\ op' = "none"
    /\ syncpc' = "none"
    /\ UNCHANGED <<global_epoch, readerVars, mtx_held, current_epoch, unseen,
                   syncs_cnt, may_hold>>

(***************************************************************************)
(* garbage_collect() does not look at what sync() returned.                *)
(***************************************************************************)
garbage_collect ==
    /\ syncpc = "done"
    /\ op = "sync"
    /\ clear_garbage({gc_epoch})

garbage_collect_force ==
    /\ syncpc = "done"
    /\ op = "full_sync"
    /\ clear_garbage(Epoch)

-----------------------------------------------------------------------------
ReaderNext(t) ==
    \/ Register(t)
    \/ Unregister(t)
    \/ EnterLoad(t)
    \/ EnterStore(t)
    \/ Leave(t)

Next ==
    \/ \E t \in Threads : ReaderNext(t)
    \/ \E o \in Objects : Link(o) \/ Unlink(o) \/ Stage(o)
    \/ \E kind \in {"sync", "full_sync"} : StartCollect(kind)
    \/ SyncStep
    \/ garbage_collect
    \/ garbage_collect_force

Spec == Init /\ [][Next]_vars

(***************************************************************************)
(* The reclaiming thread keeps running once it is inside garbage_collect*, *)
(* and a critical section, once entered, ends.  Readers need never enter.  *)
(***************************************************************************)
Fairness ==
    /\ WF_vars(SyncStep \/ garbage_collect \/ garbage_collect_force)
    /\ \A t \in Threads : WF_vars(Leave(t))

FairSpec == Spec /\ Fairness

-----------------------------------------------------------------------------
(***************************************************************************)
(* The promise of worker::critical ("Reclamation of objects is guaranteed  *)
(* not to occur in the critical path"): clear_garbage never deletes an     *)
(* object a reader inside a critical section may hold, whatever epoch the  *)
(* reader announced and however stale it was when it was stored.           *)
(***************************************************************************)
NoUseAfterFree ==
    \A t \in Threads : \A o \in may_hold[t] : status[o] # "free"

(***************************************************************************)
(* The writer's full_sync() returns although readers keep entering and     *)
(* leaving: its retry loop cannot be held up for ever by readers whose     *)
(* critical sections end.                                                  *)
(***************************************************************************)
FullSyncReturns == (op = "full_sync") ~> (op = "none")

=============================================================================

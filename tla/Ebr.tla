-------------------------------- MODULE Ebr --------------------------------
(***************************************************************************)
(* Epoch-based reclamation, include/libpmemobj++/detail/ebr.hpp.           *)
(*                                                                         *)
(* Reader threads register a worker and run critical sections; one         *)
(* (serialised) reclaiming thread calls sync() or full_sync().  Every load *)
(* and store of an atomic of the class is one step, and sync() visits the  *)
(* registered workers one at a time, in any order, while it holds mtx.     *)
(*                                                                         *)
(* The module gives the actions of the component; what is reclaimed, and   *)
(* when, is up to the user of the class (RadixReclaim).                    *)
(***************************************************************************)
EXTENDS Integers

CONSTANT Threads            \* the threads that may register a worker

VARIABLES
    global_epoch,           \* ebr::global_epoch
    workers,                \* the threads with an entry in ebr::workers
    local_epoch,            \* the atomic of each entry; 0 without an entry
    new_epoch,              \* critical(): the value loaded but not yet stored
    pc,                     \* where each reader thread is
    mtx_held,               \* ebr::mtx is held by the thread that runs sync()
    op,                     \* "sync" or "full_sync" in progress, or "none"
    syncpc,                 \* where the reclaiming thread is
    current_epoch,          \* sync(): the epoch loaded at its start
    unseen,                 \* sync(): the workers its loop has not visited
    syncs_cnt               \* full_sync(): the successful calls of sync()

ebrVars == <<global_epoch, workers, local_epoch, new_epoch, pc, mtx_held, op,
             syncpc, current_epoch, unseen, syncs_cnt>>

readerVars == <<workers, local_epoch, new_epoch, pc>>
syncVars   == <<op, syncpc, current_epoch, unseen, syncs_cnt>>

EPOCHS_NUMBER == 3
Epoch == 0 .. EPOCHS_NUMBER - 1

(***************************************************************************)
(* The code sets the top bit of a size_t; any bit above the epochs will do.*)
(***************************************************************************)
ACTIVE_FLAG == 4
Active(e) == e >= ACTIVE_FLAG
Marked(e) == e + ACTIVE_FLAG

staging_epoch == global_epoch
gc_epoch == (global_epoch + 1) % EPOCHS_NUMBER

EbrInit ==
    /\ global_epoch = 0
    /\ workers = {}
    /\ local_epoch = [t \in Threads |-> 0]
    /\ new_epoch = [t \in Threads |-> 0]
    /\ pc = [t \in Threads |-> "unregistered"]
    /\ mtx_held = FALSE
    /\ op = "none"
    /\ syncpc = "none"
    /\ current_epoch = 0
    /\ unseen = {}
    /\ syncs_cnt = 0

-----------------------------------------------------------------------------
(* Readers *)

(***************************************************************************)
(* A second call in the same thread throws and changes nothing.            *)
(***************************************************************************)
register_worker(t) ==
    /\ pc[t] = "unregistered"
    /\ ~mtx_held
    /\ workers' = workers \cup {t}
    /\ local_epoch' = [local_epoch EXCEPT ![t] = 0]
    /\ pc' = [pc EXCEPT ![t] = "idle"]
    /\ UNCHANGED <<global_epoch, new_epoch, mtx_held, syncVars>>

destroy_worker(t) ==
    /\ pc[t] = "idle"
    /\ ~mtx_held
    /\ workers' = workers \ {t}
    /\ pc' = [pc EXCEPT ![t] = "unregistered"]
    /\ UNCHANGED <<global_epoch, local_epoch, new_epoch, mtx_held, syncVars>>

\* Mutant: the announced epoch misses its active flag, so sync() ignores it.
critical_load_NoFlag(t) ==
    /\ pc[t] = "idle"
    /\ new_epoch' = [new_epoch EXCEPT ![t] = global_epoch]
    /\ pc' = [pc EXCEPT ![t] = "entering"]
    /\ UNCHANGED <<global_epoch, workers, local_epoch, mtx_held, syncVars>>

critical_load(t) ==
    /\ pc[t] = "idle"
    /\ new_epoch' = [new_epoch EXCEPT ![t] = Marked(global_epoch)]
    /\ pc' = [pc EXCEPT ![t] = "entering"]
    /\ UNCHANGED <<global_epoch, workers, local_epoch, mtx_held, syncVars>>

critical_store(t) ==
    /\ pc[t] = "entering"
    /\ local_epoch' = [local_epoch EXCEPT ![t] = new_epoch[t]]
    /\ pc' = [pc EXCEPT ![t] = "critical"]
    /\ UNCHANGED <<global_epoch, workers, new_epoch, mtx_held, syncVars>>

\* Mutant: the epoch is left announced when the critical section ends.
critical_end_NoReset(t) ==
    /\ pc[t] = "critical"
    /\ pc' = [pc EXCEPT ![t] = "idle"]
    /\ UNCHANGED <<global_epoch, workers, local_epoch, new_epoch, mtx_held,
                   syncVars>>

critical_end(t) ==
    /\ pc[t] = "critical"
    /\ local_epoch' = [local_epoch EXCEPT ![t] = 0]
    /\ pc' = [pc EXCEPT ![t] = "idle"]
    /\ UNCHANGED <<global_epoch, workers, new_epoch, mtx_held, syncVars>>

-----------------------------------------------------------------------------
(* The reclaiming thread *)

start_sync(kind) ==
    /\ syncpc = "none"
    /\ op' = kind
    /\ syncpc' = "load"
    /\ syncs_cnt' = 0
    /\ UNCHANGED <<global_epoch, readerVars, mtx_held, current_epoch, unseen>>

sync_load ==
    /\ syncpc = "load"
    /\ current_epoch' = global_epoch
    /\ syncpc' = "lock"
    /\ UNCHANGED <<global_epoch, readerVars, mtx_held, op, unseen, syncs_cnt>>

sync_lock ==
    /\ syncpc = "lock"
    /\ ~mtx_held
    /\ mtx_held' = TRUE
    /\ unseen' = workers
    /\ syncpc' = "scan"
    /\ UNCHANGED <<global_epoch, readerVars, op, current_epoch, syncs_cnt>>

\* Mutant: the scan forgets to compare the worker's epoch.
InOldEpoch_NoCompare(t) ==
    FALSE /\ t \in Threads

InOldEpoch(t) ==
    Active(local_epoch[t]) /\ local_epoch[t] # Marked(current_epoch)

(***************************************************************************)
(* The loop of full_sync(): call sync() until it succeeded EPOCHS_NUMBER   *)
(* times.  A call of sync() alone returns.                                 *)
(***************************************************************************)
SyncReturns(ok) ==
    /\ mtx_held' = FALSE
    /\ unseen' = {}
    /\ syncs_cnt' = IF op = "full_sync" /\ ok THEN syncs_cnt + 1 ELSE syncs_cnt
    /\ syncpc' = IF op = "full_sync" /\ syncs_cnt' # EPOCHS_NUMBER
                 THEN "load" ELSE "done"
    /\ UNCHANGED <<readerVars, op, current_epoch>>

sync_check(t) ==
    /\ syncpc = "scan"
    /\ t \in unseen
    /\ ~InOldEpoch(t)
    /\ unseen' = unseen \ {t}
    /\ UNCHANGED <<global_epoch, readerVars, mtx_held, op, syncpc,
                   current_epoch, syncs_cnt>>

sync_fail(t) ==
    /\ syncpc = "scan"
    /\ t \in unseen
    /\ InOldEpoch(t)
    /\ SyncReturns(FALSE)
    /\ UNCHANGED global_epoch

sync_store ==
    /\ syncpc = "scan"
    /\ unseen = {}
    /\ global_epoch' = (current_epoch + 1) % EPOCHS_NUMBER
    /\ SyncReturns(TRUE)

=============================================================================

------------------------- MODULE RadixReclaim_proofs -------------------------
(***************************************************************************)
(* Proof that reclamation through Ebr is safe for any number of readers    *)
(* and objects.                                                            *)
(***************************************************************************)
EXTENDS RadixReclaim, TLAPS

Announced(t) == local_epoch[t] - ACTIVE_FLAG

(***************************************************************************)
(* The scan of sync() is behind t: t was visited, or was not registered    *)
(* when sync() took the mutex.                                             *)
(***************************************************************************)
Passed(t) == syncpc = "scan" /\ t \notin unseen

ReaderInv ==
    \A t \in Threads :
        /\ t \in workers <=> pc[t] # "unregistered"
        /\ pc[t] = "entering" => Active(new_epoch[t])
        /\ pc[t] = "critical" => Active(local_epoch[t])
        /\ pc[t] # "critical" => may_hold[t] = {}

SyncInv ==
    /\ mtx_held <=> syncpc = "scan"
    /\ syncpc = "scan" => unseen \subseteq workers
    /\ syncpc \in {"lock", "scan"} => current_epoch = global_epoch
    /\ syncpc = "none" <=> op = "none"
    /\ syncpc # "none" => \A o \in Objects : status[o] # "unlinked"
    /\ op = "full_sync" /\ syncpc = "done" => syncs_cnt = EPOCHS_NUMBER
    /\ op = "full_sync" /\ syncpc # "done" => syncs_cnt < EPOCHS_NUMBER

GarbageInv ==
    \A e \in Epoch : \A o \in garbages[e] :
        /\ status[o] = "garbage"
        /\ \A f \in Epoch : o \in garbages[f] => e = f

(***************************************************************************)
(* What may be in list e while a reader t inside a critical section may    *)
(* hold it.  The reader's epoch need not be the one it entered in: it was  *)
(* loaded any time before.  Still, list e is not the next one to be        *)
(* cleared; and as long as sync() can still succeed in spite of t (t       *)
(* announces the current epoch, or the scan is already behind t), not the  *)
(* one after it either.                                                    *)
(***************************************************************************)
Guarded(t, e) ==
    /\ e # gc_epoch
    /\ Announced(t) = global_epoch => e = global_epoch
    /\ Passed(t) => Announced(t) = global_epoch
    /\ op = "full_sync" /\ syncs_cnt >= 1 =>
          e # global_epoch /\ Announced(t) # global_epoch
    /\ op = "full_sync" => syncs_cnt < 2

HoldInv ==
    \A t \in Threads : \A e \in Epoch : \A o \in garbages[e] :
        o \in may_hold[t] => Guarded(t, e)

IInv == TypeOK /\ ReaderInv /\ SyncInv /\ GarbageInv /\ HoldInv /\ NoUseAfterFree

-----------------------------------------------------------------------------
USE DEF Epoch, EPOCHS_NUMBER, ACTIVE_FLAG, Active, Marked

LEMMA InitIInv == Init => IInv
<1> SUFFICES ASSUME Init PROVE IInv
  OBVIOUS
<1> USE DEF Init, EbrInit
<1>1. TypeOK
  <2>1. mtx_held \in BOOLEAN
    BY Zenon
  <2> QED BY <2>1 DEF TypeOK
<1>2. ReaderInv
  BY DEF ReaderInv
<1>3. SyncInv
  BY DEF SyncInv
<1>4. GarbageInv /\ HoldInv /\ NoUseAfterFree
  BY DEF GarbageInv, HoldInv, NoUseAfterFree
<1> QED BY <1>1, <1>2, <1>3, <1>4 DEF IInv

LEMMA NextType == TypeOK /\ SyncInv /\ [Next]_vars => TypeOK'
<1> SUFFICES ASSUME TypeOK, SyncInv, [Next]_vars PROVE TypeOK'
  OBVIOUS
<1> USE DEF TypeOK
<1>1. ASSUME NEW t \in Threads, Register(t) PROVE TypeOK'
  BY <1>1 DEF Register, register_worker, radixVars, syncVars
<1>2. ASSUME NEW t \in Threads, Unregister(t) PROVE TypeOK'
  BY <1>2 DEF Unregister, destroy_worker, radixVars, syncVars
<1>3. ASSUME NEW t \in Threads, EnterLoad(t) PROVE TypeOK'
  BY <1>3 DEF EnterLoad, critical_load, radixVars, syncVars
<1>4. ASSUME NEW t \in Threads, EnterStore(t) PROVE TypeOK'
  BY <1>4 DEF EnterStore, critical_store, radixVars, syncVars, Reachable
<1>5. ASSUME NEW t \in Threads, Leave(t) PROVE TypeOK'
  BY <1>5 DEF Leave, critical_end, radixVars, syncVars
<1>6. ASSUME NEW o \in Objects, Link(o) PROVE TypeOK'
  BY <1>6 DEF Link, ebrVars
<1>7. ASSUME NEW o \in Objects, Unlink(o) PROVE TypeOK'
  BY <1>7 DEF Unlink, ebrVars
<1>8. ASSUME NEW o \in Objects, Stage(o) PROVE TypeOK'
  BY <1>8 DEF Stage, ebrVars, staging_epoch
<1>9. ASSUME NEW kind \in {"sync", "full_sync"}, StartCollect(kind) PROVE TypeOK'
  BY <1>9 DEF StartCollect, start_sync, radixVars, readerVars
<1>10. ASSUME SyncStep PROVE TypeOK'
  <2>1. CASE sync_load /\ UNCHANGED radixVars
    BY <2>1 DEF sync_load, radixVars, readerVars
  <2>2. CASE sync_lock /\ UNCHANGED radixVars
    BY <2>2 DEF sync_lock, radixVars, readerVars
  <2>3. ASSUME NEW t \in Threads, sync_check(t), UNCHANGED radixVars PROVE TypeOK'
    BY <2>3 DEF sync_check, radixVars, readerVars
  <2>4. ASSUME NEW t \in Threads, sync_fail(t), UNCHANGED radixVars PROVE TypeOK'
    BY <2>4 DEF sync_fail, SyncReturns, radixVars, readerVars
  <2>5. CASE sync_store /\ UNCHANGED radixVars
    <3>1. (current_epoch + 1) % 3 \in 0 .. 2
      OBVIOUS
    <3>2. op = "full_sync" => syncs_cnt + 1 \in 0 .. 3
      BY <2>5 DEF sync_store, SyncInv
    <3>3. global_epoch' \in Epoch /\ syncs_cnt' \in 0 .. EPOCHS_NUMBER
      BY <2>5, <3>1, <3>2 DEF sync_store, SyncReturns
    <3>4. syncpc' \in {"load", "done"} /\ unseen' = {} /\ mtx_held' = FALSE
      BY <2>5 DEF sync_store, SyncReturns
    <3> QED
      BY <2>5, <3>3, <3>4 DEF sync_store, SyncReturns, radixVars, readerVars
  <2> QED BY <1>10, <2>1, <2>2, <2>3, <2>4, <2>5 DEF SyncStep
<1>11. CASE garbage_collect
  BY <1>11 DEF garbage_collect, clear_garbage, gc_epoch, readerVars
<1>12. CASE garbage_collect_force
  BY <1>12 DEF garbage_collect_force, clear_garbage, readerVars
<1>13. CASE UNCHANGED vars
  BY <1>13 DEF vars, ebrVars, radixVars
<1> QED
  BY <1>1, <1>2, <1>3, <1>4, <1>5, <1>6, <1>7, <1>8, <1>9, <1>10, <1>11,
     <1>12, <1>13 DEF Next, ReaderNext

(***************************************************************************)
(* The actions, grouped by what they can disturb: the reader's, the        *)
(* writer's and the reclaiming thread's.                                   *)
(***************************************************************************)
LEMMA ReaderStep ==
  ASSUME IInv, NEW t \in Threads, ReaderNext(t), TypeOK'
  PROVE  IInv'
<1> USE DEF IInv
<1>1. CASE Register(t)
  <2> USE <1>1 DEF Register, register_worker, radixVars, syncVars, TypeOK
  <2>1. ReaderInv' /\ NoUseAfterFree'
    BY DEF ReaderInv, NoUseAfterFree
  <2>2. SyncInv' /\ GarbageInv'
    BY DEF SyncInv, GarbageInv
  <2>3. HoldInv'
    BY DEF HoldInv, ReaderInv, Guarded, Announced, Passed, gc_epoch
  <2> QED BY <2>1, <2>2, <2>3
<1>2. CASE Unregister(t)
  <2> USE <1>2 DEF Unregister, destroy_worker, radixVars, syncVars, TypeOK
  <2>1. ReaderInv' /\ NoUseAfterFree'
    BY DEF ReaderInv, NoUseAfterFree
  <2>2. SyncInv' /\ GarbageInv'
    BY DEF SyncInv, GarbageInv
  <2>3. HoldInv'
    BY DEF HoldInv, Guarded, Announced, Passed, gc_epoch
  <2> QED BY <2>1, <2>2, <2>3
<1>3. CASE EnterLoad(t)
  <2> USE <1>3 DEF EnterLoad, critical_load, radixVars, syncVars, TypeOK
  <2>1. ReaderInv' /\ NoUseAfterFree'
    BY DEF ReaderInv, NoUseAfterFree
  <2>2. SyncInv' /\ GarbageInv'
    BY DEF SyncInv, GarbageInv
  <2>3. HoldInv'
    BY DEF HoldInv, Guarded, Announced, Passed, gc_epoch
  <2> QED BY <2>1, <2>2, <2>3
<1>4. CASE EnterStore(t)
  <2> USE <1>4 DEF EnterStore, critical_store, radixVars, syncVars, TypeOK,
                   Reachable
  <2>1. ReaderInv' /\ NoUseAfterFree'
    BY DEF ReaderInv, NoUseAfterFree
  <2>2. SyncInv' /\ GarbageInv'
    BY DEF SyncInv, GarbageInv
  <2>3. HoldInv'
    <3> SUFFICES ASSUME NEW r \in Threads, NEW e \in Epoch,
                        NEW o \in garbages[e], o \in may_hold'[r]
                 PROVE  Guarded(r, e)'
      BY DEF HoldInv
    <3>1. status[o] = "garbage"
      BY DEF GarbageInv
    <3>2. r # t
      BY <3>1
    <3> QED
      BY <3>2 DEF HoldInv, Guarded, Announced, Passed, gc_epoch
  <2> QED BY <2>1, <2>2, <2>3
<1>5. CASE Leave(t)
  <2> USE <1>5 DEF Leave, critical_end, radixVars, syncVars, TypeOK
  <2>1. ReaderInv' /\ NoUseAfterFree'
    BY DEF ReaderInv, NoUseAfterFree
  <2>2. SyncInv' /\ GarbageInv'
    BY DEF SyncInv, GarbageInv
  <2>3. HoldInv'
    BY DEF HoldInv, Guarded, Announced, Passed, gc_epoch
  <2> QED BY <2>1, <2>2, <2>3
<1> QED BY <1>1, <1>2, <1>3, <1>4, <1>5 DEF ReaderNext

LEMMA WriterStep ==
  ASSUME IInv, TypeOK',
         \/ \E o \in Objects : Link(o) \/ Unlink(o) \/ Stage(o)
         \/ \E kind \in {"sync", "full_sync"} : StartCollect(kind)
  PROVE  IInv'
<1> USE DEF IInv
<1>1. ASSUME NEW o \in Objects, Link(o) PROVE IInv'
  <2> USE <1>1 DEF Link, ebrVars, WriterIdle, TypeOK
  <2>1. ReaderInv' /\ NoUseAfterFree'
    BY DEF ReaderInv, NoUseAfterFree
  <2>2. SyncInv' /\ GarbageInv'
    BY DEF SyncInv, GarbageInv
  <2>3. HoldInv'
    BY DEF HoldInv, GarbageInv, Guarded, Announced, Passed, gc_epoch
  <2> QED BY <2>1, <2>2, <2>3
<1>2. ASSUME NEW o \in Objects, Unlink(o) PROVE IInv'
  <2> USE <1>2 DEF Unlink, ebrVars, WriterIdle, TypeOK
  <2>1. ReaderInv' /\ NoUseAfterFree'
    BY DEF ReaderInv, NoUseAfterFree
  <2>2. SyncInv' /\ GarbageInv'
    BY DEF SyncInv, GarbageInv
  <2>3. HoldInv'
    BY DEF HoldInv, Guarded, Announced, Passed, gc_epoch
  <2> QED BY <2>1, <2>2, <2>3
<1>3. ASSUME NEW o \in Objects, Stage(o) PROVE IInv'
  <2> USE <1>3 DEF Stage, ebrVars, WriterIdle, TypeOK, staging_epoch
  <2>1. ReaderInv' /\ NoUseAfterFree'
    BY DEF ReaderInv, NoUseAfterFree
  <2>2. SyncInv' /\ GarbageInv'
    BY DEF SyncInv, GarbageInv
  <2>3. op = "none" /\ global_epoch # gc_epoch
    BY DEF SyncInv, gc_epoch
  <2>4. HoldInv'
    BY <2>3 DEF HoldInv, Guarded, Announced, Passed, gc_epoch
  <2> QED BY <2>1, <2>2, <2>4
<1>4. ASSUME NEW kind \in {"sync", "full_sync"}, StartCollect(kind) PROVE IInv'
  <2> USE <1>4 DEF StartCollect, start_sync, radixVars, readerVars, TypeOK
  <2>1. ReaderInv' /\ NoUseAfterFree'
    BY DEF ReaderInv, NoUseAfterFree
  <2>2. SyncInv' /\ GarbageInv'
    BY DEF SyncInv, GarbageInv
  <2>3. HoldInv'
    BY DEF HoldInv, Guarded, Announced, Passed, gc_epoch
  <2> QED BY <2>1, <2>2, <2>3
<1> QED BY <1>1, <1>2, <1>3, <1>4

LEMMA SyncStepInv ==
  ASSUME IInv, SyncStep, TypeOK'
  PROVE  IInv'
<1> USE DEF IInv
<1>1. CASE sync_load /\ UNCHANGED radixVars
  <2> USE <1>1 DEF sync_load, radixVars, readerVars, TypeOK
  <2>1. ReaderInv' /\ SyncInv' /\ GarbageInv' /\ NoUseAfterFree'
    BY DEF ReaderInv, SyncInv, GarbageInv, NoUseAfterFree
  <2>2. HoldInv'
    BY DEF HoldInv, Guarded, Announced, Passed, gc_epoch
  <2> QED BY <2>1, <2>2
<1>2. CASE sync_lock /\ UNCHANGED radixVars
  <2> USE <1>2 DEF sync_lock, radixVars, readerVars, TypeOK
  <2>1. ReaderInv' /\ SyncInv' /\ GarbageInv' /\ NoUseAfterFree'
    BY DEF ReaderInv, SyncInv, GarbageInv, NoUseAfterFree
  <2>2. HoldInv'
    <3> SUFFICES ASSUME NEW r \in Threads, NEW e \in Epoch,
                        NEW o \in garbages[e], o \in may_hold[r]
                 PROVE  Guarded(r, e)'
      BY DEF HoldInv
    <3>1. r \in unseen'
      BY DEF ReaderInv
    <3> QED
      BY <3>1 DEF HoldInv, Guarded, Announced, Passed, gc_epoch
  <2> QED BY <2>1, <2>2
<1>3. ASSUME NEW t \in Threads, sync_check(t), UNCHANGED radixVars PROVE IInv'
  <2> USE <1>3 DEF sync_check, radixVars, readerVars, TypeOK
  <2>1. ReaderInv' /\ SyncInv' /\ GarbageInv' /\ NoUseAfterFree'
    BY DEF ReaderInv, SyncInv, GarbageInv, NoUseAfterFree
  <2>2. HoldInv'
    <3> SUFFICES ASSUME NEW r \in Threads, NEW e \in Epoch,
                        NEW o \in garbages[e], o \in may_hold[r]
                 PROVE  Guarded(r, e)'
      BY DEF HoldInv
    <3>1. r = t => Announced(r) = global_epoch
      BY DEF ReaderInv, SyncInv, InOldEpoch, Announced
    <3> QED
      BY <3>1 DEF HoldInv, Guarded, Announced, Passed, gc_epoch
  <2> QED BY <2>1, <2>2
<1>4. ASSUME NEW t \in Threads, sync_fail(t), UNCHANGED radixVars PROVE IInv'
  <2> USE <1>4 DEF sync_fail, SyncReturns, radixVars, readerVars, TypeOK
  <2>1. ReaderInv' /\ GarbageInv' /\ NoUseAfterFree'
    BY DEF ReaderInv, GarbageInv, NoUseAfterFree
  <2>2. SyncInv'
    BY DEF SyncInv
  <2>3. HoldInv'
    BY DEF HoldInv, Guarded, Announced, Passed, gc_epoch
  <2> QED BY <2>1, <2>2, <2>3
<1>5. CASE sync_store /\ UNCHANGED radixVars
  <2> USE <1>5 DEF sync_store, SyncReturns, radixVars, readerVars, TypeOK
  <2>1. ReaderInv' /\ GarbageInv' /\ NoUseAfterFree'
    BY DEF ReaderInv, GarbageInv, NoUseAfterFree
  <2>2. SyncInv'
    BY DEF SyncInv
  <2>3. HoldInv'
    <3> SUFFICES ASSUME NEW r \in Threads, NEW e \in Epoch,
                        NEW o \in garbages[e], o \in may_hold[r]
                 PROVE  Guarded(r, e)'
      BY DEF HoldInv
    <3>1. Guarded(r, e) /\ Passed(r)
      BY DEF HoldInv, Passed
    <3>2. Announced(r) = global_epoch /\ e = global_epoch
      BY <3>1 DEF Guarded
    <3>3. op = "full_sync" => syncs_cnt = 0
      BY <3>1, <3>2 DEF Guarded
    <3>4. global_epoch' = (global_epoch + 1) % 3
      BY DEF SyncInv
    <3>5. global_epoch' # global_epoch /\ gc_epoch' # global_epoch
      BY <3>4 DEF gc_epoch
    <3> QED
      BY <3>2, <3>3, <3>5 DEF Guarded, Announced, Passed
  <2> QED BY <2>1, <2>2, <2>3
<1> QED BY <1>1, <1>2, <1>3, <1>4, <1>5 DEF SyncStep

LEMMA CollectStep ==
  ASSUME IInv, garbage_collect \/ garbage_collect_force, TypeOK'
  PROVE  IInv'
<1> USE DEF IInv
<1> DEFINE E == IF op = "sync" THEN {gc_epoch} ELSE Epoch
<1>1. syncpc = "done" /\ clear_garbage(E)
  BY DEF garbage_collect, garbage_collect_force
<1>2. E \subseteq Epoch
  BY DEF gc_epoch, TypeOK
<1>3. ASSUME NEW r \in Threads, NEW e \in E, NEW o \in garbages[e]
      PROVE  o \notin may_hold[r]
  <2>1. CASE op = "sync"
    BY <1>2, <1>3, <2>1 DEF HoldInv, Guarded
  <2>2. CASE op # "sync"
    <3>1. op = "full_sync" /\ syncs_cnt = 3
      BY <1>1, <2>2 DEF SyncInv, TypeOK
    <3> QED BY <1>2, <1>3, <3>1 DEF HoldInv, Guarded
  <2> QED BY <2>1, <2>2
<1> USE <1>1 DEF clear_garbage, readerVars, TypeOK
<1> HIDE DEF E
<1>4. ReaderInv'
  BY DEF ReaderInv
<1>5. SyncInv'
  BY DEF SyncInv
<1>6. GarbageInv'
  <2> SUFFICES ASSUME NEW e \in Epoch, NEW o \in garbages'[e]
               PROVE  /\ status'[o] = "garbage"
                      /\ \A f \in Epoch : o \in garbages'[f] => e = f
    BY DEF GarbageInv
  <2>1. e \notin E /\ o \in garbages[e] /\ o \in Objects
    OBVIOUS
  <2>2. status[o] = "garbage" /\ \A f \in Epoch : o \in garbages[f] => e = f
    BY <2>1 DEF GarbageInv
  <2>3. ~ \E f \in E : o \in garbages[f]
    BY <1>2, <2>1, <2>2
  <2> QED BY <2>1, <2>2, <2>3
<1>7. NoUseAfterFree'
  BY <1>3 DEF NoUseAfterFree
<1>8. HoldInv'
  BY DEF HoldInv, Guarded, Announced, Passed, gc_epoch
<1> QED BY <1>4, <1>5, <1>6, <1>7, <1>8

LEMMA NextIInv == IInv /\ [Next]_vars => IInv'
<1> SUFFICES ASSUME IInv, [Next]_vars PROVE IInv'
  OBVIOUS
<1>1. TypeOK'
  BY NextType DEF IInv
<1>2. CASE UNCHANGED vars
  BY <1>1, <1>2 DEF vars, ebrVars, radixVars, IInv, ReaderInv, SyncInv,
     GarbageInv, HoldInv, NoUseAfterFree, Guarded, Announced, Passed, gc_epoch
<1>3. CASE Next
  BY <1>1, <1>3, ReaderStep, WriterStep, SyncStepInv, CollectStep DEF Next
<1> QED BY <1>2, <1>3

(***************************************************************************)
(* Every variable of the specification keeps its type.  The count of       *)
(* full_sync() stays in range only because its loop ends at EPOCHS_NUMBER, *)
(* so this rests on the invariant too.                                     *)
(***************************************************************************)
THEOREM TypeCorrect == Spec => []TypeOK
<1>1. IInv => TypeOK
  BY DEF IInv
<1> QED BY <1>1, InitIInv, NextIInv, PTL DEF Spec

(***************************************************************************)
(* No object that a reader inside a critical section may hold is ever      *)
(* deleted by clear_garbage, for any number of readers and of objects:     *)
(* the guarantee ebr::worker::critical gives and radix_tree relies on.     *)
(***************************************************************************)
THEOREM ReclamationSafe == Spec => []NoUseAfterFree
<1>1. IInv => NoUseAfterFree
  BY DEF IInv
<1> QED BY <1>1, InitIInv, NextIInv, PTL DEF Spec
=============================================================================

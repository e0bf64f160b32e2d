------------------------- MODULE Transaction_proofs -------------------------
(***************************************************************************)
(* Proofs about Transaction, for every set of cells, values and locks and  *)
(* every depth of nesting.                                                 *)
(*                                                                         *)
(* The inductive invariant says, besides types, that the undo log leads    *)
(* back to the memory the outermost transaction found (LogInv), and that   *)
(* between scopes the stage tells whether an abort is due (StageInv).      *)
(***************************************************************************)
EXTENDS Transaction, SequenceTheorems, TLAPS

LogInv ==
    /\ outcome = "open" => Undone(tx) = before
    /\ outcome = "aborted" => tx.mem = before
    /\ Depth = 0 \/ (Depth = 1 /\ tx.stage # "WORK") => tx.undo = EmptyLog

StageInv ==
    /\ Depth = 0 <=> tx.stage = "NONE"
    /\ tx.stage # "FINALLY"
    /\ Depth = 0 => ~leaving /\ outcome # "open"
    /\ Depth > 0 => outcome # "aborted" /\ outcome # "none" /\ ~returned
    /\ Depth > 0 /\ outcome = "committed" => Depth = 1 /\ tx.stage = "ONCOMMIT"
    /\ Depth = 1 /\ tx.stage = "ONCOMMIT" => outcome = "committed"
    /\ Depth > 0 => (due <=> tx.stage = "ONABORT") /\ (tx.error <=> tx.stage = "ONABORT")
    /\ leaving /\ Top.kind # "manual" =>
         tx.stage = "ONCOMMIT" \/ (tx.stage = "ONABORT" /\ unwinding)

FrameInv == \A i \in 1 .. Depth : frames[i].nested <=> i > 1

IInv == TypeOK /\ LogInv /\ StageInv /\ FrameInv /\ AbortsWhenDue /\ ReturnMeansCommitted

-----------------------------------------------------------------------------
(* What libpmemobj's operations do to a transaction record. *)

(***************************************************************************)
(* Rolling back yields a memory, and changes nothing when the undo log is  *)
(* empty.                                                                  *)
(***************************************************************************)
LEMMA UndoneType ==
    ASSUME NEW t \in TxRecords
    PROVE  /\ Undone(t) \in Memory
           /\ t.undo = EmptyLog => Undone(t) = t.mem
<1>1. t.mem \in [Cells -> Values] /\ t.undo \in [Cells -> Values \cup {NoSnapshot}]
  BY DEF TxRecords, Memory
<1> QED BY <1>1 DEF Undone, Memory, EmptyLog

(***************************************************************************)
(* A callback changes neither the stage nor the memory.                    *)
(***************************************************************************)
LEMMA CallbackEffect ==
    ASSUME NEW t \in TxRecords, NEW s \in CallbackStages
    PROVE  LET r == c_callback(t, s)
           IN  /\ r \in TxRecords
               /\ r.stage = t.stage /\ r.error = t.error
               /\ r.mem = t.mem /\ r.undo = t.undo /\ r.locks = t.locks
<1>1. t.ran \in [CallbackStages -> 0 .. 1]
  BY DEF TxRecords
<1>2. [t.ran EXCEPT ![s] = IF s \in t.registered THEN 1 ELSE @] \in [CallbackStages -> 0 .. 1]
  BY <1>1
<1> QED BY <1>2 DEF c_callback, TxRecords

(***************************************************************************)
(* An abort rolls back in the outermost transaction only.                  *)
(***************************************************************************)
LEMMA AbortEffect ==
    ASSUME NEW t \in TxRecords, NEW d \in Nat
    PROVE  LET r == pmemobj_tx_abort(t, d)
           IN  /\ r \in TxRecords
               /\ r.stage = "ONABORT" /\ r.error
               /\ d = 1 => r.mem = Undone(t) /\ r.undo = EmptyLog
               /\ d # 1 => r.mem = t.mem /\ r.undo = t.undo
<1> DEFINE a == [t EXCEPT !.stage = "ONABORT", !.error = TRUE]
<1> DEFINE b == [a EXCEPT !.mem = Undone(t), !.undo = EmptyLog]
<1>1. /\ a \in TxRecords /\ a.stage = "ONABORT" /\ a.error
      /\ a.mem = t.mem /\ a.undo = t.undo
  BY DEF TxRecords, CallbackStages
<1>2. EmptyLog \in [Cells -> Values \cup {NoSnapshot}]
  BY DEF EmptyLog
<1>3. /\ b \in TxRecords /\ b.stage = "ONABORT" /\ b.error
      /\ b.mem = Undone(t) /\ b.undo = EmptyLog
  BY <1>1, <1>2, UndoneType DEF TxRecords
<1>4. "ONABORT" \in CallbackStages
  BY DEF CallbackStages
<1>5. pmemobj_tx_abort(t, d) = IF d = 1 THEN c_callback(b, "ONABORT") ELSE a
  BY DEF pmemobj_tx_abort
<1> HIDE DEF a, b
<1> QED BY <1>1, <1>3, <1>4, <1>5, CallbackEffect

(***************************************************************************)
(* A commit keeps the memory; in the outermost transaction it drops the    *)
(* undo log.                                                               *)
(***************************************************************************)
LEMMA CommitEffect ==
    ASSUME NEW t \in TxRecords, NEW d \in Nat
    PROVE  LET r == pmemobj_tx_commit(t, d)
           IN  /\ r \in TxRecords
               /\ r.stage = "ONCOMMIT" /\ r.error = t.error /\ r.mem = t.mem
               /\ r.undo = IF d = 1 THEN EmptyLog ELSE t.undo
<1> DEFINE w == c_callback(t, "WORK")
<1> DEFINE a == [w EXCEPT !.stage = "ONCOMMIT", !.undo = EmptyLog]
<1> DEFINE b == [t EXCEPT !.stage = "ONCOMMIT"]
<1>1. /\ w \in TxRecords /\ w.error = t.error /\ w.mem = t.mem
  BY CallbackEffect DEF CallbackStages
<1>2. EmptyLog \in [Cells -> Values \cup {NoSnapshot}]
  BY DEF EmptyLog
<1>3. pmemobj_tx_commit(t, d) = IF d = 1 THEN c_callback(a, "ONCOMMIT") ELSE b
  BY DEF pmemobj_tx_commit
<1> HIDE DEF w
<1>4. /\ a \in TxRecords /\ a.stage = "ONCOMMIT" /\ a.error = t.error /\ a.mem = t.mem
      /\ a.undo = EmptyLog
  BY <1>1, <1>2 DEF TxRecords, CallbackStages
<1>5. /\ b \in TxRecords /\ b.stage = "ONCOMMIT" /\ b.error = t.error
      /\ b.mem = t.mem /\ b.undo = t.undo
  BY DEF TxRecords, CallbackStages
<1>6. "ONCOMMIT" \in CallbackStages
  BY DEF CallbackStages
<1> HIDE DEF a, b
<1> QED BY <1>3, <1>4, <1>5, <1>6, CallbackEffect

(***************************************************************************)
(* The end of the outermost transaction, and of a nested one, which hands  *)
(* an abort on to the transaction around it.                               *)
(***************************************************************************)
LEMMA EndEffect ==
    ASSUME NEW t \in TxRecords, NEW d \in Nat \ {0}
    PROVE  LET r == pmemobj_tx_end(t, d)
           IN  /\ r \in TxRecords
               /\ d = 1 => r.stage = "NONE" /\ r.mem = t.mem /\ r.undo = t.undo
               /\ d > 1 /\ ~t.error =>
                    r.stage = "WORK" /\ ~r.error /\ r.mem = t.mem /\ r.undo = t.undo
               /\ d > 1 /\ t.error => r.stage = "ONABORT" /\ r.error
               /\ d = 2 /\ t.error => r.mem = Undone(t) /\ r.undo = EmptyLog
               /\ d > 2 /\ t.error => r.mem = t.mem /\ r.undo = t.undo
<1> DEFINE f == c_callback(t, "FINALLY")
<1> DEFINE a == [f EXCEPT !.stage = "NONE", !.locks = {}]
<1> DEFINE b == [t EXCEPT !.stage = "WORK"]
<1>1. f \in TxRecords /\ f.mem = t.mem /\ f.undo = t.undo
  BY CallbackEffect DEF CallbackStages
<1>2. pmemobj_tx_end(t, d) = IF d = 1 THEN a
                             ELSE IF t.error THEN pmemobj_tx_abort(b, d - 1) ELSE b
  BY DEF pmemobj_tx_end
<1> HIDE DEF f
<1>3. a \in TxRecords /\ a.stage = "NONE" /\ a.mem = t.mem /\ a.undo = t.undo
  BY <1>1 DEF TxRecords
<1>4. /\ b \in TxRecords /\ b.stage = "WORK" /\ b.error = t.error
      /\ b.mem = t.mem /\ b.undo = t.undo
  BY DEF TxRecords, CallbackStages
<1>5. Undone(b) = Undone(t)
  BY <1>4 DEF Undone
<1> HIDE DEF a, b
<1>6. d - 1 \in Nat
  OBVIOUS
<1> QED BY <1>2, <1>3, <1>4, <1>5, <1>6, AbortEffect

(***************************************************************************)
(* A snapshot does not change what the undo log leads back to, and neither *)
(* does a store to a cell that has one.                                    *)
(***************************************************************************)
LEMMA SnapshotEffect ==
    ASSUME NEW t \in TxRecords, NEW c \in Cells
    PROVE  LET r == pmemobj_tx_add_range(t, c)
           IN  /\ r \in TxRecords
               /\ r.stage = t.stage /\ r.error = t.error /\ r.mem = t.mem
               /\ Undone(r) = Undone(t)
               /\ r.undo[c] # NoSnapshot
<1>1. t.mem \in [Cells -> Values] /\ t.undo \in [Cells -> Values \cup {NoSnapshot}]
  BY DEF TxRecords, Memory
<1>2. [t.undo EXCEPT ![c] = t.mem[c]] \in [Cells -> Values \cup {NoSnapshot}]
  BY <1>1
<1>3. [t EXCEPT !.undo[c] = t.mem[c]] \in TxRecords
  BY <1>2 DEF TxRecords
<1> QED BY <1>1, <1>3, NoSnapshotAssumption DEF pmemobj_tx_add_range, Undone, TxRecords

LEMMA StoreEffect ==
    ASSUME NEW t \in TxRecords, NEW c \in Cells, NEW v \in Values,
           t.undo[c] # NoSnapshot
    PROVE  LET r == [t EXCEPT !.mem[c] = v]
           IN  /\ r \in TxRecords
               /\ r.stage = t.stage /\ r.error = t.error /\ r.undo = t.undo
               /\ Undone(r) = Undone(t)
<1>1. t.mem \in [Cells -> Values] /\ t.undo \in [Cells -> Values \cup {NoSnapshot}]
  BY DEF TxRecords, Memory
<1>2. [t.mem EXCEPT ![c] = v] \in Memory
  BY <1>1 DEF Memory
<1>3. [t EXCEPT !.mem[c] = v] \in TxRecords
  BY <1>2 DEF TxRecords
<1> QED BY <1>1, <1>3 DEF Undone, TxRecords

-----------------------------------------------------------------------------
(* The scopes on the stack. *)

LEMMA EnterFrames ==
    ASSUME frames \in Seq(Frames), tx.stage = "WORK" => Depth > 0,
           NEW kind \in Kinds, NEW is_flat \in BOOLEAN
    PROVE  LET e == Enter(kind, is_flat)
           IN  /\ e \in Seq(Frames) /\ Len(e) = Depth + 1
               /\ \A i \in 1 .. Depth : e[i] = frames[i]
               /\ e[Depth + 1].nested <=> tx.stage = "WORK"
<1> DEFINE f == [kind |-> kind, is_flat |-> is_flat, nested |-> tx.stage = "WORK",
                 failure_return |-> is_flat \/ (tx.stage = "WORK" /\ Top.failure_return)]
<1>1. f \in Frames
  <2>1. (is_flat \/ (tx.stage = "WORK" /\ Top.failure_return)) \in BOOLEAN
    OBVIOUS
  <2>2. (tx.stage = "WORK") \in BOOLEAN
    OBVIOUS
  <2> QED BY <2>1, <2>2, Zenon DEF Frames
<1>2. f.nested <=> tx.stage = "WORK"
  OBVIOUS
<1>3. Enter(kind, is_flat) = Append(frames, f)
  BY DEF Enter
<1> HIDE DEF f
<1> QED BY <1>1, <1>2, <1>3 DEF Depth

LEMMA LeaveFrames ==
    ASSUME frames \in Seq(Frames), Depth > 0
    PROVE  LET l == SubSeq(frames, 1, Depth - 1)
           IN  /\ l \in Seq(Frames) /\ Len(l) = Depth - 1
               /\ \A i \in 1 .. Depth - 1 : l[i] = frames[i]
<1>1. PICK n \in Nat : Depth = n + 1
  <2>1. Depth \in Nat /\ Depth - 1 \in Nat /\ Depth = (Depth - 1) + 1
    BY DEF Depth
  <2> QED BY <2>1
<1>2. \A i \in 1 .. n : frames[i] \in Frames
  BY <1>1 DEF Depth
<1>3. Depth - 1 = n /\ n - 1 + 1 = n
  BY <1>1
<1> DEFINE l == SubSeq(frames, 1, n)
<1>4. /\ l \in Seq(Frames)
      /\ Len(l) = IF 1 <= n THEN n - 1 + 1 ELSE 0
      /\ \A i \in 1 .. n - 1 + 1 : l[i] = frames[1 + i - 1]
  BY <1>2, SubSeqProperties
<1> HIDE DEF l
<1>5. CASE n = 0
  BY <1>3, <1>4, <1>5 DEF l
<1>6. CASE n > 0
  <2>1. Len(l) = n
    BY <1>3, <1>4, <1>6
  <2>2. \A i \in 1 .. n : l[i] = frames[i]
    BY <1>3, <1>4
  <2> QED BY <1>3, <1>4, <2>1, <2>2 DEF l
<1> QED BY <1>5, <1>6

-----------------------------------------------------------------------------
(* The initial states and the steps. *)

LEMMA InitIInv == Init => IInv
<1> SUFFICES ASSUME Init PROVE IInv
  OBVIOUS
<1>1. PICK m \in Memory :
         /\ tx = [stage |-> "NONE", error |-> FALSE, mem |-> m, undo |-> EmptyLog,
                  locks |-> {}, registered |-> {}, ran |-> NothingRan]
         /\ before = m
  BY DEF Init
<1>2. EmptyLog \in [Cells -> Values \cup {NoSnapshot}] /\ NothingRan \in [CallbackStages -> 0 .. 1]
  BY DEF EmptyLog, NothingRan
<1>3. tx \in TxRecords
  BY <1>1, <1>2 DEF TxRecords
<1>4. /\ frames = << >> /\ frames \in Seq(Frames) /\ Depth = 0
      /\ unwinding = FALSE /\ leaving = FALSE /\ outcome = "none"
      /\ due = FALSE /\ returned = FALSE
  BY DEF Init, Depth
<1>5. tx.stage = "NONE" /\ tx.undo = EmptyLog /\ tx.mem = before /\ before \in Memory
  BY <1>1
<1>6. TypeOK
  BY <1>3, <1>4, <1>5 DEF TypeOK
<1>7. LogInv
  BY <1>4, <1>5 DEF LogInv
<1>8. StageInv
  BY <1>4, <1>5 DEF StageInv
<1>9. FrameInv
  BY <1>4 DEF FrameInv
<1> QED BY <1>4, <1>6, <1>7, <1>8, <1>9 DEF IInv, AbortsWhenDue, ReturnMeansCommitted

LEMMA BeginStep ==
    ASSUME IInv, NEW kind \in Kinds, NEW is_flat \in BOOLEAN,
           NEW locks \in SUBSET Locks, begin(kind, is_flat, locks)
    PROVE  IInv'
<1> DEFINE b == pmemobj_tx_begin(tx, Depth)
<1>1. tx \in TxRecords /\ frames \in Seq(Frames) /\ Depth \in Nat
  BY DEF IInv, TypeOK, Depth
<1>2. /\ b \in TxRecords /\ b.stage = "WORK" /\ ~b.error
      /\ b.mem = tx.mem /\ b.undo = tx.undo
  <2>1. NothingRan \in [CallbackStages -> 0 .. 1]
    BY DEF NothingRan
  <2>2. CASE Depth = 0
    BY <2>1, <2>2, <1>1 DEF pmemobj_tx_begin, TxRecords, CallbackStages
  <2>3. CASE Depth # 0
    <3>1. b = tx /\ tx.stage = "WORK" /\ ~tx.error
      BY <2>3, <1>1 DEF pmemobj_tx_begin, begin, IInv, StageInv
    <3> QED BY <3>1, <1>1
  <2> QED BY <2>2, <2>3
<1> HIDE DEF b
<1>3. /\ tx' \in TxRecords /\ tx'.stage = "WORK" /\ ~tx'.error
      /\ tx'.mem = tx.mem /\ tx'.undo = tx.undo
  BY <1>1, <1>2 DEF begin, pmemobj_tx_lock, TxRecords, b
<1>4. /\ frames' \in Seq(Frames) /\ Depth' = Depth + 1
      /\ \A i \in 1 .. Depth : frames'[i] = frames[i]
      /\ (frames'[Depth + 1].nested <=> tx.stage = "WORK")
  BY <1>1, EnterFrames DEF begin, IInv, StageInv, Depth
<1>5. Undone(tx') = Undone(tx) /\ (tx.undo = EmptyLog => Undone(tx) = tx.mem)
  BY <1>1, <1>3, UndoneType DEF Undone
<1>6. tx.mem \in Memory
  BY <1>1 DEF TxRecords
<1>7. Depth > 0 => ~due /\ outcome = "open"
  BY <1>1 DEF begin, IInv, TypeOK, StageInv
<1>8. /\ before' = IF Depth = 0 THEN tx.mem ELSE before
      /\ outcome' = "open" /\ returned' = FALSE /\ due' = FALSE
      /\ unwinding' = unwinding /\ leaving' = FALSE
  BY <1>1, <1>7 DEF begin, Opens, Running, IInv, TypeOK, StageInv
<1>9. TypeOK'
  BY <1>3, <1>4, <1>6, <1>8 DEF IInv, TypeOK
<1>10. LogInv'
  BY <1>1, <1>3, <1>4, <1>5, <1>7, <1>8 DEF IInv, LogInv, StageInv
<1>11. StageInv'
  BY <1>1, <1>3, <1>4, <1>8 DEF StageInv
<1>12. FrameInv'
  <2>1. tx.stage = "WORK" <=> Depth + 1 > 1
    BY <1>1 DEF IInv, StageInv, begin
  <2>2. \A i \in 1 .. Depth : frames'[i].nested <=> i > 1
    BY <1>4 DEF IInv, FrameInv
  <2>3. \A i \in 1 .. Depth + 1 : i \in 1 .. Depth \/ i = Depth + 1
    BY <1>1
  <2> QED BY <1>4, <2>1, <2>2, <2>3, Zenon DEF FrameInv
<1> QED
  BY <1>8, <1>9, <1>10, <1>11, <1>12 DEF IInv, AbortsWhenDue, ReturnMeansCommitted

(***************************************************************************)
(* Steps that only raise or catch an exception.                            *)
(***************************************************************************)
LEMMA ExceptionStep ==
    ASSUME IInv, ~leaving, unwinding' \in BOOLEAN,
           UNCHANGED <<tx, frames, leaving, historyVars>>
    PROVE  IInv'
<1>1. /\ tx' = tx /\ frames' = frames /\ leaving' = leaving /\ before' = before
      /\ outcome' = outcome /\ due' = due /\ returned' = returned
  BY DEF historyVars
<1>2. Undone(tx)' = Undone(tx) /\ Depth' = Depth /\ Top' = Top
  BY <1>1 DEF Undone, Depth, Top
<1>3. TypeOK'
  BY <1>1 DEF IInv, TypeOK
<1>4. LogInv'
  BY <1>1, <1>2 DEF IInv, LogInv
<1>5. StageInv'
  BY <1>1, <1>2 DEF IInv, StageInv
<1> QED
  BY <1>1, <1>2, <1>3, <1>4, <1>5 DEF IInv, FrameInv, AbortsWhenDue, ReturnMeansCommitted

(***************************************************************************)
(* In the body of a transaction in stage WORK no abort is due.             *)
(***************************************************************************)
LEMMA WorkFacts ==
    ASSUME IInv, tx.stage = "WORK"
    PROVE  /\ Depth \in Nat \ {0} /\ outcome = "open" /\ Undone(tx) = before
           /\ ~due /\ ~tx.error /\ ~returned
<1>1. Depth \in Nat
  BY DEF IInv, TypeOK, Depth
<1>2. Depth # 0
  BY DEF IInv, StageInv
<1>3. outcome = "open"
  BY <1>1, <1>2 DEF IInv, TypeOK, StageInv
<1> QED BY <1>1, <1>2, <1>3 DEF IInv, StageInv, LogInv

(***************************************************************************)
(* Steps of the body that the undo log undoes.                             *)
(***************************************************************************)
LEMMA BodyStep ==
    ASSUME IInv, tx.stage = "WORK", tx' \in TxRecords, tx'.stage = tx.stage,
           tx'.error = tx.error, Undone(tx') = Undone(tx),
           UNCHANGED <<frames, unwinding, leaving, historyVars>>
    PROVE  IInv'
<1>1. /\ unwinding' = unwinding /\ frames' = frames /\ leaving' = leaving
      /\ before' = before /\ outcome' = outcome /\ due' = due /\ returned' = returned
  BY DEF historyVars
<1>2. Depth' = Depth /\ Top' = Top
  BY <1>1 DEF Depth, Top
<1>3. TypeOK'
  BY <1>1 DEF IInv, TypeOK
<1>4. LogInv'
  BY <1>1, <1>2, WorkFacts DEF LogInv
<1>5. StageInv'
  BY <1>1, <1>2 DEF IInv, StageInv
<1> QED
  BY <1>1, <1>2, <1>3, <1>4, <1>5 DEF IInv, FrameInv, AbortsWhenDue, ReturnMeansCommitted

(***************************************************************************)
(* transaction::abort, and an operation that fails.                        *)
(***************************************************************************)
LEMMA AbortStep ==
    ASSUME IInv, InBody, tx.stage = "WORK", tx' = pmemobj_tx_abort(tx, Depth), due' = TRUE,
           Throw, UNCHANGED <<frames, before, outcome, returned>>
    PROVE  IInv'
<1>1. /\ unwinding' = TRUE /\ frames' = frames /\ leaving' = leaving /\ ~leaving
      /\ before' = before /\ outcome' = outcome /\ due' = TRUE /\ returned' = returned
  BY DEF Throw, InBody, Running
<1>2. Depth' = Depth /\ Top' = Top
  BY <1>1 DEF Depth, Top
<1>3. tx \in TxRecords
  BY DEF IInv, TypeOK
<1>4. /\ Depth \in Nat \ {0} /\ outcome = "open" /\ Undone(tx) = before
      /\ ~returned
  BY WorkFacts
<1>5. /\ tx' \in TxRecords /\ tx'.stage = "ONABORT" /\ tx'.error
      /\ Depth = 1 => tx'.mem = Undone(tx) /\ tx'.undo = EmptyLog
      /\ Depth # 1 => tx'.mem = tx.mem /\ tx'.undo = tx.undo
  BY <1>3, <1>4, AbortEffect
<1>6. Undone(tx') = before
  <2>1. CASE Depth = 1
    BY <2>1, <1>4, <1>5, UndoneType
  <2>2. CASE Depth # 1
    BY <2>2, <1>4, <1>5 DEF Undone
  <2> QED BY <2>1, <2>2
<1>7. TypeOK'
  BY <1>1, <1>5 DEF IInv, TypeOK
<1>8. LogInv'
  BY <1>1, <1>2, <1>4, <1>5, <1>6 DEF LogInv
<1>9. StageInv'
  BY <1>1, <1>2, <1>4, <1>5 DEF StageInv
<1> QED
  BY <1>1, <1>2, <1>4, <1>7, <1>8, <1>9
  DEF IInv, FrameInv, AbortsWhenDue, ReturnMeansCommitted

(***************************************************************************)
(* transaction::commit, called by the body or when the body returned.      *)
(***************************************************************************)
LEMMA CommitStep ==
    ASSUME IInv, tx.stage = "WORK", tx' = pmemobj_tx_commit(tx, Depth), Commits,
           leaving' \in BOOLEAN, UNCHANGED <<frames, unwinding, before, due, returned>>
    PROVE  IInv'
<1>1. /\ unwinding' = unwinding /\ frames' = frames
      /\ before' = before /\ due' = due /\ returned' = returned
  OBVIOUS
<1>2. Depth' = Depth /\ Top' = Top
  BY <1>1 DEF Depth, Top
<1>3. tx \in TxRecords
  BY DEF IInv, TypeOK
<1>4. /\ Depth \in Nat \ {0} /\ outcome = "open" /\ Undone(tx) = before
      /\ ~due /\ ~tx.error /\ ~returned
  BY WorkFacts
<1>5. /\ tx' \in TxRecords /\ tx'.stage = "ONCOMMIT" /\ tx'.error = tx.error
      /\ tx'.mem = tx.mem /\ tx'.undo = IF Depth = 1 THEN EmptyLog ELSE tx.undo
  BY <1>3, <1>4, CommitEffect
<1>6. Depth # 1 => Undone(tx') = before
  BY <1>4, <1>5 DEF Undone
<1>7. outcome' = IF Depth = 1 THEN "committed" ELSE "open"
  BY <1>4 DEF Commits
<1>8. TypeOK'
  BY <1>1, <1>5, <1>7 DEF IInv, TypeOK
<1>9. LogInv'
  BY <1>1, <1>2, <1>4, <1>5, <1>6, <1>7 DEF LogInv
<1>10. StageInv'
  BY <1>1, <1>2, <1>4, <1>5, <1>7 DEF StageInv
<1> QED
  BY <1>1, <1>2, <1>4, <1>7, <1>8, <1>9, <1>10
  DEF IInv, FrameInv, AbortsWhenDue, ReturnMeansCommitted

(***************************************************************************)
(* A transaction begun whose lock could not be taken.                      *)
(***************************************************************************)
LEMMA LockFailsStep ==
    ASSUME IInv, NEW locks \in SUBSET Locks, begin_lock_fails(locks)
    PROVE  IInv'
<1> DEFINE b == pmemobj_tx_lock(pmemobj_tx_begin(tx, Depth), locks)
<1> DEFINE a == pmemobj_tx_abort(b, Depth + 1)
<1>1. /\ tx \in TxRecords /\ Depth \in Nat /\ ~leaving
      /\ tx' = pmemobj_tx_end(a, Depth + 1)
      /\ tx.stage = IF Depth = 0 THEN "NONE" ELSE "WORK"
  BY DEF IInv, TypeOK, StageInv, Depth, begin_lock_fails, Running
<1>2. /\ frames' = frames /\ leaving' = leaving /\ unwinding' = TRUE /\ due' = TRUE
      /\ before' = IF Depth = 0 THEN tx.mem ELSE before
      /\ outcome' = IF Depth = 0 THEN "aborted" ELSE outcome
  BY DEF begin_lock_fails, Throw, Opens
<1>3. Depth' = Depth /\ Top' = Top
  BY <1>2 DEF Depth, Top
<1>4. b \in TxRecords /\ b.mem = tx.mem /\ b.undo = tx.undo
  <2>1. NothingRan \in [CallbackStages -> 0 .. 1]
    BY DEF NothingRan
  <2> QED BY <1>1, <2>1 DEF pmemobj_tx_lock, pmemobj_tx_begin, TxRecords, CallbackStages
<1> HIDE DEF b
<1>5. Undone(b) = Undone(tx)
  BY <1>4 DEF Undone
<1>6. /\ a \in TxRecords /\ a.error
      /\ Depth = 0 => a.mem = Undone(b) /\ a.undo = EmptyLog
      /\ Depth # 0 => a.mem = b.mem /\ a.undo = b.undo
  <2>1. Depth + 1 \in Nat /\ (Depth + 1 = 1 <=> Depth = 0)
    BY <1>1
  <2> QED BY <1>4, <2>1, AbortEffect
<1> HIDE DEF a
<1>7. /\ tx' \in TxRecords
      /\ Depth = 0 => tx'.stage = "NONE" /\ tx'.mem = a.mem /\ tx'.undo = a.undo
      /\ Depth > 0 => tx'.stage = "ONABORT" /\ tx'.error
      /\ Depth = 1 => tx'.mem = Undone(a) /\ tx'.undo = EmptyLog
      /\ Depth > 1 => tx'.mem = a.mem /\ tx'.undo = a.undo
  <2>1. /\ Depth + 1 \in Nat \ {0} /\ (Depth + 1 = 1 <=> Depth = 0)
        /\ (Depth + 1 = 2 <=> Depth = 1) /\ (Depth + 1 > 2 <=> Depth > 1)
        /\ (Depth + 1 > 1 <=> Depth > 0)
    BY <1>1
  <2> QED BY <1>1, <1>6, <2>1, EndEffect
<1>8. Depth > 0 => outcome = "open" /\ Undone(tx) = before /\ ~returned
  BY <1>1, WorkFacts
<1>9. returned' = FALSE
  BY <1>8 DEF begin_lock_fails, Opens
<1>10. Depth > 0 => Undone(tx') = before
  <2>1. CASE Depth = 0
    BY <2>1
  <2>2. CASE Depth = 1
    <3>1. Undone(a) = Undone(tx)
      BY <2>2, <1>4, <1>6 DEF Undone
    <3> QED BY <2>2, <3>1, <1>7, <1>8, UndoneType
  <2>3. CASE Depth > 1
    <3>1. tx'.mem = tx.mem /\ tx'.undo = tx.undo
      BY <1>4, <1>6, <1>7, <2>3
    <3> QED BY <2>3, <3>1, <1>8 DEF Undone
  <2> QED BY <1>1, <2>1, <2>2, <2>3
<1>11. Depth = 0 => tx'.mem = tx.mem /\ tx'.undo = EmptyLog
  BY <1>1, <1>5, <1>6, <1>7, UndoneType DEF IInv, LogInv
<1>12. TypeOK'
  <2>1. tx.mem \in Memory
    BY <1>1 DEF TxRecords
  <2> QED BY <1>1, <1>2, <1>9, <1>7, <2>1 DEF IInv, TypeOK
<1>13. LogInv'
  BY <1>1, <1>2, <1>3, <1>7, <1>8, <1>10, <1>11 DEF LogInv
<1>14. StageInv'
  BY <1>1, <1>2, <1>3, <1>7, <1>8, <1>9 DEF StageInv
<1> QED
  BY <1>1, <1>2, <1>3, <1>8, <1>9, <1>12, <1>13, <1>14
  DEF IInv, FrameInv, AbortsWhenDue, ReturnMeansCommitted

(***************************************************************************)
(* The body of a scope returned.                                           *)
(***************************************************************************)
LEMMA ReturnStep ==
    ASSUME IInv, body_returns
    PROVE  IInv'
<1>1. /\ InBody /\ leaving' = TRUE /\ frames' = frames /\ before' = before
      /\ due' = due /\ returned' = returned
  BY DEF body_returns
<1>2. CASE Top.kind \in {"run", "automatic"} /\ tx.stage = "WORK"
  <2>1. tx' = pmemobj_tx_commit(tx, Depth) /\ Commits /\ unwinding' = unwinding
    BY <1>2 DEF body_returns, AutoCommit
  <2> QED BY <1>1, <1>2, <2>1, CommitStep
<1>3. CASE ~(Top.kind \in {"run", "automatic"} /\ tx.stage = "WORK")
  <2>1. /\ tx' = tx /\ outcome' = outcome /\ unwinding' \in BOOLEAN
        /\ Top.kind \in {"run", "automatic"} /\ tx.stage = "ONABORT" => unwinding'
    BY <1>3 DEF body_returns, AutoCommit, IInv, TypeOK
  <2>2. Undone(tx)' = Undone(tx) /\ Depth' = Depth /\ Top' = Top
    BY <1>1, <2>1 DEF Undone, Depth, Top
  <2>3. Depth \in Nat /\ Depth > 0 /\ Top.kind \in Kinds
    <3>1. frames \in Seq(Frames) /\ Len(frames) > 0
      BY <1>1 DEF IInv, TypeOK, InBody, Depth
    <3>2. Top \in Frames
      BY <3>1 DEF Top, Depth
    <3> QED BY <3>1, <3>2 DEF Depth, Frames
  <2>4. tx.stage \in {"WORK", "ONCOMMIT", "ONABORT"}
    BY <2>3 DEF IInv, TypeOK, TxRecords, CallbackStages, StageInv
  <2>5. TypeOK'
    BY <1>1, <2>1 DEF IInv, TypeOK
  <2>6. LogInv'
    BY <1>1, <2>1, <2>2 DEF IInv, LogInv
  <2>7. StageInv'
    <3>1. (leaving /\ Top.kind # "manual" =>
             tx.stage = "ONCOMMIT" \/ (tx.stage = "ONABORT" /\ unwinding))'
      BY <1>3, <2>1, <2>2, <2>3, <2>4 DEF Kinds
    <3> QED BY <1>1, <2>1, <2>2, <2>3, <3>1 DEF IInv, StageInv
  <2> QED
    BY <1>1, <2>1, <2>2, <2>5, <2>6, <2>7
    DEF IInv, FrameInv, AbortsWhenDue, ReturnMeansCommitted
<1> QED BY <1>2, <1>3

(***************************************************************************)
(* The destructor of the outermost scope.                                  *)
(***************************************************************************)
LEMMA DestroyOutermostStep ==
    ASSUME IInv, destroy_manual, Depth = 1
    PROVE  IInv'
<1> DEFINE ended == IF tx.stage # "WORK" THEN tx
                    ELSE IF CommitsNested(Top) THEN pmemobj_tx_commit(tx, Depth)
                    ELSE pmemobj_tx_abort(tx, Depth)
<1>1. /\ tx \in TxRecords /\ frames \in Seq(Frames)
      /\ tx' = pmemobj_tx_end(ended, Depth) /\ leaving' = FALSE
      /\ unwinding' = unwinding /\ before' = before /\ unwinding \in BOOLEAN
      /\ outcome' = IF outcome = "open" THEN "aborted" ELSE outcome
  BY DEF IInv, TypeOK, destroy_manual
<1>2. frames' \in Seq(Frames) /\ Depth' = 0
  BY <1>1, LeaveFrames DEF destroy_manual, Depth
<1>3. ~Top.nested
  BY DEF IInv, FrameInv, Top
<1>4. /\ tx.stage \in {"WORK", "ONCOMMIT", "ONABORT"} /\ outcome \in {"open", "committed"}
      /\ outcome = "committed" <=> tx.stage = "ONCOMMIT"
      /\ due <=> tx.stage = "ONABORT"
  BY <1>1 DEF IInv, TypeOK, TxRecords, CallbackStages, StageInv
<1>5. /\ ended \in TxRecords /\ ended.undo = EmptyLog
      /\ tx.stage # "ONCOMMIT" => ended.mem = before
  <2>1. CASE tx.stage = "WORK"
    <3>1. ended = pmemobj_tx_abort(tx, 1)
      BY <2>1, <1>3 DEF CommitsNested
    <3> HIDE DEF ended
    <3> QED BY <2>1, <3>1, <1>1, AbortEffect, WorkFacts
  <2>2. CASE tx.stage # "WORK"
    <3>1. ended = tx /\ tx.undo = EmptyLog
      BY <2>2 DEF IInv, LogInv
    <3> HIDE DEF ended
    <3>2. tx.stage # "ONCOMMIT" => Undone(tx) = before
      BY <1>4 DEF IInv, LogInv
    <3> QED BY <3>1, <3>2, <1>1, UndoneType
  <2> QED BY <2>1, <2>2
<1> HIDE DEF ended
<1>6. tx' \in TxRecords /\ tx'.stage = "NONE" /\ tx'.mem = ended.mem /\ tx'.undo = EmptyLog
  BY <1>1, <1>5, EndEffect
<1>7. due' \in BOOLEAN /\ (due' <=> tx.stage # "ONCOMMIT")
  <2>1. due' = (due \/ LeftUncommitted)
    BY DEF destroy_manual
  <2>2. CASE tx.stage = "WORK"
    <3>1. LeftUncommitted
      BY <2>2 DEF LeftUncommitted, IInv, StageInv
    <3> QED BY <2>1, <2>2, <3>1, Zenon
  <2>3. CASE tx.stage = "ONABORT"
    BY <1>4, <2>1, <2>3
  <2>4. CASE tx.stage = "ONCOMMIT"
    <3>1. ~due /\ ~LeftUncommitted
      BY <1>4, <2>4 DEF LeftUncommitted
    <3> QED BY <2>1, <2>4, <3>1
  <2> QED BY <1>4, <2>2, <2>3, <2>4
<1>8. returned' \in BOOLEAN /\ (returned' => tx.stage = "ONCOMMIT")
  <2>1. returned' = (~unwinding /\ Top.kind # "manual")
    BY DEF destroy_manual
  <2>2. ~unwinding /\ Top.kind # "manual" => tx.stage = "ONCOMMIT"
    BY DEF destroy_manual, IInv, StageInv
  <2> QED BY <2>1, <2>2
<1>9. TypeOK'
  BY <1>1, <1>2, <1>4, <1>6, <1>7, <1>8 DEF IInv, TypeOK
<1>10. LogInv'
  BY <1>1, <1>2, <1>4, <1>5, <1>6 DEF LogInv
<1>11. StageInv'
  BY <1>1, <1>2, <1>4, <1>6 DEF StageInv
<1>12. FrameInv'
  BY <1>2 DEF FrameInv
<1> QED
  BY <1>1, <1>4, <1>7, <1>8, <1>9, <1>10, <1>11, <1>12
  DEF IInv, AbortsWhenDue, ReturnMeansCommitted

(***************************************************************************)
(* The destructor of a nested scope.                                       *)
(***************************************************************************)
LEMMA DestroyNestedStep ==
    ASSUME IInv, destroy_manual, Depth > 1
    PROVE  IInv'
<1> DEFINE ended == IF tx.stage # "WORK" THEN tx
                    ELSE IF CommitsNested(Top) THEN pmemobj_tx_commit(tx, Depth)
                    ELSE pmemobj_tx_abort(tx, Depth)
<1>1. /\ tx \in TxRecords /\ frames \in Seq(Frames) /\ Depth \in Nat
      /\ tx' = pmemobj_tx_end(ended, Depth) /\ leaving' = FALSE
      /\ unwinding' = unwinding /\ before' = before /\ outcome' = outcome
      /\ unwinding \in BOOLEAN /\ returned' = FALSE
  <2>1. tx \in TxRecords /\ frames \in Seq(Frames) /\ unwinding \in BOOLEAN
    BY DEF IInv, TypeOK
  <2>2. Depth \in Nat /\ Depth # 1
    BY <2>1 DEF Depth
  <2> QED BY <2>1, <2>2 DEF destroy_manual
<1>2. /\ frames' \in Seq(Frames) /\ Depth' = Depth - 1
      /\ \A i \in 1 .. Depth - 1 : frames'[i] = frames[i]
  BY <1>1, LeaveFrames DEF destroy_manual, Depth
<1>3. Top.nested
  BY <1>1 DEF IInv, FrameInv, Top
<1>4. /\ tx.stage \in {"WORK", "ONCOMMIT", "ONABORT"} /\ outcome = "open"
      /\ Undone(tx) = before
      /\ (due <=> tx.stage = "ONABORT") /\ (tx.error <=> tx.stage = "ONABORT")
  BY <1>1 DEF IInv, TypeOK, TxRecords, CallbackStages, StageInv, LogInv
<1>5. /\ due' \in BOOLEAN
      /\ due' <=> tx.stage = "ONABORT" \/ (tx.stage = "WORK" /\ ~Top.is_flat)
  <2>1. due' = (due \/ (LeftUncommitted /\ ~Top.is_flat))
    BY <1>1 DEF destroy_manual
  <2>2. tx.stage = "WORK" => LeftUncommitted
    BY DEF LeftUncommitted, IInv, StageInv
  <2>3. tx.stage = "ONCOMMIT" => ~LeftUncommitted
    BY DEF LeftUncommitted
  <2> QED BY <1>4, <2>1, <2>2, <2>3
<1>6. /\ ended \in TxRecords /\ ended.mem = tx.mem /\ ended.undo = tx.undo
      /\ ended.error <=> due'
  <2>1. CASE tx.stage = "WORK" /\ Top.is_flat
    <3>1. ended = pmemobj_tx_commit(tx, Depth)
      BY <2>1, <1>3 DEF CommitsNested
    <3> HIDE DEF ended
    <3> QED BY <2>1, <3>1, <1>1, <1>4, <1>5, CommitEffect
  <2>2. CASE tx.stage = "WORK" /\ ~Top.is_flat
    <3>1. ended = pmemobj_tx_abort(tx, Depth)
      BY <2>2 DEF CommitsNested
    <3> HIDE DEF ended
    <3> QED BY <2>2, <3>1, <1>1, <1>5, AbortEffect
  <2>3. CASE tx.stage # "WORK"
    <3>1. ended = tx
      BY <2>3
    <3> HIDE DEF ended
    <3> QED BY <2>3, <3>1, <1>1, <1>4, <1>5
  <2> QED BY <2>1, <2>2, <2>3
<1> HIDE DEF ended
<1>7. Undone(ended) = before
  BY <1>4, <1>6 DEF Undone
<1>8. /\ tx' \in TxRecords
      /\ ~due' => tx'.stage = "WORK" /\ ~tx'.error /\ tx'.mem = tx.mem /\ tx'.undo = tx.undo
      /\ due' => tx'.stage = "ONABORT" /\ tx'.error
      /\ Depth = 2 /\ due' => tx'.mem = before /\ tx'.undo = EmptyLog
      /\ Depth > 2 /\ due' => tx'.mem = tx.mem /\ tx'.undo = tx.undo
  BY <1>1, <1>6, <1>7, EndEffect
<1>9. Undone(tx') = before
  <2>1. CASE Depth = 2 /\ due'
    BY <2>1, <1>8, UndoneType
  <2>2. CASE ~(Depth = 2 /\ due')
    <3>1. tx'.mem = tx.mem /\ tx'.undo = tx.undo
      BY <2>2, <1>1, <1>8
    <3> QED BY <3>1, <1>4 DEF Undone
  <2> QED BY <2>1, <2>2
<1>10. TypeOK'
  BY <1>1, <1>2, <1>5, <1>8 DEF IInv, TypeOK
<1>11. LogInv'
  BY <1>1, <1>2, <1>4, <1>8, <1>9 DEF LogInv
<1>12. StageInv'
  BY <1>1, <1>2, <1>4, <1>8 DEF StageInv
<1>13. FrameInv'
  BY <1>1, <1>2 DEF IInv, FrameInv
<1> QED
  BY <1>1, <1>4, <1>10, <1>11, <1>12, <1>13
  DEF IInv, AbortsWhenDue, ReturnMeansCommitted

(***************************************************************************)
(* A crash, and the recovery.                                              *)
(***************************************************************************)
LEMMA CrashStep ==
    ASSUME IInv, Crash
    PROVE  IInv'
<1>1. tx \in TxRecords /\ Undone(tx) \in Memory
  BY UndoneType DEF IInv, TypeOK
<1>2. /\ tx' \in TxRecords /\ tx'.stage = "NONE" /\ tx'.mem = Undone(tx)
      /\ tx'.undo = EmptyLog
  <2>1. EmptyLog \in [Cells -> Values \cup {NoSnapshot}]
    BY DEF EmptyLog
  <2>2. NothingRan \in [CallbackStages -> 0 .. 1]
    BY DEF NothingRan
  <2> QED BY <1>1, <2>1, <2>2 DEF Crash, Recovered, TxRecords
<1>3. /\ frames' = << >> /\ frames' \in Seq(Frames) /\ Depth' = 0
      /\ unwinding' = FALSE /\ leaving' = FALSE /\ returned' = FALSE /\ before' = before
      /\ outcome' = IF outcome = "open" THEN "aborted" ELSE outcome
  BY DEF Crash, Depth
<1>4. due' \in BOOLEAN /\ (due' <=> due \/ outcome = "open")
  BY DEF Crash
<1>5. outcome' = "aborted" => Undone(tx) = before
  <2>1. CASE outcome = "open"
    BY <2>1 DEF IInv, LogInv
  <2>2. CASE outcome = "aborted"
    <3>1. Depth = 0
      <4>1. Depth \in Nat
        BY DEF IInv, TypeOK, Depth
      <4> QED BY <2>2, <4>1 DEF IInv, StageInv
    <3> QED BY <2>2, <3>1, <1>1, UndoneType DEF IInv, LogInv
  <2> QED BY <1>3, <2>1, <2>2
<1>6. TypeOK'
  BY <1>2, <1>3, <1>4 DEF IInv, TypeOK
<1>7. LogInv'
  BY <1>2, <1>3, <1>5 DEF LogInv
<1>8. StageInv'
  BY <1>2, <1>3 DEF StageInv
<1>9. FrameInv'
  BY <1>3 DEF FrameInv
<1> QED
  BY <1>3, <1>4, <1>6, <1>7, <1>8, <1>9 DEF IInv, AbortsWhenDue, ReturnMeansCommitted

(***************************************************************************)
(* One step per action.  assign is undone by the undo log as long as the   *)
(* application does not assign after an abort.                             *)
(***************************************************************************)
LEMMA NextIInv ==
    ASSUME ~WriteAfterAbort, IInv, [Next]_vars
    PROVE  IInv'
<1>1. tx \in TxRecords
  BY DEF IInv, TypeOK
<1>2. ASSUME NEW kind \in Kinds, NEW is_flat \in BOOLEAN, NEW locks \in SUBSET Locks,
             begin(kind, is_flat, locks)
      PROVE  IInv'
  BY <1>2, BeginStep
<1>3. ASSUME NEW locks \in SUBSET Locks, begin_lock_fails(locks)
      PROVE  IInv'
  BY <1>3, LockFailsStep
<1>4. CASE begin_wrong_stage \/ WrongStage \/ throw
  BY <1>4, ExceptionStep DEF begin_wrong_stage, WrongStage, throw, Throw, InBody, Running
<1>5. CASE operation_fails
  <2>1. CASE Top.failure_return
    BY <1>5, <2>1, ExceptionStep DEF operation_fails, Throw, InBody, Running, historyVars
  <2>2. CASE ~Top.failure_return
    BY <1>5, <2>2, AbortStep DEF operation_fails
  <2> QED BY <2>1, <2>2
<1>6. ASSUME NEW c \in Cells, NEW v \in Values, assign(c, v)
      PROVE  IInv'
  <2> DEFINE r == pmemobj_tx_add_range(tx, c)
  <2>1. tx.stage = "WORK" /\ tx' = [r EXCEPT !.mem[c] = v]
    BY <1>6 DEF assign, conditional_add_to_tx
  <2>2. /\ r \in TxRecords /\ r.stage = tx.stage /\ r.error = tx.error
        /\ Undone(r) = Undone(tx) /\ r.undo[c] # NoSnapshot
    BY <1>1, SnapshotEffect
  <2> HIDE DEF r
  <2>3. /\ tx' \in TxRecords /\ tx'.stage = tx.stage /\ tx'.error = tx.error
        /\ Undone(tx') = Undone(tx)
    BY <2>1, <2>2, StoreEffect
  <2> QED BY <1>6, <2>1, <2>3, BodyStep DEF assign
<1>7. ASSUME NEW c \in Cells, snapshot(c)
      PROVE  IInv'
  <2>1. /\ tx' \in TxRecords /\ tx'.stage = tx.stage /\ tx'.error = tx.error
        /\ Undone(tx') = Undone(tx)
    BY <1>1, <1>7, SnapshotEffect DEF snapshot
  <2> QED BY <1>7, <2>1, BodyStep DEF snapshot
<1>8. ASSUME NEW stage \in CallbackStages, register_callback(stage)
      PROVE  IInv'
  <2>1. /\ tx' \in TxRecords /\ tx'.stage = tx.stage /\ tx'.error = tx.error
        /\ tx'.mem = tx.mem /\ tx'.undo = tx.undo
    BY <1>1, <1>8 DEF register_callback, TxRecords
  <2>2. Undone(tx') = Undone(tx)
    BY <2>1 DEF Undone
  <2> QED BY <1>8, <2>1, <2>2, BodyStep DEF register_callback
<1>9. CASE abort
  BY <1>9, AbortStep DEF abort
<1>10. CASE commit
  BY <1>10, CommitStep DEF commit, InBody, Running, IInv, TypeOK
<1>11. CASE catch
  BY <1>11, ExceptionStep DEF catch
<1>12. CASE body_returns
  BY <1>12, ReturnStep
<1>13. CASE destroy_manual
  <2>1. Depth = 1 \/ Depth > 1
    <3>1. Depth \in Nat
      BY DEF IInv, TypeOK, Depth
    <3> QED BY <1>13, <3>1 DEF destroy_manual
  <2> QED BY <1>13, <2>1, DestroyOutermostStep, DestroyNestedStep
<1>14. CASE Crash
  BY <1>14, CrashStep
<1>15. CASE UNCHANGED vars
  BY <1>15
  DEF vars, historyVars, IInv, TypeOK, LogInv, StageInv, FrameInv, AbortsWhenDue,
      ReturnMeansCommitted, Undone, Depth, Top
<1> QED
  BY <1>2, <1>3, <1>4, <1>5, <1>6, <1>7, <1>8, <1>9, <1>10, <1>11, <1>12, <1>13, <1>14,
     <1>15
  DEF Next

-----------------------------------------------------------------------------
(* The callbacks. *)

\* What is not registered has not been called, until the tx_data is deleted.
CallbackInv ==
    /\ CallbacksMatchOutcome
    /\ Depth > 0 => \A s \in CallbackStages : tx.ran[s] = 1 => s \in tx.registered

\* t.ran after the stages S have been entered.
RanAfter(t, S) ==
    [s \in CallbackStages |-> IF s \in S /\ s \in t.registered THEN 1 ELSE t.ran[s]]

(***************************************************************************)
(* c_callback and the calls of libpmemobj: which callbacks they call.      *)
(***************************************************************************)
LEMMA CallbackCalls ==
    ASSUME NEW t \in TxRecords, NEW s \in CallbackStages
    PROVE  LET r == c_callback(t, s)
           IN  /\ r.ran = RanAfter(t, {s})
               /\ r.registered = IF s = "FINALLY" THEN {} ELSE t.registered
<1>1. t.ran \in [CallbackStages -> 0 .. 1] /\ t.registered \in SUBSET CallbackStages
  BY DEF TxRecords
<1>2. c_callback(t, s).ran = [t.ran EXCEPT ![s] = IF s \in t.registered THEN 1 ELSE @]
  BY DEF c_callback, TxRecords
<1>3. c_callback(t, s).registered = IF s = "FINALLY" THEN {} ELSE t.registered
  BY DEF c_callback, TxRecords
<1> QED BY <1>1, <1>2, <1>3 DEF RanAfter

LEMMA AbortCalls ==
    ASSUME NEW t \in TxRecords, NEW d \in Nat
    PROVE  LET r == pmemobj_tx_abort(t, d)
           IN  /\ r.registered = t.registered
               /\ r.ran = IF d = 1 THEN RanAfter(t, {"ONABORT"}) ELSE t.ran
<1> DEFINE a == [t EXCEPT !.stage = "ONABORT", !.error = TRUE]
<1> DEFINE b == [a EXCEPT !.mem = Undone(t), !.undo = EmptyLog]
<1>1. a \in TxRecords /\ a.registered = t.registered /\ a.ran = t.ran
  BY DEF TxRecords, CallbackStages
<1>2. EmptyLog \in [Cells -> Values \cup {NoSnapshot}]
  BY DEF EmptyLog
<1>3. b \in TxRecords /\ b.registered = t.registered /\ b.ran = t.ran
  BY <1>1, <1>2, UndoneType DEF TxRecords
<1>4. "ONABORT" \in CallbackStages
  BY DEF CallbackStages
<1>5. pmemobj_tx_abort(t, d) = IF d = 1 THEN c_callback(b, "ONABORT") ELSE a
  BY DEF pmemobj_tx_abort
<1> HIDE DEF a, b
<1>6. RanAfter(b, {"ONABORT"}) = RanAfter(t, {"ONABORT"})
  BY <1>3 DEF RanAfter
<1> QED BY <1>1, <1>3, <1>4, <1>5, <1>6, CallbackCalls

LEMMA CommitCalls ==
    ASSUME NEW t \in TxRecords, NEW d \in Nat
    PROVE  LET r == pmemobj_tx_commit(t, d)
           IN  /\ r.registered = t.registered
               /\ r.ran = IF d = 1 THEN RanAfter(t, {"WORK", "ONCOMMIT"}) ELSE t.ran
<1> DEFINE w == c_callback(t, "WORK")
<1> DEFINE a == [w EXCEPT !.stage = "ONCOMMIT", !.undo = EmptyLog]
<1> DEFINE b == [t EXCEPT !.stage = "ONCOMMIT"]
<1>1. w \in TxRecords /\ w.ran = RanAfter(t, {"WORK"}) /\ w.registered = t.registered
  BY CallbackEffect, CallbackCalls DEF CallbackStages
<1>2. EmptyLog \in [Cells -> Values \cup {NoSnapshot}]
  BY DEF EmptyLog
<1>3. pmemobj_tx_commit(t, d) = IF d = 1 THEN c_callback(a, "ONCOMMIT") ELSE b
  BY DEF pmemobj_tx_commit
<1> HIDE DEF w
<1>4. a \in TxRecords /\ a.ran = w.ran /\ a.registered = w.registered
  BY <1>1, <1>2 DEF TxRecords, CallbackStages
<1>5. b.ran = t.ran /\ b.registered = t.registered
  BY DEF TxRecords
<1>6. "ONCOMMIT" \in CallbackStages
  BY DEF CallbackStages
<1> HIDE DEF a, b
<1>7. RanAfter(a, {"ONCOMMIT"}) = RanAfter(t, {"WORK", "ONCOMMIT"})
  BY <1>1, <1>4 DEF RanAfter
<1> QED BY <1>1, <1>3, <1>4, <1>5, <1>6, <1>7, CallbackCalls

LEMMA EndCalls ==
    ASSUME NEW t \in TxRecords, NEW d \in Nat \ {0}
    PROVE  LET r == pmemobj_tx_end(t, d)
           IN  /\ d = 1 => r.registered = {} /\ r.ran = RanAfter(t, {"FINALLY"})
               /\ d > 1 => r.registered = t.registered
               /\ d = 2 /\ t.error => r.ran = RanAfter(t, {"ONABORT"})
               /\ d > 2 \/ (d = 2 /\ ~t.error) => r.ran = t.ran
<1> DEFINE f == c_callback(t, "FINALLY")
<1> DEFINE a == [f EXCEPT !.stage = "NONE", !.locks = {}]
<1> DEFINE b == [t EXCEPT !.stage = "WORK"]
<1>1. f \in TxRecords /\ f.registered = {} /\ f.ran = RanAfter(t, {"FINALLY"})
  BY CallbackEffect, CallbackCalls DEF CallbackStages
<1>2. pmemobj_tx_end(t, d) = IF d = 1 THEN a
                             ELSE IF t.error THEN pmemobj_tx_abort(b, d - 1) ELSE b
  BY DEF pmemobj_tx_end
<1> HIDE DEF f
<1>3. a.registered = f.registered /\ a.ran = f.ran
  BY <1>1 DEF TxRecords
<1>4. b \in TxRecords /\ b.registered = t.registered /\ b.ran = t.ran
  BY DEF TxRecords, CallbackStages
<1>5. RanAfter(b, {"ONABORT"}) = RanAfter(t, {"ONABORT"})
  BY <1>4 DEF RanAfter
<1> HIDE DEF a, b
<1>6. d - 1 \in Nat /\ (d - 1 = 1 <=> d = 2)
  OBVIOUS
<1> QED BY <1>1, <1>2, <1>3, <1>4, <1>5, <1>6, AbortCalls

(***************************************************************************)
(* Before the outermost transaction commits or aborts no callback has been *)
(* called.                                                                 *)
(***************************************************************************)
LEMMA NothingCalledYet ==
    ASSUME IInv, CallbackInv, Depth > 0, outcome # "committed",
           ~(Depth = 1 /\ tx.stage = "ONABORT")
    PROVE  \A s \in CallbackStages : tx.ran[s] = 0
<1>1. tx.ran \in [CallbackStages -> 0 .. 1]
  BY DEF IInv, TypeOK, TxRecords
<1>2. \A s \in CallbackStages : tx.ran[s] # 1
  BY DEF CallbackInv, CallbacksMatchOutcome
<1> QED BY <1>1, <1>2

(***************************************************************************)
(* The states a step may lead to: nothing was called yet; the outermost    *)
(* transaction has just aborted; it has just committed; it is over.        *)
(***************************************************************************)
LEMMA StillOpen ==
    ASSUME Depth' > 0, outcome' # "committed", ~(Depth' = 1 /\ tx'.stage = "ONABORT"),
           \A s \in CallbackStages : tx'.ran[s] = 0, tx'.registered \subseteq CallbackStages
    PROVE  CallbackInv'
<1>1. \A s \in tx'.registered : tx'.ran[s] = 0
  OBVIOUS
<1>2. /\ tx'.ran["WORK"] = 0 /\ tx'.ran["ONCOMMIT"] = 0
      /\ tx'.ran["ONABORT"] = 0 /\ tx'.ran["FINALLY"] = 0
  BY DEF CallbackStages
<1>3. Depth' # 0
  OBVIOUS
<1> QED BY <1>1, <1>2, <1>3 DEF CallbackInv, CallbacksMatchOutcome

LEMMA JustAborted ==
    ASSUME Depth' = 1, outcome' # "committed", tx'.stage = "ONABORT", tx'.mem = before',
           tx'.registered \subseteq CallbackStages,
           \A s \in CallbackStages :
              tx'.ran[s] = IF s = "ONABORT" /\ s \in tx'.registered THEN 1 ELSE 0
    PROVE  CallbackInv'
<1>1. tx'.ran["WORK"] = 0 /\ tx'.ran["ONCOMMIT"] = 0 /\ tx'.ran["FINALLY"] = 0
  BY DEF CallbackStages
<1>2. \A s \in tx'.registered : tx'.ran[s] = IF s = "ONABORT" THEN 1 ELSE 0
  OBVIOUS
<1> QED BY <1>1, <1>2 DEF CallbackInv, CallbacksMatchOutcome

LEMMA JustCommitted ==
    ASSUME Depth' = 1, outcome' = "committed", tx'.stage = "ONCOMMIT",
           tx'.registered \subseteq CallbackStages,
           \A s \in CallbackStages :
              tx'.ran[s] = IF s \in {"WORK", "ONCOMMIT"} /\ s \in tx'.registered THEN 1 ELSE 0
    PROVE  CallbackInv'
<1>1. tx'.ran["ONABORT"] = 0 /\ tx'.ran["FINALLY"] = 0
  BY DEF CallbackStages
<1>2. \A s \in tx'.registered : tx'.ran[s] = IF s \in {"WORK", "ONCOMMIT"} THEN 1 ELSE 0
  OBVIOUS
<1> QED BY <1>1, <1>2 DEF CallbackInv, CallbacksMatchOutcome

LEMMA Over ==
    ASSUME Depth' = 0, tx'.registered = {},
           tx'.ran["WORK"] + tx'.ran["ONCOMMIT"] > 0 => outcome' = "committed",
           tx'.ran["ONABORT"] = 1 => outcome' # "committed" /\ tx'.mem = before'
    PROVE  CallbackInv'
BY DEF CallbackInv, CallbacksMatchOutcome

(***************************************************************************)
(* A transaction that opens.                                               *)
(***************************************************************************)
LEMMA BeginCalls ==
    ASSUME IInv, IInv', CallbackInv, NEW kind \in Kinds, NEW is_flat \in BOOLEAN,
           NEW locks \in SUBSET Locks, begin(kind, is_flat, locks)
    PROVE  CallbackInv'
<1> DEFINE b == pmemobj_tx_begin(tx, Depth)
<1>1. tx \in TxRecords /\ tx' \in TxRecords /\ Depth \in Nat /\ frames \in Seq(Frames)
  BY DEF IInv, TypeOK, Depth
<1>2. tx' = pmemobj_tx_lock(b, locks) /\ tx.stage \in {"WORK", "NONE"}
  BY DEF begin
<1>3. \A s \in CallbackStages : b.ran[s] = 0
  <2>1. CASE Depth = 0
    BY <1>1, <2>1 DEF pmemobj_tx_begin, NothingRan, TxRecords
  <2>2. CASE Depth # 0
    <3>1. b = tx /\ tx.stage = "WORK"
      BY <1>1, <1>2, <2>2 DEF pmemobj_tx_begin, IInv, StageInv
    <3> QED BY <1>1, <2>2, <3>1, WorkFacts, NothingCalledYet
  <2> QED BY <2>1, <2>2
<1>4. b \in TxRecords /\ b.stage = "WORK"
  <2>1. CASE Depth = 0
    <3>1. NothingRan \in [CallbackStages -> 0 .. 1]
      BY DEF NothingRan
    <3> QED BY <1>1, <2>1, <3>1 DEF pmemobj_tx_begin, TxRecords, CallbackStages
  <2>2. CASE Depth # 0
    BY <1>1, <1>2, <2>2 DEF pmemobj_tx_begin, IInv, StageInv
  <2> QED BY <2>1, <2>2
<1> HIDE DEF b
<1>5. tx'.ran = b.ran /\ tx'.stage = "WORK"
  BY <1>2, <1>4 DEF pmemobj_tx_lock, TxRecords
<1>6. outcome' = "open"
  BY <1>1, <1>2, WorkFacts DEF begin, Opens, IInv, StageInv
<1>7. Depth' > 0
  <2>1. Depth' \in Nat
    BY DEF IInv, TypeOK, Depth
  <2> QED BY <1>5, <2>1 DEF IInv, StageInv
<1>8. tx'.registered \subseteq CallbackStages
  BY <1>1 DEF TxRecords
<1> QED BY <1>3, <1>5, <1>6, <1>7, <1>8, StillOpen

(***************************************************************************)
(* Steps of the body in stage WORK, which may register a callback.         *)
(***************************************************************************)
LEMMA BodyCalls ==
    ASSUME IInv, IInv', CallbackInv, tx.stage = "WORK", tx'.stage = "WORK",
           tx'.ran = tx.ran, UNCHANGED <<frames, outcome>>
    PROVE  CallbackInv'
<1>1. \A s \in CallbackStages : tx.ran[s] = 0
  BY WorkFacts, NothingCalledYet
<1>2. Depth' = Depth /\ tx'.registered \subseteq CallbackStages
  BY DEF Depth, IInv, TypeOK, TxRecords
<1> QED BY <1>1, <1>2, WorkFacts, StillOpen

(***************************************************************************)
(* transaction::abort, and an operation that fails.                        *)
(***************************************************************************)
LEMMA AbortStepCalls ==
    ASSUME IInv, IInv', CallbackInv, tx.stage = "WORK", tx' = pmemobj_tx_abort(tx, Depth),
           UNCHANGED <<frames, before, outcome>>
    PROVE  CallbackInv'
<1>1. /\ \A s \in CallbackStages : tx.ran[s] = 0
      /\ Depth \in Nat \ {0} /\ outcome = "open" /\ Undone(tx) = before
  BY WorkFacts, NothingCalledYet
<1>2. Depth' = Depth /\ tx \in TxRecords /\ tx'.registered \subseteq CallbackStages
  BY DEF Depth, IInv, TypeOK, TxRecords
<1>3. /\ tx'.stage = "ONABORT" /\ tx'.registered = tx.registered
      /\ Depth = 1 => tx'.mem = Undone(tx) /\ tx'.ran = RanAfter(tx, {"ONABORT"})
      /\ Depth # 1 => tx'.ran = tx.ran
  BY <1>1, <1>2, AbortEffect, AbortCalls
<1>4. CASE Depth = 1
  <2>1. \A s \in CallbackStages :
           tx'.ran[s] = IF s = "ONABORT" /\ s \in tx'.registered THEN 1 ELSE 0
    BY <1>1, <1>3, <1>4 DEF RanAfter
  <2> QED BY <1>1, <1>2, <1>3, <1>4, <2>1, JustAborted
<1>5. CASE Depth # 1
  BY <1>1, <1>2, <1>3, <1>5, StillOpen
<1> QED BY <1>4, <1>5

(***************************************************************************)
(* transaction::commit, called by the body or when the body returned.      *)
(***************************************************************************)
LEMMA CommitStepCalls ==
    ASSUME IInv, IInv', CallbackInv, tx.stage = "WORK", tx' = pmemobj_tx_commit(tx, Depth),
           Commits, UNCHANGED frames
    PROVE  CallbackInv'
<1>1. /\ \A s \in CallbackStages : tx.ran[s] = 0
      /\ Depth \in Nat \ {0} /\ outcome = "open"
  BY WorkFacts, NothingCalledYet
<1>2. Depth' = Depth /\ tx \in TxRecords /\ tx'.registered \subseteq CallbackStages
  BY DEF Depth, IInv, TypeOK, TxRecords
<1>3. /\ tx'.stage = "ONCOMMIT" /\ tx'.registered = tx.registered
      /\ tx'.ran = IF Depth = 1 THEN RanAfter(tx, {"WORK", "ONCOMMIT"}) ELSE tx.ran
  BY <1>1, <1>2, CommitEffect, CommitCalls
<1>4. outcome' = IF Depth = 1 THEN "committed" ELSE "open"
  BY <1>1 DEF Commits
<1>5. CASE Depth = 1
  <2>1. \A s \in CallbackStages :
           tx'.ran[s] = IF s \in {"WORK", "ONCOMMIT"} /\ s \in tx'.registered THEN 1 ELSE 0
    BY <1>1, <1>3, <1>5 DEF RanAfter
  <2> QED BY <1>2, <1>3, <1>4, <1>5, <2>1, JustCommitted
<1>6. CASE Depth # 1
  BY <1>1, <1>2, <1>3, <1>4, <1>6, StillOpen
<1> QED BY <1>5, <1>6

(***************************************************************************)
(* A transaction begun whose lock could not be taken.                      *)
(***************************************************************************)
LEMMA LockFailsCalls ==
    ASSUME IInv, IInv', CallbackInv, NEW locks \in SUBSET Locks, begin_lock_fails(locks)
    PROVE  CallbackInv'
<1> DEFINE b == pmemobj_tx_lock(pmemobj_tx_begin(tx, Depth), locks)
<1> DEFINE a == pmemobj_tx_abort(b, Depth + 1)
<1>1. /\ tx \in TxRecords /\ Depth \in Nat /\ tx' = pmemobj_tx_end(a, Depth + 1)
      /\ tx.stage = IF Depth = 0 THEN "NONE" ELSE "WORK"
      /\ Depth' = Depth /\ tx'.registered \subseteq CallbackStages
  BY DEF IInv, TypeOK, StageInv, Depth, begin_lock_fails, Running, TxRecords
<1>2. /\ b \in TxRecords /\ b.registered = tx.registered
      /\ b.ran = IF Depth = 0 THEN NothingRan ELSE tx.ran
  <2>1. NothingRan \in [CallbackStages -> 0 .. 1]
    BY DEF NothingRan
  <2> QED BY <1>1, <2>1 DEF pmemobj_tx_lock, pmemobj_tx_begin, TxRecords, CallbackStages
<1> HIDE DEF b
<1>3. \A s \in CallbackStages : b.ran[s] = 0
  <2>1. CASE Depth = 0
    BY <1>2, <2>1 DEF NothingRan
  <2>2. CASE Depth # 0
    BY <1>1, <1>2, <2>2, WorkFacts, NothingCalledYet
  <2> QED BY <2>1, <2>2
<1>4. Depth = 0 => tx.registered = {}
  BY DEF CallbackInv, CallbacksMatchOutcome
<1>5. /\ a \in TxRecords /\ a.error /\ a.registered = tx.registered
      /\ \A s \in CallbackStages : a.ran[s] = 0
  <2>1. Depth + 1 \in Nat /\ (Depth + 1 = 1 <=> Depth = 0)
    BY <1>1
  <2>2. /\ a \in TxRecords /\ a.error /\ a.registered = b.registered
        /\ a.ran = IF Depth = 0 THEN RanAfter(b, {"ONABORT"}) ELSE b.ran
    BY <1>2, <2>1, AbortEffect, AbortCalls
  <2> HIDE DEF a
  <2>3. \A s \in CallbackStages : a.ran[s] = 0
    BY <1>2, <1>3, <1>4, <2>2 DEF RanAfter
  <2> QED BY <1>2, <2>2, <2>3
<1> HIDE DEF a
<1>6. /\ Depth + 1 \in Nat \ {0} /\ (Depth + 1 = 1 <=> Depth = 0)
      /\ (Depth + 1 = 2 <=> Depth = 1) /\ (Depth + 1 > 2 <=> Depth > 1)
      /\ (Depth + 1 > 1 <=> Depth > 0)
  BY <1>1
<1>7. /\ Depth = 0 => tx'.registered = {} /\ tx'.ran = RanAfter(a, {"FINALLY"})
      /\ Depth > 0 => tx'.registered = a.registered /\ tx'.stage = "ONABORT"
      /\ Depth = 1 => tx'.ran = RanAfter(a, {"ONABORT"})
      /\ Depth > 1 => tx'.ran = a.ran
  BY <1>1, <1>5, <1>6, EndCalls, EndEffect, SMTT(30)
<1>8. CASE Depth = 0
  <2>1. tx'.ran["WORK"] = 0 /\ tx'.ran["ONCOMMIT"] = 0 /\ tx'.ran["ONABORT"] = 0
    BY <1>5, <1>7, <1>8 DEF RanAfter, CallbackStages
  <2> QED BY <1>1, <1>7, <1>8, <2>1, Over
<1>9. CASE Depth = 1
  <2>1. \A s \in CallbackStages :
           tx'.ran[s] = IF s = "ONABORT" /\ s \in tx'.registered THEN 1 ELSE 0
    BY <1>5, <1>7, <1>9 DEF RanAfter
  <2>2. outcome' = "open" /\ outcome = "open"
    BY <1>1, <1>9, WorkFacts DEF begin_lock_fails, Opens
  <2>3. tx'.mem = before'
    <3>1. tx'.undo = EmptyLog /\ Undone(tx') = before' /\ tx' \in TxRecords
      BY <1>1, <1>7, <1>9, <2>2 DEF IInv, TypeOK, LogInv
    <3> QED BY <3>1, UndoneType
  <2> QED BY <1>1, <1>7, <1>9, <2>1, <2>2, <2>3, JustAborted
<1>10. CASE Depth > 1
  <2>1. outcome' = "open"
    BY <1>1, <1>10, WorkFacts DEF begin_lock_fails, Opens
  <2> QED BY <1>1, <1>5, <1>7, <1>10, <2>1, StillOpen
<1> QED BY <1>1, <1>8, <1>9, <1>10

(***************************************************************************)
(* The destructor of the outermost scope.                                  *)
(***************************************************************************)
LEMMA DestroyOutermostCalls ==
    ASSUME IInv, IInv', CallbackInv, destroy_manual, Depth = 1
    PROVE  CallbackInv'
<1> DEFINE ended == IF tx.stage # "WORK" THEN tx
                    ELSE IF CommitsNested(Top) THEN pmemobj_tx_commit(tx, Depth)
                    ELSE pmemobj_tx_abort(tx, Depth)
<1>1. /\ tx \in TxRecords /\ tx' = pmemobj_tx_end(ended, 1) /\ frames \in Seq(Frames)
      /\ outcome' = IF outcome = "open" THEN "aborted" ELSE outcome
  BY DEF IInv, TypeOK, destroy_manual
<1>2. Depth' = 0
  BY <1>1, LeaveFrames DEF destroy_manual, Depth
<1>3. ~Top.nested
  BY DEF IInv, FrameInv, Top
<1>4. /\ tx.stage \in {"WORK", "ONCOMMIT", "ONABORT"} /\ outcome \in {"open", "committed"}
      /\ outcome = "committed" <=> tx.stage = "ONCOMMIT"
  BY <1>1 DEF IInv, TypeOK, TxRecords, CallbackStages, StageInv
<1>5. tx.ran \in [CallbackStages -> 0 .. 1]
  BY <1>1 DEF TxRecords
<1>6. /\ ended \in TxRecords
      /\ outcome # "committed" => ended.ran["WORK"] = 0 /\ ended.ran["ONCOMMIT"] = 0
      /\ outcome = "committed" => ended.ran["ONABORT"] # 1
  <2>1. CASE tx.stage = "WORK"
    <3>1. ended = pmemobj_tx_abort(tx, 1)
      BY <2>1, <1>3 DEF CommitsNested
    <3> HIDE DEF ended
    <3>2. ended \in TxRecords /\ ended.ran = RanAfter(tx, {"ONABORT"})
      BY <1>1, <3>1, AbortEffect, AbortCalls
    <3>3. tx.ran["WORK"] = 0 /\ tx.ran["ONCOMMIT"] = 0
      BY <2>1, WorkFacts, NothingCalledYet DEF CallbackStages
    <3> QED BY <1>4, <2>1, <3>2, <3>3 DEF RanAfter, CallbackStages
  <2>2. CASE tx.stage # "WORK"
    <3>1. ended = tx
      BY <2>2
    <3> HIDE DEF ended
    <3>2. tx.ran["WORK"] \in 0 .. 1 /\ tx.ran["ONCOMMIT"] \in 0 .. 1
      BY <1>5 DEF CallbackStages
    <3> QED BY <1>1, <3>1, <3>2 DEF CallbackInv, CallbacksMatchOutcome
  <2> QED BY <2>1, <2>2
<1> HIDE DEF ended
<1>7. tx'.registered = {} /\ tx'.ran = RanAfter(ended, {"FINALLY"})
  BY <1>1, <1>6, EndCalls
<1>8. /\ tx'.ran["WORK"] = ended.ran["WORK"] /\ tx'.ran["ONCOMMIT"] = ended.ran["ONCOMMIT"]
      /\ tx'.ran["ONABORT"] = ended.ran["ONABORT"]
  BY <1>7 DEF RanAfter, CallbackStages
<1>9. outcome' = "aborted" => tx'.mem = before'
  BY DEF IInv, LogInv
<1>10. tx'.ran["WORK"] + tx'.ran["ONCOMMIT"] > 0 => outcome' = "committed"
  BY <1>1, <1>4, <1>6, <1>8
<1>11. tx'.ran["ONABORT"] = 1 => outcome' # "committed" /\ tx'.mem = before'
  BY <1>1, <1>4, <1>6, <1>8, <1>9
<1> QED BY <1>2, <1>7, <1>10, <1>11, Over

(***************************************************************************)
(* The destructor of a nested scope.                                       *)
(***************************************************************************)
LEMMA DestroyNestedCalls ==
    ASSUME IInv, IInv', CallbackInv, destroy_manual, Depth > 1
    PROVE  CallbackInv'
<1> DEFINE ended == IF tx.stage # "WORK" THEN tx
                    ELSE IF CommitsNested(Top) THEN pmemobj_tx_commit(tx, Depth)
                    ELSE pmemobj_tx_abort(tx, Depth)
<1>1. /\ tx \in TxRecords /\ frames \in Seq(Frames) /\ Depth \in Nat
      /\ tx' = pmemobj_tx_end(ended, Depth) /\ tx'.registered \subseteq CallbackStages
  BY DEF IInv, TypeOK, Depth, destroy_manual, TxRecords
<1>2. Depth' = Depth - 1
  BY <1>1, LeaveFrames DEF destroy_manual, Depth
<1>3. outcome = "open" /\ outcome' = "open"
  BY <1>1 DEF destroy_manual, IInv, TypeOK, StageInv
<1>4. \A s \in CallbackStages : tx.ran[s] = 0
  BY <1>1, <1>3, NothingCalledYet
<1>5. ended \in TxRecords /\ ended.registered = tx.registered /\ ended.ran = tx.ran
  <2>1. Depth # 1
    BY <1>1
  <2>2. CASE ended = tx
    BY <1>1, <2>2
  <2>3. CASE ended = pmemobj_tx_commit(tx, Depth)
    <3> HIDE DEF ended
    <3> QED BY <1>1, <2>1, <2>3, CommitEffect, CommitCalls
  <2>4. CASE ended = pmemobj_tx_abort(tx, Depth)
    <3> HIDE DEF ended
    <3> QED BY <1>1, <2>1, <2>4, AbortEffect, AbortCalls
  <2> QED BY <2>2, <2>3, <2>4
<1> HIDE DEF ended
<1>6. /\ tx'.registered = ended.registered
      /\ ended.error => tx'.stage = "ONABORT"
      /\ ~ended.error => tx'.stage = "WORK"
      /\ Depth = 2 /\ ended.error => tx'.ran = RanAfter(ended, {"ONABORT"})
      /\ Depth > 2 \/ (Depth = 2 /\ ~ended.error) => tx'.ran = ended.ran
  BY <1>1, <1>5, EndCalls, EndEffect
<1>7. CASE Depth = 2 /\ ended.error
  <2>1. \A s \in CallbackStages :
           tx'.ran[s] = IF s = "ONABORT" /\ s \in tx'.registered THEN 1 ELSE 0
    BY <1>4, <1>5, <1>6, <1>7 DEF RanAfter
  <2>2. tx'.mem = before'
    <3>1. tx'.undo = EmptyLog /\ Undone(tx') = before' /\ tx' \in TxRecords
      BY <1>2, <1>3, <1>6, <1>7 DEF IInv, TypeOK, LogInv
    <3> QED BY <3>1, UndoneType
  <2> QED BY <1>1, <1>2, <1>3, <1>6, <1>7, <2>1, <2>2, JustAborted
<1>8. CASE ~(Depth = 2 /\ ended.error)
  <2>1. Depth = 2 \/ Depth > 2
    BY <1>1
  <2>2. tx'.ran = tx.ran
    BY <1>5, <1>6, <1>8, <2>1
  <2>3. Depth' > 0 /\ ~(Depth' = 1 /\ tx'.stage = "ONABORT")
    BY <1>1, <1>2, <1>6, <1>8
  <2> QED BY <1>1, <1>3, <1>4, <2>2, <2>3, StillOpen
<1> QED BY <1>7, <1>8

(***************************************************************************)
(* One step per action.                                                    *)
(***************************************************************************)
LEMMA NextCallbackInv ==
    ASSUME ~WriteAfterAbort, IInv, IInv', CallbackInv, [Next]_vars
    PROVE  CallbackInv'
<1>1. tx \in TxRecords /\ tx' \in TxRecords
  BY DEF IInv, TypeOK
<1>2. ASSUME UNCHANGED <<tx, frames, before, outcome>>
      PROVE  CallbackInv'
  BY <1>2 DEF CallbackInv, CallbacksMatchOutcome, Depth
<1>3. ASSUME NEW kind \in Kinds, NEW is_flat \in BOOLEAN, NEW locks \in SUBSET Locks,
             begin(kind, is_flat, locks)
      PROVE  CallbackInv'
  BY <1>3, BeginCalls
<1>4. ASSUME NEW locks \in SUBSET Locks, begin_lock_fails(locks)
      PROVE  CallbackInv'
  BY <1>4, LockFailsCalls
<1>5. CASE begin_wrong_stage \/ WrongStage \/ throw \/ catch
  BY <1>2, <1>5 DEF begin_wrong_stage, WrongStage, throw, catch, historyVars
<1>6. CASE operation_fails
  <2>1. CASE Top.failure_return
    BY <1>2, <1>6, <2>1 DEF operation_fails
  <2>2. CASE ~Top.failure_return
    BY <1>6, <2>2, AbortStepCalls DEF operation_fails
  <2> QED BY <2>1, <2>2
<1>7. ASSUME NEW c \in Cells, NEW v \in Values, assign(c, v)
      PROVE  CallbackInv'
  <2> DEFINE r == pmemobj_tx_add_range(tx, c)
  <2>1. tx.stage = "WORK" /\ tx' = [r EXCEPT !.mem[c] = v]
    BY <1>7 DEF assign, conditional_add_to_tx
  <2>2. r \in TxRecords /\ r.stage = tx.stage /\ r.ran = tx.ran
    BY <1>1, SnapshotEffect DEF pmemobj_tx_add_range, TxRecords
  <2> HIDE DEF r
  <2>3. tx'.stage = "WORK" /\ tx'.ran = tx.ran
    BY <2>1, <2>2 DEF TxRecords
  <2> QED BY <1>7, <2>1, <2>3, BodyCalls DEF assign, historyVars
<1>8. ASSUME NEW c \in Cells, snapshot(c)
      PROVE  CallbackInv'
  <2>1. tx.stage = "WORK" /\ tx'.stage = "WORK" /\ tx'.ran = tx.ran
    BY <1>1, <1>8 DEF snapshot, pmemobj_tx_add_range, TxRecords
  <2> QED BY <1>8, <2>1, BodyCalls DEF snapshot, historyVars
<1>9. ASSUME NEW stage \in CallbackStages, register_callback(stage)
      PROVE  CallbackInv'
  <2>1. tx.stage = "WORK" /\ tx'.stage = "WORK" /\ tx'.ran = tx.ran
    BY <1>1, <1>9 DEF register_callback, TxRecords
  <2> QED BY <1>9, <2>1, BodyCalls DEF register_callback, historyVars
<1>10. CASE abort
  BY <1>10, AbortStepCalls DEF abort
<1>11. CASE commit
  BY <1>11, CommitStepCalls DEF commit
<1>12. CASE body_returns
  <2>1. CASE Top.kind \in {"run", "automatic"} /\ tx.stage = "WORK"
    BY <1>12, <2>1, CommitStepCalls DEF body_returns, AutoCommit
  <2>2. CASE ~(Top.kind \in {"run", "automatic"} /\ tx.stage = "WORK")
    BY <1>2, <1>12, <2>2 DEF body_returns, AutoCommit
  <2> QED BY <2>1, <2>2
<1>13. CASE destroy_manual
  <2>1. Depth = 1 \/ Depth > 1
    <3>1. Depth \in Nat
      BY DEF IInv, TypeOK, Depth
    <3> QED BY <1>13, <3>1 DEF destroy_manual
  <2> QED BY <1>13, <2>1, DestroyOutermostCalls, DestroyNestedCalls
<1>14. CASE Crash
  <2>1. Depth' = 0 /\ tx'.registered = {} /\ tx'.ran = NothingRan
    BY <1>14 DEF Crash, Recovered, Depth
  <2>2. tx'.ran["WORK"] = 0 /\ tx'.ran["ONCOMMIT"] = 0 /\ tx'.ran["ONABORT"] = 0
    BY <2>1 DEF NothingRan, CallbackStages
  <2> QED BY <2>1, <2>2, Over
<1>15. CASE UNCHANGED vars
  BY <1>2, <1>15 DEF vars, historyVars
<1> QED
  BY <1>3, <1>4, <1>5, <1>6, <1>7, <1>8, <1>9, <1>10, <1>11, <1>12, <1>13, <1>14, <1>15
  DEF Next

-----------------------------------------------------------------------------
(***************************************************************************)
(* As long as the application does not assign to a p<> after an abort, the *)
(* variables keep their types; an outermost transaction that does not      *)
(* commit leaves no trace in persistent memory; it commits if and only if  *)
(* nothing in it called for an abort; and a run or automatic transaction   *)
(* that is left without an exception has committed: for every nesting of   *)
(* scopes, every set of persistent variables, and crashes anywhere.        *)
(***************************************************************************)
THEOREM TransactionInvariant ==
    ASSUME ~WriteAfterAbort
    PROVE  Spec => []IInv
<1>1. Init => IInv
  BY InitIInv
<1>2. IInv /\ [Next]_vars => IInv'
  BY NextIInv
<1> QED BY <1>1, <1>2, PTL DEF Spec

(***************************************************************************)
(* transaction.hpp, p.hpp: the variables of the transaction scopes keep    *)
(* their types.                                                            *)
(***************************************************************************)
THEOREM TransactionTypes ==
    ASSUME ~WriteAfterAbort
    PROVE  Spec => []TypeOK
<1>1. IInv => TypeOK
  BY DEF IInv
<1> QED BY <1>1, TransactionInvariant, PTL

(***************************************************************************)
(* p<> within transactions: what did not commit leaves no trace.           *)
(***************************************************************************)
THEOREM Atomicity ==
    ASSUME ~WriteAfterAbort
    PROVE  Spec => []AllOrNothing
<1>1. IInv => AllOrNothing
  BY DEF IInv, LogInv, AllOrNothing
<1> QED BY <1>1, TransactionInvariant, PTL

(***************************************************************************)
(* run, automatic: leaving without an exception means committed.           *)
(***************************************************************************)
THEOREM ReturnCommits ==
    ASSUME ~WriteAfterAbort
    PROVE  Spec => []ReturnMeansCommitted
<1>1. IInv => ReturnMeansCommitted
  BY DEF IInv
<1> QED BY <1>1, TransactionInvariant, PTL

(***************************************************************************)
(* manual's destructor, abort: the outermost transaction commits if and    *)
(* only if nothing in it called for an abort.                              *)
(***************************************************************************)
THEOREM CommitsUnlessDue ==
    ASSUME ~WriteAfterAbort
    PROVE  Spec => []AbortsWhenDue
<1>1. IInv => AbortsWhenDue
  BY DEF IInv
<1> QED BY <1>1, TransactionInvariant, PTL

(***************************************************************************)
(* register_callback, c_callback: the callbacks of a transaction, however  *)
(* deeply nested they were registered, are called when the outermost one   *)
(* commits or aborts, the ones for that outcome and no others.             *)
(***************************************************************************)
THEOREM CallbacksFollowOutcome ==
    ASSUME ~WriteAfterAbort
    PROVE  Spec => []CallbacksMatchOutcome
<1>1. Init => CallbackInv
  <2> SUFFICES ASSUME Init PROVE CallbackInv
    OBVIOUS
  <2>1. Depth = 0 /\ tx.registered = {} /\ tx.ran = NothingRan
    BY DEF Init, Depth
  <2>2. /\ tx.ran["WORK"] = 0 /\ tx.ran["ONCOMMIT"] = 0
        /\ tx.ran["ONABORT"] = 0 /\ tx.ran["FINALLY"] = 0
    BY <2>1 DEF NothingRan, CallbackStages
  <2> QED BY <2>1, <2>2 DEF CallbackInv, CallbacksMatchOutcome
<1>2. IInv /\ IInv' /\ CallbackInv /\ [Next]_vars => CallbackInv'
  BY NextCallbackInv
<1>3. CallbackInv => CallbacksMatchOutcome
  BY DEF CallbackInv
<1> QED BY <1>1, <1>2, <1>3, TransactionInvariant, PTL DEF Spec

=============================================================================

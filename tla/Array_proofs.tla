---------------------------- MODULE Array_proofs ----------------------------
(***************************************************************************)
(* Persistent arrays are atomic, durable and what a std::array is, for     *)
(* every size, and a slice's iterator points at elements that are in the   *)
(* transaction, for every slice and every size of its snapshots.           *)
(***************************************************************************)
EXTENDS Array, FiniteSetTheorems, NaturalsInduction, WellFoundedInduction, TLAPS

-----------------------------------------------------------------------------
(* What the calls of a transaction do to a pool whose every store was        *)
(* preceded by a snapshot or goes to memory that the transaction has         *)
(* allocated: none of them changes what a rollback leaves.                   *)

\* What the memory is after a rollback.
Back(h) == Without(WithLog(h.mem, h.undo), h.fresh)

IsHeap(h) ==
    h = [mem |-> h.mem, undo |-> h.undo, range |-> h.range, fresh |-> h.fresh,
         freed |-> h.freed, dirty |-> h.dirty, oom |-> h.oom, failed |-> h.failed,
         broken |-> h.broken]

\* Every cell in a range was saved, or is in memory that a rollback takes back;
\* and nothing else was written.
Logged(h) ==
    /\ IsHeap(h)
    /\ h.failed = FALSE
    /\ h.dirty = NoLog
    /\ h.fresh \subseteq DOMAIN h.mem
    /\ DOMAIN h.undo \subseteq h.range
    /\ \A l \in h.range : l \in DOMAIN h.undo \/ l[1] \in h.fresh

LEMMA BackIs ==
    ASSUME NEW h
    PROVE  /\ DOMAIN Back(h) = DOMAIN h.mem \ h.fresh
           /\ \A b \in DOMAIN h.mem \ h.fresh :
                 /\ DOMAIN Back(h)[b] = DOMAIN h.mem[b]
                 /\ \A o \in DOMAIN h.mem[b] :
                       Back(h)[b][o] = IF <<b, o>> \in DOMAIN h.undo THEN h.undo[<<b, o>>]
                                       ELSE h.mem[b][o]
  BY DEF Back, Without, WithLog

\* Two pools have the same rollback if they agree on the blocks that it keeps,
\* cell by cell.
LEMMA SameBack ==
    ASSUME NEW h, NEW g,
           DOMAIN g.mem \ g.fresh = DOMAIN h.mem \ h.fresh,
           \A b \in DOMAIN h.mem \ h.fresh :
              /\ DOMAIN g.mem[b] = DOMAIN h.mem[b]
              /\ \A o \in DOMAIN h.mem[b] :
                    (IF <<b, o>> \in DOMAIN g.undo THEN g.undo[<<b, o>>] ELSE g.mem[b][o])
                  = (IF <<b, o>> \in DOMAIN h.undo THEN h.undo[<<b, o>>] ELSE h.mem[b][o])
    PROVE  Back(g) = Back(h)
<1> DEFINE F(k, b) == [o \in DOMAIN k.mem[b] |->
                          IF <<b, o>> \in DOMAIN k.undo THEN k.undo[<<b, o>>] ELSE k.mem[b][o]]
<1>1. ASSUME NEW b \in DOMAIN h.mem \ h.fresh PROVE F(g, b) = F(h, b)
  OBVIOUS
<1>2. \A k : Back(k) = [b \in DOMAIN k.mem \ k.fresh |-> F(k, b)]
  BY DEF Back, Without, WithLog
<1> HIDE DEF F
<1>3. Back(g) = [b \in DOMAIN h.mem \ h.fresh |-> F(g, b)]
  BY <1>2
<1>4. Back(h) = [b \in DOMAIN h.mem \ h.fresh |-> F(h, b)]
  BY <1>2
<1> QED BY <1>1, <1>3, <1>4

-----------------------------------------------------------------------------
(* Snapshots and stores *)

LEMMA SnapshotLogs ==
    ASSUME NEW h, Logged(h), NEW L
    PROVE  LET g == Snapshot(h, L)
           IN  /\ Logged(g) /\ Back(g) = Back(h)
               /\ g.mem = h.mem /\ g.range = h.range \cup L
               /\ g.fresh = h.fresh /\ g.freed = h.freed /\ g.oom = h.oom
               /\ g.broken = h.broken
<1> DEFINE g == Snapshot(h, L)
<1> DEFINE new == [l \in L \ h.range |-> At(h, l)]
<1>1. g = [h EXCEPT !.undo = Overlay(new, @), !.range = @ \cup L]
  BY DEF Snapshot, Logged
<1>2. /\ IsHeap(g) /\ g.undo = Overlay(new, h.undo) /\ g.range = h.range \cup L
      /\ g.mem = h.mem /\ g.fresh = h.fresh /\ g.freed = h.freed /\ g.oom = h.oom
      /\ g.broken = h.broken /\ g.failed = h.failed /\ g.dirty = h.dirty
  BY <1>1 DEF Logged, IsHeap
<1>3. /\ DOMAIN g.undo = (L \ h.range) \cup DOMAIN h.undo
      /\ \A l \in DOMAIN h.undo : g.undo[l] = h.undo[l]
      /\ \A l \in L \ h.range : g.undo[l] = At(h, l)
  BY <1>2 DEF Overlay, Logged
<1> HIDE DEF g
<1>4. Logged(g)
  BY <1>2, <1>3 DEF Logged
<1>5. Back(g) = Back(h)
  <2>1. ASSUME NEW b, NEW o
        PROVE  (IF <<b, o>> \in DOMAIN g.undo THEN g.undo[<<b, o>>] ELSE g.mem[b][o])
             = (IF <<b, o>> \in DOMAIN h.undo THEN h.undo[<<b, o>>] ELSE h.mem[b][o])
    BY <1>2, <1>3 DEF At
  <2> QED BY <1>2, <2>1, SameBack
<1> QED BY <1>2, <1>4, <1>5 DEF g

LEMMA StoreLogs ==
    ASSUME NEW h, Logged(h), NEW b \in DOMAIN h.mem, NEW o \in DOMAIN h.mem[b],
           <<b, o>> \in h.range, NEW v
    PROVE  LET g == Store(h, <<b, o>>, v)
           IN  /\ Logged(g) /\ Back(g) = Back(h)
               /\ DOMAIN g.mem = DOMAIN h.mem
               /\ \A c \in DOMAIN h.mem :
                     /\ DOMAIN g.mem[c] = DOMAIN h.mem[c]
                     /\ \A p \in DOMAIN h.mem[c] :
                           g.mem[c][p] = IF c = b /\ p = o THEN v ELSE h.mem[c][p]
               /\ g.range = h.range /\ g.undo = h.undo
               /\ g.fresh = h.fresh /\ g.freed = h.freed /\ g.oom = h.oom
               /\ g.broken = h.broken
<1> DEFINE g == Store(h, <<b, o>>, v)
<1>1. Covers(h, <<b, o>>)
  BY DEF Covers, Logged
<1>2. g = [h EXCEPT !.mem[b][o] = v, !.dirty = @]
  BY <1>1 DEF Store, Logged
<1>3. /\ IsHeap(g) /\ g.mem = [h.mem EXCEPT ![b][o] = v]
      /\ g.undo = h.undo /\ g.range = h.range
      /\ g.fresh = h.fresh /\ g.freed = h.freed /\ g.oom = h.oom
      /\ g.broken = h.broken /\ g.failed = h.failed /\ g.dirty = h.dirty
  BY <1>2 DEF Logged, IsHeap
<1>4. /\ DOMAIN g.mem = DOMAIN h.mem
      /\ \A c \in DOMAIN h.mem :
            /\ DOMAIN g.mem[c] = DOMAIN h.mem[c]
            /\ \A p \in DOMAIN h.mem[c] :
                  g.mem[c][p] = IF c = b /\ p = o THEN v ELSE h.mem[c][p]
  BY <1>3
<1> HIDE DEF g
<1>5. Logged(g)
  BY <1>3, <1>4 DEF Logged
<1>6. Back(g) = Back(h)
  <2>1. b \in h.fresh \/ <<b, o>> \in DOMAIN h.undo
    BY DEF Logged
  <2> QED BY <1>3, <1>4, <2>1, SameBack
<1> QED BY <1>3, <1>4, <1>5, <1>6 DEF g

LEMMA StoreCellsLogs ==
    ASSUME NEW h, Logged(h), NEW vals, DOMAIN vals \subseteq h.range
    PROVE  LET g == StoreCells(h, vals)
           IN  /\ Logged(g) /\ Back(g) = Back(h)
               /\ DOMAIN g.mem = DOMAIN h.mem
               /\ \A c \in DOMAIN h.mem :
                     /\ DOMAIN g.mem[c] = DOMAIN h.mem[c]
                     /\ \A p \in DOMAIN h.mem[c] :
                           g.mem[c][p] = IF <<c, p>> \in DOMAIN vals THEN vals[<<c, p>>]
                                         ELSE h.mem[c][p]
               /\ g.range = h.range /\ g.undo = h.undo
               /\ g.fresh = h.fresh /\ g.freed = h.freed /\ g.oom = h.oom
               /\ g.broken = h.broken
<1> DEFINE g == StoreCells(h, vals)
<1>1. \A l \in DOMAIN vals : Covers(h, l)
  BY DEF Covers, Logged
<1>2. {x \in DOMAIN vals : ~Covers(h, x)} = {}
  BY <1>1
<1>3. Overlay(h.dirty, [l \in {} |-> At(h, l)]) = NoLog
  BY DEF Overlay, Logged, NoLog
<1>4. g = [h EXCEPT !.mem = WithLog(@, vals), !.dirty = NoLog]
  <2>1. g = [h EXCEPT !.mem = WithLog(@, vals),
                      !.dirty = Overlay(@, [l \in {x \in DOMAIN vals : ~Covers(h, x)} |-> At(h, l)])]
    BY DEF StoreCells, Logged
  <2>2. g = [h EXCEPT !.mem = WithLog(@, vals), !.dirty = Overlay(h.dirty, [l \in {} |-> At(h, l)])]
    BY <1>2, <2>1 DEF Logged, IsHeap
  <2> QED BY <1>3, <2>2
<1>5. /\ IsHeap(g) /\ g.mem = WithLog(h.mem, vals)
      /\ g.undo = h.undo /\ g.range = h.range
      /\ g.fresh = h.fresh /\ g.freed = h.freed /\ g.oom = h.oom
      /\ g.broken = h.broken /\ g.failed = h.failed /\ g.dirty = NoLog
  BY <1>4 DEF Logged, IsHeap
<1>6. /\ DOMAIN g.mem = DOMAIN h.mem
      /\ \A c \in DOMAIN h.mem :
            /\ DOMAIN g.mem[c] = DOMAIN h.mem[c]
            /\ \A p \in DOMAIN h.mem[c] :
                  g.mem[c][p] = IF <<c, p>> \in DOMAIN vals THEN vals[<<c, p>>] ELSE h.mem[c][p]
  BY <1>5 DEF WithLog
<1> HIDE DEF g
<1>7. Logged(g)
  BY <1>5, <1>6 DEF Logged
<1>8. Back(g) = Back(h)
  <2>1. \A c, p : <<c, p>> \in DOMAIN vals => c \in h.fresh \/ <<c, p>> \in DOMAIN h.undo
    BY DEF Logged
  <2> QED BY <1>5, <1>6, <2>1, SameBack
<1> QED BY <1>5, <1>6, <1>7, <1>8 DEF g

-----------------------------------------------------------------------------
(* Memory *)

\* Every set of numbers has a least one.
LEMMA LeastOf ==
    ASSUME NEW T \in SUBSET Nat, T # {}
    PROVE  \E x \in T : \A y \in T : x <= y
<1>1. PICK x \in T : \A y \in T : ~(<<y, x>> \in OpToRel(<, Nat))
  BY NatLessThanWellFounded, WFMin
<1>2. ASSUME NEW y \in T PROVE x <= y
  <2>1. ~(<<y, x>> \in OpToRel(<, Nat))
    BY <1>1
  <2>2. ~(y < x)
    BY <2>1 DEF OpToRel
  <2> QED BY <2>2
<1> QED BY <1>2

\* A new block is none of those there are.
LEMMA NewBlockIsNew ==
    ASSUME NEW h, IsFiniteSet(DOMAIN h.mem)
    PROVE  NewBlock(h) \in Nat \ {0} /\ NewBlock(h) \notin DOMAIN h.mem
<1> DEFINE D == DOMAIN h.mem
<1> DEFINE n == Cardinality(D) + 1
<1> HIDE DEF D
<1>1. IsFiniteSet(D) /\ Cardinality(D) \in Nat
  BY FS_CardinalityType DEF D
<1>2. ~(1 .. n \subseteq D)
  <2>1. IsFiniteSet(1 .. n) /\ Cardinality(1 .. n) = n
    BY <1>1, FS_Interval
  <2> QED BY <1>1, <2>1, FS_Subset
<1> DEFINE T == {b \in 1 .. n : b \notin D}
<1>3. T \in SUBSET Nat /\ T # {}
  BY <1>1, <1>2
<1>4. PICK x \in T : \A y \in T : x <= y
  BY <1>3, LeastOf
<1>5. x \in 1 .. n /\ x \notin D /\ \A c \in 1 .. (x - 1) : c \in D
  BY <1>1, <1>4
<1>6. NewBlock(h) \in 1 .. n /\ NewBlock(h) \notin D
  BY <1>5 DEF NewBlock, D
<1> QED BY <1>1, <1>6 DEF D

LEMMA AllocLogs ==
    ASSUME NEW h, Logged(h), h.oom # 1, IsFiniteSet(DOMAIN h.mem), NEW n \in Nat
    PROVE  LET g == Alloc(h, n)
               b == NewBlock(h)
           IN  /\ Logged(g) /\ Back(g) = Back(h)
               /\ DOMAIN g.mem = DOMAIN h.mem \cup {b}
               /\ DOMAIN g.mem[b] = 0 .. n - 1
               /\ \A c \in DOMAIN h.mem : g.mem[c] = h.mem[c]
               /\ g.range = h.range \cup {<<b, o>> : o \in 0 .. n - 1}
               /\ g.fresh = h.fresh \cup {b} /\ g.freed = h.freed
               /\ g.broken = h.broken
<1> DEFINE g == Alloc(h, n)
<1> DEFINE b == NewBlock(h)
<1> DEFINE blocks == Overlay(h.mem, [x \in {b} |-> [o \in 0..(n - 1) |-> Raw]])
<1> DEFINE i == [h EXCEPT !.mem = blocks, !.fresh = @ \cup {b},
                          !.oom = IF @ = 0 THEN 0 ELSE @ - 1]
<1>1. b \notin DOMAIN h.mem
  BY NewBlockIsNew
<1>2. g = [i EXCEPT !.range = @ \cup BlockCells(i, {b})]
  BY DEF Alloc, Logged
<1> HIDE DEF b, g
<1>3. /\ DOMAIN blocks = DOMAIN h.mem \cup {b} /\ DOMAIN blocks[b] = 0 .. n - 1
      /\ \A c \in DOMAIN h.mem : blocks[c] = h.mem[c]
  BY <1>1 DEF Overlay
<1> HIDE DEF blocks
<1>4. /\ IsHeap(i) /\ i.mem = blocks /\ i.undo = h.undo /\ i.range = h.range
      /\ i.fresh = h.fresh \cup {b} /\ i.freed = h.freed /\ i.dirty = h.dirty
      /\ i.failed = h.failed /\ i.broken = h.broken
  <2>1. PICK fresh, oom : fresh = h.fresh \cup {b} /\ oom = IF h.oom = 0 THEN 0 ELSE h.oom - 1
    OBVIOUS
  <2>2. i = [h EXCEPT !.mem = blocks, !.fresh = fresh, !.oom = oom]
    BY <2>1
  <2>3. IsHeap(h)
    BY DEF Logged
  <2> HIDE DEF i
  <2>4. /\ IsHeap(i) /\ i.mem = blocks /\ i.undo = h.undo /\ i.range = h.range
        /\ i.fresh = fresh /\ i.freed = h.freed /\ i.dirty = h.dirty
        /\ i.failed = h.failed /\ i.broken = h.broken
    BY <2>2, <2>3 DEF IsHeap
  <2> QED BY <2>1, <2>4
<1> HIDE DEF i
<1>5. BlockCells(i, {b}) = {<<b, o>> : o \in 0 .. n - 1}
  <2>1. i.mem[b] = blocks[b]
    BY <1>4
  <2>2. BlockCells(i, {b}) = {<<b, o>> : o \in DOMAIN i.mem[b]}
    BY DEF BlockCells
  <2> QED BY <1>3, <2>1, <2>2
<1>6. /\ IsHeap(g) /\ g.mem = blocks /\ g.undo = h.undo
      /\ g.range = h.range \cup {<<b, o>> : o \in 0 .. n - 1}
      /\ g.fresh = h.fresh \cup {b} /\ g.freed = h.freed /\ g.dirty = h.dirty
      /\ g.failed = h.failed /\ g.broken = h.broken
  BY <1>2, <1>4, <1>5 DEF IsHeap
<1>7. Logged(g)
  BY <1>3, <1>6 DEF Logged, IsHeap
<1>8. Back(g) = Back(h)
  <2>1. DOMAIN g.mem \ g.fresh = DOMAIN h.mem \ h.fresh
    BY <1>1, <1>3, <1>6
  <2> QED BY <1>3, <1>6, <2>1, SameBack
<1> QED BY <1>3, <1>6, <1>7, <1>8 DEF g, b

LEMMA FreeLogs ==
    ASSUME NEW h, Logged(h), NEW b, b # Nil
    PROVE  LET g == Free(h, b)
           IN  /\ Logged(g) /\ Back(g) = Back(h)
               /\ g.mem = h.mem /\ g.range = h.range /\ g.undo = h.undo /\ g.fresh = h.fresh
               /\ g.freed = h.freed \cup {b} /\ g.oom = h.oom /\ g.broken = h.broken
<1> DEFINE g == Free(h, b)
<1>1. g = [h EXCEPT !.freed = @ \cup {b}]
  BY DEF Free, Logged
<1>2. g = [mem |-> h.mem, undo |-> h.undo, range |-> h.range, fresh |-> h.fresh,
           freed |-> h.freed \cup {b}, dirty |-> h.dirty, oom |-> h.oom, failed |-> h.failed,
           broken |-> h.broken]
  BY <1>1 DEF Logged, IsHeap
<1> HIDE DEF g
<1>3. Logged(g)
  BY <1>2 DEF Logged, IsHeap
<1>4. Back(g) = Back(h)
  BY <1>2 DEF Back
<1> QED BY <1>2, <1>3, <1>4 DEF g

-----------------------------------------------------------------------------
(* The end of a transaction *)

\* A pool outside transactions in which nothing is left to be written back.
Settled(h) ==
    /\ IsHeap(h) /\ h.failed = FALSE /\ h.dirty = NoLog
    /\ h.undo = NoLog /\ h.range = {} /\ h.fresh = {} /\ h.freed = {}

LEMMA SettledIsLogged ==
    ASSUME NEW h, Settled(h)
    PROVE  /\ Logged(h) /\ DOMAIN h.undo = {}
           /\ DOMAIN Back(h) = DOMAIN h.mem
           /\ \A b \in DOMAIN h.mem :
                 /\ DOMAIN Back(h)[b] = DOMAIN h.mem[b]
                 /\ \A o \in DOMAIN h.mem[b] : Back(h)[b][o] = h.mem[b][o]
<1>1. DOMAIN h.undo = {}
  BY DEF Settled, NoLog
<1>2. Logged(h)
  BY <1>1 DEF Settled, Logged
<1>3. h.fresh = {}
  BY DEF Settled
<1>4. DOMAIN h.mem \ h.fresh = DOMAIN h.mem
  BY <1>3
<1>5. DOMAIN Back(h) = DOMAIN h.mem
  BY <1>4, BackIs
<1>6. ASSUME NEW b \in DOMAIN h.mem
      PROVE  /\ DOMAIN Back(h)[b] = DOMAIN h.mem[b]
             /\ \A o \in DOMAIN h.mem[b] : Back(h)[b][o] = h.mem[b][o]
  <2>1. b \in DOMAIN h.mem \ h.fresh
    BY <1>4
  <2>2. /\ DOMAIN Back(h)[b] = DOMAIN h.mem[b]
        /\ \A o \in DOMAIN h.mem[b] :
              Back(h)[b][o] = IF <<b, o>> \in DOMAIN h.undo THEN h.undo[<<b, o>>] ELSE h.mem[b][o]
    BY <2>1, BackIs
  <2>3. \A o : <<b, o>> \notin DOMAIN h.undo
    BY <1>1
  <2> QED BY <2>2, <2>3
<1> QED BY <1>1, <1>2, <1>5, <1>6

LEMMA WithoutNothing == \A S : Without(NoLog, S) = NoLog
  BY DEF Without, NoLog

LEMMA AbortSettles ==
    ASSUME NEW h, Logged(h)
    PROVE  Settled(Abort(h)) /\ Abort(h).mem = Back(h) /\ Abort(h).broken = h.broken
<1> DEFINE D == DOMAIN h.undo \cup BlockCells(h, h.fresh)
<1>1. Abort(h) = [Outside(h) EXCEPT !.mem = Back(h), !.dirty = Without(h.dirty, D)]
  BY DEF Abort, Back, Outside, Logged, IsHeap
<1>2. Without(h.dirty, D) = NoLog
  BY WithoutNothing DEF Logged
<1> HIDE DEF D
<1>3. Abort(h) = [Outside(h) EXCEPT !.mem = Back(h), !.dirty = NoLog]
  BY <1>1, <1>2
<1>4. h.failed = FALSE /\ IsHeap(h)
  BY DEF Logged
<1>5. /\ IsHeap(Abort(h)) /\ Abort(h).failed = h.failed /\ Abort(h).dirty = NoLog
      /\ Abort(h).undo = NoLog /\ Abort(h).range = {} /\ Abort(h).fresh = {}
      /\ Abort(h).freed = {} /\ Abort(h).mem = Back(h) /\ Abort(h).broken = h.broken
  BY <1>3, <1>4 DEF Outside, IsHeap
<1> QED BY <1>4, <1>5 DEF Settled

\* A call that threw before it changed anything: slice.at() out of range, or an
\* allocation that failed.
Threw(h, t) == t \in {Throw(h), [Throw(h) EXCEPT !.oom = 0]}

LEMMA ThrowChangesNothing ==
    ASSUME NEW h, Logged(h), NEW t, Threw(h, t)
    PROVE  LET g == Caught(t)
           IN  /\ t.failed = TRUE /\ t.mem = h.mem /\ t.freed = h.freed
               /\ Logged(g) /\ Back(g) = Back(h)
               /\ g.mem = h.mem /\ g.freed = h.freed /\ g.broken = h.broken
<1> DEFINE g == Caught(t)
<1>1. IsHeap(h)
  BY DEF Logged
<1>2. \/ t = [h EXCEPT !.failed = TRUE]
      \/ t = [h EXCEPT !.failed = TRUE, !.oom = 0]
  BY DEF Threw, Throw
<1>3. /\ IsHeap(t) /\ t.failed = TRUE /\ t.dirty = h.dirty /\ t.undo = h.undo
      /\ t.range = h.range /\ t.fresh = h.fresh /\ t.freed = h.freed /\ t.mem = h.mem
      /\ t.broken = h.broken
  BY <1>1, <1>2 DEF IsHeap
<1>4. g = [t EXCEPT !.failed = FALSE]
  BY DEF Caught
<1> HIDE DEF g
<1>5. /\ IsHeap(g) /\ g.failed = FALSE /\ g.dirty = t.dirty /\ g.undo = t.undo
      /\ g.range = t.range /\ g.fresh = t.fresh /\ g.freed = t.freed /\ g.mem = t.mem
      /\ g.broken = t.broken
  BY <1>3, <1>4 DEF IsHeap
<1>6. Logged(g)
  BY <1>3, <1>5 DEF Logged
<1>7. Back(g) = Back(h)
  BY <1>3, <1>5 DEF Back
<1> QED BY <1>3, <1>5, <1>6, <1>7 DEF g

\* Nothing is written that was not saved: all that a power failure loses is
\* what a rollback takes back too.
LEMMA RecoverSettles ==
    ASSUME NEW h, Logged(h), NEW lost \in SUBSET Volatile(h)
    PROVE  LET g == Recover(h, lost)
           IN  Settled(g) /\ g.mem = Back(h) /\ g.broken = h.broken
<1> DEFINE g == Recover(h, lost)
<1>1. lost = {}
  BY DEF Volatile, Logged, NoLog
<1> DEFINE log == Overlay(h.undo, [l \in lost |-> h.dirty[l]])
<1>2. DOMAIN log = DOMAIN h.undo /\ \A l \in DOMAIN h.undo : log[l] = h.undo[l]
  BY <1>1 DEF Overlay
<1>3. g = [Outside(h) EXCEPT !.mem = Without(WithLog(@, log), h.fresh), !.dirty = NoLog]
  BY DEF Recover
<1> HIDE DEF log, g
<1>4. Without(WithLog(h.mem, log), h.fresh) = Back(h)
  <2> DEFINE k == [mem |-> h.mem, undo |-> log, fresh |-> h.fresh]
  <2>1. k.mem = h.mem /\ k.undo = log /\ k.fresh = h.fresh
    OBVIOUS
  <2> HIDE DEF k
  <2>2. Back(k) = Back(h)
    BY <1>2, <2>1, SameBack
  <2> QED BY <2>1, <2>2 DEF Back
<1>5. h.failed = FALSE /\ IsHeap(h)
  BY DEF Logged
<1>6. /\ IsHeap(g) /\ g.failed = h.failed /\ g.dirty = NoLog
      /\ g.undo = NoLog /\ g.range = {} /\ g.fresh = {} /\ g.freed = {}
      /\ g.mem = Without(WithLog(h.mem, log), h.fresh) /\ g.broken = h.broken
  BY <1>3, <1>5 DEF Outside, IsHeap
<1> QED BY <1>4, <1>5, <1>6 DEF Settled, g

LEMMA CommitSettles ==
    ASSUME NEW h, Logged(h)
    PROVE  LET g == Commit(h)
           IN  /\ Settled(g) /\ g.broken = h.broken
               /\ DOMAIN g.mem = DOMAIN h.mem \ h.freed
               /\ \A b \in DOMAIN h.mem \ h.freed : g.mem[b] = h.mem[b]
<1> DEFINE g == Commit(h)
<1> DEFINE D == h.range \cup BlockCells(h, h.freed)
<1>1. g = [Outside(h) EXCEPT !.mem = Without(h.mem, h.freed), !.dirty = Without(h.dirty, D)]
  BY DEF Commit, Outside, Logged, IsHeap
<1>2. Without(h.dirty, D) = NoLog
  BY WithoutNothing DEF Logged
<1> HIDE DEF D, g
<1>3. h.failed = FALSE /\ IsHeap(h)
  BY DEF Logged
<1>4. /\ IsHeap(g) /\ g.failed = h.failed /\ g.dirty = NoLog
      /\ g.undo = NoLog /\ g.range = {} /\ g.fresh = {} /\ g.freed = {}
      /\ g.mem = Without(h.mem, h.freed) /\ g.broken = h.broken
  BY <1>1, <1>2, <1>3 DEF Outside, IsHeap
<1>5. /\ DOMAIN g.mem = DOMAIN h.mem \ h.freed
      /\ \A b \in DOMAIN h.mem \ h.freed : g.mem[b] = h.mem[b]
  BY <1>4 DEF Without
<1> QED BY <1>3, <1>4, <1>5 DEF Settled, g

-----------------------------------------------------------------------------
(* The sizes of arrays                                                       *)

\* The sizes there are: the sum of two of them does not wrap, since an array
\* is not larger than half of the address space.
Sizes ==
    /\ N \in Nat \ {0} /\ SizeType \in Nat /\ 2 * N < SizeType
    /\ MaxOps \in Nat
    /\ Names \subseteq {"a", "b"} /\ "a" \in Names

-----------------------------------------------------------------------------
(* The memory: block 0 has the pointer to b and then a, every other block is *)
(* an array.                                                                 *)

CellsOf(b) == IF b = 0 THEN 0 .. N ELSE 0 .. N - 1

Shape(m) ==
    /\ DOMAIN m \subseteq Nat /\ IsFiniteSet(DOMAIN m) /\ 0 \in DOMAIN m
    /\ \A b \in DOMAIN m : DOMAIN m[b] = CellsOf(b)
    /\ m[0][0] \in DOMAIN m

\* What the arrays hold in a memory.
OfMem(m) == Contents([mem |-> m])

ArrayHeap(h) ==
    /\ Logged(h) /\ h.broken = FALSE
    /\ Shape(h.mem) /\ Shape(Back(h))
    /\ h.freed \subseteq DOMAIN h.mem /\ 0 \notin h.freed /\ h.mem[0][0] \notin h.freed

LEMMA ContentsIs == \A h : Contents(h) = OfMem(h.mem)
  BY DEF Contents, OfMem, Exists, Elems, Obj, At

LEMMA OfMemIs ==
    ASSUME Sizes, NEW m
    PROVE  /\ DOMAIN OfMem(m) = Names
           /\ OfMem(m)["a"] = [i \in 1 .. N |-> m[0][i]]
           /\ "b" \in Names => OfMem(m)["b"] = IF m[0][0] = 0 THEN Absent
                                                ELSE [i \in 1 .. N |-> m[m[0][0]][i - 1]]
<1> DEFINE h == [mem |-> m]
<1>1. h.mem = m
  OBVIOUS
<1> HIDE DEF h
<1>2. OfMem(m) = [x \in Names |-> IF Exists(h, x) THEN Elems(h, Obj(h, x)) ELSE Absent]
  BY DEF OfMem, Contents, h
<1>3. Exists(h, "a") /\ Elems(h, Obj(h, "a")) = [i \in 1 .. N |-> m[0][i]]
  <2>1. Exists(h, "a") /\ Obj(h, "a") = <<0, 1>>
    BY DEF Exists, Obj
  <2>2. ASSUME NEW i \in 1 .. N PROVE At(h, Elem(<<0, 1>>, i - 1)) = m[0][i]
    BY <1>1 DEF At, Elem, Plus, Sizes
  <2> QED BY <2>1, <2>2 DEF Elems
<1>4. /\ Exists(h, "b") <=> m[0][0] # 0
      /\ Elems(h, Obj(h, "b")) = [i \in 1 .. N |-> m[m[0][0]][i - 1]]
  <2>1. /\ Exists(h, "b") <=> m[0][0] # 0
        /\ Obj(h, "b") = <<m[0][0], 0>>
    BY <1>1 DEF Exists, Obj, At, RootB, Nil
  <2>2. ASSUME NEW i \in 1 .. N PROVE At(h, Elem(<<m[0][0], 0>>, i - 1)) = m[m[0][0]][i - 1]
    BY <1>1 DEF At, Elem, Plus, Sizes
  <2> QED BY <2>1, <2>2 DEF Elems
<1> QED BY <1>2, <1>3, <1>4 DEF Sizes

LEMMA SameContents ==
    ASSUME Sizes, NEW f, NEW g, DOMAIN f = Names, DOMAIN g = Names,
           f = [x \in Names |-> f[x]], g = [x \in Names |-> g[x]],
           f["a"] = g["a"], "b" \in Names => f["b"] = g["b"]
    PROVE  f = g
  BY DEF Sizes

LEMMA OfMemFunction == \A m : OfMem(m) = [x \in Names |-> OfMem(m)[x]]
  BY DEF OfMem, Contents

\* Memories that agree on the root and on the arrays hold the same.
LEMMA Agree ==
    ASSUME Sizes, NEW m, NEW k,
           m[0][0] = k[0][0], \A o \in 1 .. N : m[0][o] = k[0][o],
           m[0][0] # 0 => \A o \in 0 .. N - 1 : m[m[0][0]][o] = k[m[0][0]][o]
    PROVE  OfMem(m) = OfMem(k)
<1>1. OfMem(m)["a"] = OfMem(k)["a"]
  <2>1. OfMem(m)["a"] = [i \in 1 .. N |-> m[0][i]]
    BY OfMemIs
  <2>2. OfMem(k)["a"] = [i \in 1 .. N |-> k[0][i]]
    BY OfMemIs
  <2> QED BY <2>1, <2>2
<1>2. ASSUME "b" \in Names PROVE OfMem(m)["b"] = OfMem(k)["b"]
  <2>1. CASE m[0][0] = 0
    BY <1>2, <2>1, OfMemIs
  <2>2. CASE m[0][0] # 0
    <3>1. \A i \in 1 .. N : m[m[0][0]][i - 1] = k[k[0][0]][i - 1]
      BY <2>2 DEF Sizes
    <3>2. OfMem(m)["b"] = [i \in 1 .. N |-> m[m[0][0]][i - 1]]
      BY <1>2, <2>2, OfMemIs
    <3>3. OfMem(k)["b"] = [i \in 1 .. N |-> k[k[0][0]][i - 1]]
      BY <1>2, <2>2, OfMemIs
    <3> QED BY <3>1, <3>2, <3>3
  <2> QED BY <2>1, <2>2
<1> QED BY <1>1, <1>2, OfMemIs, OfMemFunction, SameContents

-----------------------------------------------------------------------------
(* Where an array is *)

LEMMA ArrayIs ==
    ASSUME Sizes, NEW h, ArrayHeap(h), NEW x \in Names, Exists(h, x)
    PROVE  LET v == Obj(h, x)
           IN  /\ v = <<v[1], v[2]>> /\ v[1] \in DOMAIN h.mem /\ v[1] \notin h.freed
               /\ x = "a" => v = <<0, 1>>
               /\ x = "b" => v = <<h.mem[0][0], 0>> /\ h.mem[0][0] # 0
               /\ v[1] \in Nat /\ v[2] \in {0, 1}
               /\ \A n \in 0 .. N - 1 : v[2] + n \in DOMAIN h.mem[v[1]] /\ <<v[1], v[2] + n>> # RootB
               /\ OfMem(h.mem)[x] = [i \in 1 .. N |-> h.mem[v[1]][v[2] + i - 1]]
<1>1. x \in {"a", "b"}
  BY DEF Sizes
<1>2. /\ DOMAIN h.mem \subseteq Nat /\ 0 \in DOMAIN h.mem /\ h.mem[0][0] \in DOMAIN h.mem
      /\ \A b \in DOMAIN h.mem : DOMAIN h.mem[b] = CellsOf(b)
      /\ 0 \notin h.freed /\ h.mem[0][0] \notin h.freed
  BY DEF ArrayHeap, Shape
<1>3. CASE x = "a"
  <2>1. Obj(h, x) = <<0, 1>>
    BY <1>3 DEF Obj
  <2>2. \A n \in 0 .. N - 1 : 1 + n \in 0 .. N /\ <<0, 1 + n>> # <<0, 0>>
    BY DEF Sizes
  <2>3. DOMAIN h.mem[0] = 0 .. N
    BY <1>2 DEF CellsOf
  <2>4. OfMem(h.mem)[x] = [i \in 1 .. N |-> h.mem[0][1 + i - 1]]
    <3>1. \A i \in 1 .. N : 1 + i - 1 = i
      BY DEF Sizes
    <3>2. OfMem(h.mem)["a"] = [i \in 1 .. N |-> h.mem[0][i]]
      BY OfMemIs
    <3> QED BY <1>3, <3>1, <3>2
  <2> DEFINE v == Obj(h, x)
  <2>5. v = <<0, 1>> /\ v[1] = 0 /\ v[2] = 1
    BY <2>1
  <2> HIDE DEF v
  <2>6. /\ v = <<v[1], v[2]>> /\ v[1] \in DOMAIN h.mem /\ v[1] \notin h.freed
        /\ v[1] \in Nat /\ v[2] \in {0, 1}
        /\ \A n \in 0 .. N - 1 : v[2] + n \in DOMAIN h.mem[v[1]] /\ <<v[1], v[2] + n>> # RootB
        /\ OfMem(h.mem)[x] = [i \in 1 .. N |-> h.mem[v[1]][v[2] + i - 1]]
    BY <1>2, <2>2, <2>3, <2>4, <2>5 DEF RootB
  <2> QED BY <1>3, <2>5, <2>6 DEF v
<1>4. CASE x = "b"
  <2>1. Obj(h, x) = <<h.mem[0][0], 0>> /\ h.mem[0][0] # 0
    BY <1>4 DEF Obj, Exists, At, RootB, Nil
  <2>2. DOMAIN h.mem[h.mem[0][0]] = 0 .. N - 1
    BY <1>2, <2>1 DEF CellsOf
  <2>3. \A n \in 0 .. N - 1 : 0 + n = n
    BY DEF Sizes
  <2>4. OfMem(h.mem)[x] = [i \in 1 .. N |-> h.mem[h.mem[0][0]][0 + i - 1]]
    <3>1. \A i \in 1 .. N : 0 + i - 1 = i - 1
      BY DEF Sizes
    <3>2. OfMem(h.mem)["b"] = [i \in 1 .. N |-> h.mem[h.mem[0][0]][i - 1]]
      BY <1>4, <2>1, OfMemIs
    <3> QED BY <1>4, <3>1, <3>2
  <2> DEFINE v == Obj(h, x)
  <2>5. v = <<h.mem[0][0], 0>> /\ v[1] = h.mem[0][0] /\ v[2] = 0
    BY <2>1
  <2> HIDE DEF v
  <2>6. /\ v = <<v[1], v[2]>> /\ v[1] \in DOMAIN h.mem /\ v[1] \notin h.freed
        /\ v[1] \in Nat /\ v[2] \in {0, 1}
        /\ \A n \in 0 .. N - 1 : v[2] + n \in DOMAIN h.mem[v[1]] /\ <<v[1], v[2] + n>> # RootB
        /\ OfMem(h.mem)[x] = [i \in 1 .. N |-> h.mem[v[1]][v[2] + i - 1]]
    BY <1>2, <2>1, <2>2, <2>3, <2>4, <2>5 DEF RootB
  <2> QED BY <1>4, <2>1, <2>5, <2>6 DEF v
<1> QED BY <1>1, <1>3, <1>4

\* s is what an array may hold.
Holds(s) == s = [i \in 1 .. N |-> s[i]]

\* In the memory m the array x is s, and all else is as in h.
Becomes(h, m, x, s) ==
    \A c \in DOMAIN h.mem : \A p \in DOMAIN h.mem[c] :
       m[c][p] = IF c = Obj(h, x)[1] /\ p - Obj(h, x)[2] + 1 \in 1 .. N
                 THEN s[p - Obj(h, x)[2] + 1] ELSE h.mem[c][p]

LEMMA Updated ==
    ASSUME Sizes, NEW h, ArrayHeap(h), NEW x \in Names, Exists(h, x), NEW m, NEW s,
           Holds(s), Becomes(h, m, x, s)
    PROVE  m[0][0] = h.mem[0][0] /\ OfMem(m) = [OfMem(h.mem) EXCEPT ![x] = s]
<1> DEFINE b == h.mem[0][0]
<1>1. /\ 0 \in DOMAIN h.mem /\ b \in DOMAIN h.mem /\ DOMAIN h.mem[0] = 0 .. N
      /\ b # 0 => DOMAIN h.mem[b] = 0 .. N - 1
  BY DEF ArrayHeap, Shape, CellsOf
<1> DEFINE f == OfMem(m)
<1> DEFINE g == [OfMem(h.mem) EXCEPT ![x] = s]
<1>2. /\ DOMAIN OfMem(h.mem) = Names /\ DOMAIN f = Names /\ f = [y \in Names |-> f[y]]
  BY OfMemIs, OfMemFunction
<1>3. /\ DOMAIN g = Names /\ g = [y \in Names |-> g[y]] /\ g[x] = s
      /\ \A y \in Names : y # x => g[y] = OfMem(h.mem)[y]
  BY <1>2
<1>4. CASE x = "a"
  <2>1. \A c \in DOMAIN h.mem : \A p \in DOMAIN h.mem[c] :
           m[c][p] = IF c = 0 /\ p - 1 + 1 \in 1 .. N THEN s[p - 1 + 1] ELSE h.mem[c][p]
    <3>1. Obj(h, x)[1] = 0 /\ Obj(h, x)[2] = 1
      BY <1>4 DEF Obj
    <3> QED BY <3>1 DEF Becomes
  <2>2. m[0][0] = b
    <3>1. 0 \in 0 .. N /\ ~(0 - 1 + 1 \in 1 .. N)
      BY DEF Sizes
    <3> QED BY <1>1, <2>1, <3>1
  <2>3. ASSUME NEW p \in 1 .. N PROVE m[0][p] = s[p]
    <3>1. p \in 0 .. N /\ p - 1 + 1 \in 1 .. N /\ p - 1 + 1 = p
      BY DEF Sizes
    <3>2. m[0][p] = IF 0 = 0 /\ p - 1 + 1 \in 1 .. N THEN s[p - 1 + 1] ELSE h.mem[0][p]
      BY <1>1, <2>1, <3>1
    <3> QED BY <3>1, <3>2
  <2>4. f["a"] = s
    <3>1. f["a"] = [i \in 1 .. N |-> m[0][i]]
      BY OfMemIs
    <3> QED BY <2>3, <3>1 DEF Holds
  <2>5. ASSUME "b" \in Names PROVE f["b"] = OfMem(h.mem)["b"]
    <3>1. CASE b = 0
      BY <2>2, <2>5, <3>1, OfMemIs
    <3>2. CASE b # 0
      <4>1. ASSUME NEW i \in 1 .. N PROVE m[b][i - 1] = h.mem[b][i - 1]
        <5>1. i - 1 \in 0 .. N - 1
          BY DEF Sizes
        <5> QED BY <1>1, <2>1, <3>2, <5>1
      <4>2. f["b"] = [i \in 1 .. N |-> m[b][i - 1]]
        <5>1. m[0][0] # 0
          BY <2>2, <3>2
        <5>2. f["b"] = [i \in 1 .. N |-> m[m[0][0]][i - 1]]
          BY <2>5, <5>1, OfMemIs
        <5> HIDE DEF b
        <5> QED BY <2>2, <5>2
      <4>3. OfMem(h.mem)["b"] = [i \in 1 .. N |-> h.mem[b][i - 1]]
        BY <2>5, <3>2, OfMemIs
      <4> QED BY <4>1, <4>2, <4>3
    <3> QED BY <3>1, <3>2
  <2> HIDE DEF f, g
  <2>6. f = g
    BY <1>2, <1>3, <1>4, <2>4, <2>5, SameContents
  <2> QED BY <2>2, <2>6 DEF f, g
<1>5. CASE x = "b"
  <2>0. Obj(h, x)[1] = b /\ Obj(h, x)[2] = 0 /\ b # 0
    <3>1. Obj(h, x) = <<b, 0>> /\ b # 0
      BY <1>5, ArrayIs
    <3> QED BY <3>1
  <2>1. /\ b # 0
        /\ \A c \in DOMAIN h.mem : \A p \in DOMAIN h.mem[c] :
              m[c][p] = IF c = b /\ p - 0 + 1 \in 1 .. N THEN s[p - 0 + 1] ELSE h.mem[c][p]
    BY <2>0 DEF Becomes
  <2>2. ASSUME NEW p \in 0 .. N PROVE m[0][p] = h.mem[0][p]
    BY <1>1, <2>1
  <2>3. m[0][0] = b
    <3>1. 0 \in 0 .. N
      BY DEF Sizes
    <3> QED BY <2>2, <3>1
  <2>4. f["a"] = OfMem(h.mem)["a"]
    <3>1. f["a"] = [i \in 1 .. N |-> m[0][i]]
      BY OfMemIs
    <3>2. OfMem(h.mem)["a"] = [i \in 1 .. N |-> h.mem[0][i]]
      BY OfMemIs
    <3>3. \A i \in 1 .. N : i \in 0 .. N
      BY DEF Sizes
    <3> QED BY <2>2, <3>1, <3>2, <3>3
  <2>5. f["b"] = s
    <3>1. ASSUME NEW i \in 1 .. N PROVE m[b][i - 1] = s[i]
      <4>1. i - 1 \in 0 .. N - 1 /\ (i - 1) - 0 + 1 = i
        BY DEF Sizes
      <4> QED BY <1>1, <2>1, <4>1
    <3>2. f["b"] = [i \in 1 .. N |-> m[b][i - 1]]
      <4>1. m[0][0] # 0 /\ "b" \in Names
        BY <1>5, <2>1, <2>3
      <4>2. f["b"] = [i \in 1 .. N |-> m[m[0][0]][i - 1]]
        BY <4>1, OfMemIs
      <4> HIDE DEF b
      <4> QED BY <2>3, <4>2
    <3> QED BY <3>1, <3>2 DEF Holds
  <2> HIDE DEF f, g
  <2>6. f = g
    <3>1. g["a"] = OfMem(h.mem)["a"] /\ g["b"] = s
      BY <1>3, <1>5 DEF Sizes
    <3> QED BY <1>2, <1>3, <2>4, <2>5, <3>1, SameContents
  <2> QED BY <2>3, <2>6 DEF f, g
<1> QED BY <1>4, <1>5 DEF Sizes

LEMMA ShapeKept ==
    ASSUME NEW m, NEW k, Shape(m), DOMAIN k = DOMAIN m,
           \A b \in DOMAIN m : DOMAIN k[b] = DOMAIN m[b], k[0][0] \in DOMAIN m
    PROVE  Shape(k)
  BY DEF Shape

-----------------------------------------------------------------------------
(* Snapshots and stores in arrays *)

LEMMA SnapshotArray ==
    ASSUME NEW h, ArrayHeap(h), NEW L
    PROVE  LET g == Snapshot(h, L)
           IN  /\ ArrayHeap(g) /\ Back(g) = Back(h) /\ g.mem = h.mem
               /\ g.range = h.range \cup L /\ g.freed = h.freed
<1> DEFINE g == Snapshot(h, L)
<1>1. /\ Logged(g) /\ Back(g) = Back(h) /\ g.mem = h.mem /\ g.range = h.range \cup L
      /\ g.freed = h.freed /\ g.broken = h.broken
  BY SnapshotLogs DEF ArrayHeap
<1> HIDE DEF g
<1>2. ArrayHeap(g)
  BY <1>1 DEF ArrayHeap
<1> QED BY <1>1, <1>2 DEF g

LEMMA SameObjects ==
    ASSUME NEW h, NEW g, g.mem[0][0] = h.mem[0][0]
    PROVE  \A x : (Exists(g, x) <=> Exists(h, x)) /\ Obj(g, x) = Obj(h, x)
  BY DEF Exists, Obj, At, RootB

LEMMA StoreAllArray ==
    ASSUME Sizes, NEW h, ArrayHeap(h), NEW x \in Names, Exists(h, x), NEW s,
           Holds(s), Cells(Obj(h, x), N) \subseteq h.range
    PROVE  LET g == StoreAll(h, Obj(h, x), s)
           IN  /\ ArrayHeap(g) /\ Back(g) = Back(h)
               /\ OfMem(g.mem) = [OfMem(h.mem) EXCEPT ![x] = s]
               /\ g.mem[0][0] = h.mem[0][0] /\ g.range = h.range
<1> DEFINE v == Obj(h, x)
<1> DEFINE vals == [l \in Cells(v, N) |-> s[l[2] - v[2] + 1]]
<1> DEFINE g == StoreAll(h, v, s)
<1>1. g = StoreCells(h, vals)
  BY DEF StoreAll
<1>2. v = <<v[1], v[2]>> /\ v[2] \in {0, 1} /\ v[1] \in DOMAIN h.mem
  BY ArrayIs
<1> HIDE DEF v
<1>3. DOMAIN vals \subseteq h.range
  BY DEF v
<1>4. Logged(h)
  BY DEF ArrayHeap
<1>5. \A c, p : p \in Int => (<<c, p>> \in Cells(v, N) <=> c = v[1] /\ p - v[2] + 1 \in 1 .. N)
  <2> SUFFICES ASSUME NEW c, NEW p \in Int
               PROVE  <<c, p>> \in Cells(v, N) <=> c = v[1] /\ p - v[2] + 1 \in 1 .. N
    OBVIOUS
  <2>1. <<c, p>> \in Cells(v, N) <=> c = v[1] /\ \E i \in 0 .. (N - 1) : p = v[2] + i
    BY DEF Cells
  <2>2. (\E i \in 0 .. (N - 1) : p = v[2] + i) <=> p - v[2] + 1 \in 1 .. N
    <3>1. v[2] \in Int
      BY <1>2
    <3>2. ASSUME p - v[2] + 1 \in 1 .. N PROVE \E i \in 0 .. (N - 1) : p = v[2] + i
      <4>1. p - v[2] \in 0 .. (N - 1) /\ p = v[2] + (p - v[2])
        BY <3>1, <3>2 DEF Sizes
      <4> QED BY <4>1
    <3>3. ASSUME NEW i \in 0 .. (N - 1), p = v[2] + i PROVE p - v[2] + 1 \in 1 .. N
      BY <3>1, <3>3 DEF Sizes
    <3> QED BY <3>2, <3>3
  <2> QED BY <2>1, <2>2
<1>6. \A c, p : <<c, p>> \in Cells(v, N) => vals[<<c, p>>] = s[p - v[2] + 1]
  OBVIOUS
<1>7. DOMAIN vals = Cells(v, N)
  OBVIOUS
<1> HIDE DEF g, vals
<1>8. /\ Logged(g) /\ Back(g) = Back(h) /\ DOMAIN g.mem = DOMAIN h.mem
      /\ \A c \in DOMAIN h.mem :
            /\ DOMAIN g.mem[c] = DOMAIN h.mem[c]
            /\ \A p \in DOMAIN h.mem[c] :
                  g.mem[c][p] = IF <<c, p>> \in DOMAIN vals THEN vals[<<c, p>>] ELSE h.mem[c][p]
      /\ g.range = h.range /\ g.freed = h.freed /\ g.broken = h.broken
  BY <1>1, <1>3, <1>4, StoreCellsLogs
<1>9. ASSUME NEW c \in DOMAIN h.mem, NEW p \in DOMAIN h.mem[c]
      PROVE  g.mem[c][p] = IF c = v[1] /\ p - v[2] + 1 \in 1 .. N THEN s[p - v[2] + 1]
                           ELSE h.mem[c][p]
  <2>1. p \in Int
    <3>1. DOMAIN h.mem[c] = CellsOf(c)
      BY DEF ArrayHeap, Shape
    <3> QED BY <3>1 DEF CellsOf, Sizes
  <2>2. <<c, p>> \in DOMAIN vals <=> c = v[1] /\ p - v[2] + 1 \in 1 .. N
    BY <1>5, <1>7, <2>1
  <2>3. <<c, p>> \in DOMAIN vals => vals[<<c, p>>] = s[p - v[2] + 1]
    BY <1>6, <1>7
  <2>4. g.mem[c][p] = IF <<c, p>> \in DOMAIN vals THEN vals[<<c, p>>] ELSE h.mem[c][p]
    BY <1>8
  <2>5. CASE <<c, p>> \in DOMAIN vals
    BY <2>2, <2>3, <2>4, <2>5
  <2>6. CASE <<c, p>> \notin DOMAIN vals
    BY <2>2, <2>4, <2>6
  <2> QED BY <2>5, <2>6
<1>10. g.mem[0][0] = h.mem[0][0] /\ OfMem(g.mem) = [OfMem(h.mem) EXCEPT ![x] = s]
  <2>1. Becomes(h, g.mem, x, s)
    BY <1>9 DEF v, Becomes
  <2> QED BY <2>1, Updated
<1>11. ArrayHeap(g)
  <2>1. Shape(g.mem)
    BY <1>8, <1>10, ShapeKept DEF ArrayHeap, Shape
  <2> QED BY <1>8, <1>10, <2>1 DEF ArrayHeap
<1> QED BY <1>8, <1>10, <1>11 DEF g, v

LEMMA StoreArray ==
    ASSUME Sizes, NEW h, ArrayHeap(h), NEW x \in Names, Exists(h, x), NEW n \in 0 .. N - 1, NEW y,
           Elem(Obj(h, x), n) \in h.range
    PROVE  LET g == Store(h, Elem(Obj(h, x), n), y)
           IN  /\ ArrayHeap(g) /\ Back(g) = Back(h)
               /\ OfMem(g.mem) = [OfMem(h.mem) EXCEPT ![x] = Put(OfMem(h.mem)[x], n, y)]
               /\ g.mem[0][0] = h.mem[0][0] /\ g.range = h.range
<1> DEFINE v == Obj(h, x)
<1> DEFINE g == Store(h, Elem(v, n), y)
<1> DEFINE s == Put(OfMem(h.mem)[x], n, y)
<1>1. /\ v = <<v[1], v[2]>> /\ v[2] \in {0, 1} /\ v[1] \in DOMAIN h.mem
      /\ v[2] + n \in DOMAIN h.mem[v[1]] /\ <<v[1], v[2] + n>> # RootB
      /\ OfMem(h.mem)[x] = [i \in 1 .. N |-> h.mem[v[1]][v[2] + i - 1]]
  BY ArrayIs
<1>2. Elem(v, n) = <<v[1], v[2] + n>>
  BY DEF Elem, Plus
<1>3. Logged(h) /\ <<v[1], v[2] + n>> \in h.range
  BY <1>2 DEF ArrayHeap
<1> HIDE DEF v
<1>4. g = Store(h, <<v[1], v[2] + n>>, y)
  BY <1>2
<1> HIDE DEF g
<1>5. /\ Logged(g) /\ Back(g) = Back(h) /\ DOMAIN g.mem = DOMAIN h.mem
      /\ \A c \in DOMAIN h.mem :
            /\ DOMAIN g.mem[c] = DOMAIN h.mem[c]
            /\ \A p \in DOMAIN h.mem[c] :
                  g.mem[c][p] = IF c = v[1] /\ p = v[2] + n THEN y ELSE h.mem[c][p]
      /\ g.range = h.range /\ g.freed = h.freed /\ g.broken = h.broken
  BY <1>1, <1>3, <1>4, StoreLogs
<1>6. s = [i \in 1 .. N |-> IF i = n + 1 THEN y ELSE h.mem[v[1]][v[2] + i - 1]]
  BY <1>1 DEF Put
<1> HIDE DEF s
<1>7. ASSUME NEW c \in DOMAIN h.mem, NEW p \in DOMAIN h.mem[c]
      PROVE  g.mem[c][p] = IF c = v[1] /\ p - v[2] + 1 \in 1 .. N THEN s[p - v[2] + 1]
                           ELSE h.mem[c][p]
  <2>1. p \in Int
    <3>1. DOMAIN h.mem[c] = CellsOf(c)
      BY DEF ArrayHeap, Shape
    <3> QED BY <3>1 DEF CellsOf, Sizes
  <2>2. v[2] \in Int /\ n \in Int
    BY <1>1 DEF Sizes
  <2>3. g.mem[c][p] = IF c = v[1] /\ p = v[2] + n THEN y ELSE h.mem[c][p]
    BY <1>5
  <2>4. CASE c = v[1] /\ p - v[2] + 1 \in 1 .. N
    <3>1. v[2] + (p - v[2] + 1) - 1 = p /\ (p - v[2] + 1 = n + 1 <=> p = v[2] + n)
      BY <2>1, <2>2
    <3>2. s[p - v[2] + 1] = IF p - v[2] + 1 = n + 1 THEN y
                            ELSE h.mem[v[1]][v[2] + (p - v[2] + 1) - 1]
      BY <1>6, <2>4
    <3> QED BY <2>3, <2>4, <3>1, <3>2
  <2>5. CASE ~(c = v[1] /\ p - v[2] + 1 \in 1 .. N)
    <3>1. p = v[2] + n => p - v[2] + 1 \in 1 .. N
      BY <2>1, <2>2 DEF Sizes
    <3> QED BY <2>3, <2>5, <3>1
  <2> QED BY <2>4, <2>5
<1>8. Holds(s)
  BY <1>6 DEF Holds
<1>9. g.mem[0][0] = h.mem[0][0] /\ OfMem(g.mem) = [OfMem(h.mem) EXCEPT ![x] = s]
  <2>1. Becomes(h, g.mem, x, s)
    BY <1>7 DEF v, Becomes
  <2> QED BY <2>1, <1>8, Updated
<1>10. ArrayHeap(g)
  <2>1. Shape(g.mem)
    BY <1>5, <1>9, ShapeKept DEF ArrayHeap, Shape
  <2> QED BY <1>5, <1>9, <2>1 DEF ArrayHeap
<1> QED BY <1>5, <1>9, <1>10 DEF g, v, s

-----------------------------------------------------------------------------
(* The array that is created and deleted *)

\* A store to the pointer to b.
LEMMA AssignRoot ==
    ASSUME Sizes, NEW h, Logged(h), 0 \in DOMAIN h.mem, 0 \in DOMAIN h.mem[0], NEW b
    PROVE  LET g == Assign(h, RootB, b)
           IN  /\ Logged(g) /\ Back(g) = Back(h) /\ DOMAIN g.mem = DOMAIN h.mem
               /\ \A c \in DOMAIN h.mem :
                     /\ DOMAIN g.mem[c] = DOMAIN h.mem[c]
                     /\ \A p \in DOMAIN h.mem[c] :
                           g.mem[c][p] = IF c = 0 /\ p = 0 THEN b ELSE h.mem[c][p]
               /\ g.freed = h.freed /\ g.broken = h.broken
<1> DEFINE k == Snapshot(h, {RootB})
<1> DEFINE g == Assign(h, RootB, b)
<1>1. g = Store(k, <<0, 0>>, b)
  BY DEF Assign, RootB
<1>2. /\ Logged(k) /\ Back(k) = Back(h) /\ k.mem = h.mem /\ k.range = h.range \cup {RootB}
      /\ k.freed = h.freed /\ k.broken = h.broken
  BY SnapshotLogs
<1> HIDE DEF k, g
<1>3. <<0, 0>> \in k.range
  BY <1>2 DEF RootB
<1>4. /\ Logged(g) /\ Back(g) = Back(k) /\ DOMAIN g.mem = DOMAIN k.mem
      /\ \A c \in DOMAIN k.mem :
            /\ DOMAIN g.mem[c] = DOMAIN k.mem[c]
            /\ \A p \in DOMAIN k.mem[c] :
                  g.mem[c][p] = IF c = 0 /\ p = 0 THEN b ELSE k.mem[c][p]
      /\ g.freed = k.freed /\ g.broken = k.broken
  <2>1. 0 \in DOMAIN k.mem /\ 0 \in DOMAIN k.mem[0]
    BY <1>2
  <2> QED BY <1>1, <1>2, <1>3, <2>1, StoreLogs
<1> QED BY <1>2, <1>4 DEF g

LEMMA MakeB ==
    ASSUME Sizes, NEW h, ArrayHeap(h), h.oom # 1, "b" \in Names, h.mem[0][0] = 0
    PROVE  LET b == NewBlock(h)
               g == Assign(construct(Alloc(h, N), <<b, 0>>), RootB, b)
           IN  /\ Alloc(h, N).failed = FALSE /\ construct(Alloc(h, N), <<b, 0>>).failed = FALSE
               /\ ArrayHeap(g) /\ Back(g) = Back(h)
               /\ OfMem(g.mem) = [OfMem(h.mem) EXCEPT !["b"] = Same(0)]
<1> DEFINE b == NewBlock(h)
<1> DEFINE i == Alloc(h, N)
<1> DEFINE vals == [l \in Cells(<<b, 0>>, N) |-> Same(0)[l[2] - <<b, 0>>[2] + 1]]
<1> DEFINE k == construct(i, <<b, 0>>)
<1> DEFINE g == Assign(k, RootB, b)
<1>1. /\ Logged(h) /\ DOMAIN h.mem \subseteq Nat /\ IsFiniteSet(DOMAIN h.mem)
      /\ 0 \in DOMAIN h.mem /\ DOMAIN h.mem[0] = 0 .. N
      /\ \A c \in DOMAIN h.mem : DOMAIN h.mem[c] = CellsOf(c)
      /\ h.freed \subseteq DOMAIN h.mem /\ 0 \notin h.freed /\ h.broken = FALSE
  BY DEF ArrayHeap, Shape, CellsOf
<1>2. b \in Nat \ {0} /\ b \notin DOMAIN h.mem
  BY <1>1, NewBlockIsNew
<1>3. /\ Logged(i) /\ Back(i) = Back(h) /\ DOMAIN i.mem = DOMAIN h.mem \cup {b}
      /\ DOMAIN i.mem[b] = 0 .. N - 1 /\ \A c \in DOMAIN h.mem : i.mem[c] = h.mem[c]
      /\ i.range = h.range \cup {<<b, o>> : o \in 0 .. N - 1}
      /\ i.freed = h.freed /\ i.broken = h.broken
  <2>1. N \in Nat
    BY DEF Sizes
  <2> QED BY <1>1, <2>1, AllocLogs
<1>4. k = StoreCells(i, vals)
  BY DEF construct, StoreAll
<1> HIDE DEF b, i, k, g
<1>5. DOMAIN vals = {<<b, o>> : o \in 0 .. N - 1}
  <2>1. ASSUME NEW o \in 0 .. N - 1 PROVE <<b, 0 + o>> = <<b, o>>
    BY DEF Sizes
  <2>2. DOMAIN vals = {<<b, 0 + o>> : o \in 0 .. N - 1}
    BY DEF Cells
  <2> QED BY <2>1, <2>2
<1>6. ASSUME NEW o \in 0 .. N - 1 PROVE vals[<<b, o>>] = 0
  <2>1. <<b, o>> \in Cells(<<b, 0>>, N)
    BY <1>5
  <2>2. o - 0 + 1 \in 1 .. N
    BY DEF Sizes
  <2>3. vals[<<b, o>>] = Same(0)[o - 0 + 1]
    BY <2>1
  <2> QED BY <2>2, <2>3 DEF Same
<1> HIDE DEF vals
<1>7. /\ Logged(k) /\ Back(k) = Back(i) /\ DOMAIN k.mem = DOMAIN i.mem
      /\ \A c \in DOMAIN i.mem :
            /\ DOMAIN k.mem[c] = DOMAIN i.mem[c]
            /\ \A p \in DOMAIN i.mem[c] :
                  k.mem[c][p] = IF <<c, p>> \in DOMAIN vals THEN vals[<<c, p>>] ELSE i.mem[c][p]
      /\ k.freed = i.freed /\ k.broken = i.broken
  <2>1. DOMAIN vals \subseteq i.range
    BY <1>3, <1>5
  <2> QED BY <1>3, <1>4, <2>1, StoreCellsLogs
<1>8. /\ DOMAIN k.mem = DOMAIN h.mem \cup {b} /\ DOMAIN k.mem[b] = 0 .. N - 1
      /\ \A c \in DOMAIN h.mem : DOMAIN k.mem[c] = DOMAIN h.mem[c]
      /\ \A p \in 0 .. N : k.mem[0][p] = h.mem[0][p]
      /\ \A p \in 0 .. N - 1 : k.mem[b][p] = 0
  <2>1. \A p : <<0, p>> \notin DOMAIN vals
    BY <1>2, <1>5
  <2>2. \A p \in 0 .. N - 1 : <<b, p>> \in DOMAIN vals
    BY <1>5
  <2>3. \A p \in 0 .. N - 1 : k.mem[b][p] = 0
    BY <1>3, <1>6, <1>7, <2>2
  <2>4. \A p \in 0 .. N : k.mem[0][p] = h.mem[0][p]
    <3> SUFFICES ASSUME NEW p \in 0 .. N PROVE k.mem[0][p] = h.mem[0][p]
      OBVIOUS
    <3>1. i.mem[0] = h.mem[0] /\ 0 \in DOMAIN i.mem /\ p \in DOMAIN i.mem[0]
      BY <1>1, <1>3
    <3>2. k.mem[0][p] = IF <<0, p>> \in DOMAIN vals THEN vals[<<0, p>>] ELSE i.mem[0][p]
      BY <1>7, <3>1
    <3> QED BY <2>1, <3>1, <3>2
  <2>5. \A c \in DOMAIN h.mem : DOMAIN k.mem[c] = DOMAIN h.mem[c]
    BY <1>3, <1>7
  <2> QED BY <1>3, <1>7, <2>3, <2>4, <2>5
<1>9. /\ Logged(g) /\ Back(g) = Back(k) /\ DOMAIN g.mem = DOMAIN k.mem
      /\ \A c \in DOMAIN k.mem :
            /\ DOMAIN g.mem[c] = DOMAIN k.mem[c]
            /\ \A p \in DOMAIN k.mem[c] :
                  g.mem[c][p] = IF c = 0 /\ p = 0 THEN b ELSE k.mem[c][p]
      /\ g.freed = k.freed /\ g.broken = k.broken
  <2>1. 0 \in DOMAIN k.mem /\ 0 \in DOMAIN k.mem[0]
    BY <1>1, <1>8 DEF Sizes
  <2> QED BY <1>7, <2>1, AssignRoot DEF g
<1>10. /\ DOMAIN g.mem = DOMAIN h.mem \cup {b} /\ DOMAIN g.mem[b] = 0 .. N - 1
       /\ \A c \in DOMAIN h.mem : DOMAIN g.mem[c] = DOMAIN h.mem[c]
       /\ g.mem[0][0] = b
       /\ \A p \in 1 .. N : g.mem[0][p] = h.mem[0][p]
       /\ \A p \in 0 .. N - 1 : g.mem[b][p] = 0
  <2>1. 0 \in DOMAIN k.mem /\ DOMAIN k.mem[0] = 0 .. N /\ b \in DOMAIN k.mem
    BY <1>1, <1>8
  <2>2. 0 \in 0 .. N /\ \A p \in 1 .. N : p \in 0 .. N /\ p # 0
    BY DEF Sizes
  <2>3. g.mem[0][0] = b
    BY <1>9, <2>1, <2>2
  <2>4. \A p \in 1 .. N : g.mem[0][p] = h.mem[0][p]
    BY <1>8, <1>9, <2>1, <2>2
  <2>5. \A p \in 0 .. N - 1 : g.mem[b][p] = 0
    <3> SUFFICES ASSUME NEW p \in 0 .. N - 1 PROVE g.mem[b][p] = 0
      OBVIOUS
    <3>1. g.mem[b][p] = IF b = 0 /\ p = 0 THEN b ELSE k.mem[b][p]
      BY <1>8, <1>9, <2>1
    <3>2. k.mem[b][p] = 0 /\ b # 0
      BY <1>2, <1>8
    <3> QED BY <3>1, <3>2
  <2>6. \A c \in DOMAIN h.mem : DOMAIN g.mem[c] = DOMAIN h.mem[c]
    BY <1>8, <1>9
  <2> QED BY <1>8, <1>9, <2>1, <2>3, <2>4, <2>5, <2>6
<1>11. Shape(g.mem)
  <2>1. IsFiniteSet(DOMAIN g.mem)
    BY <1>1, <1>10, FS_AddElement
  <2>2. ASSUME NEW c \in DOMAIN g.mem PROVE DOMAIN g.mem[c] = CellsOf(c)
    BY <1>1, <1>2, <1>10 DEF CellsOf
  <2> QED BY <1>1, <1>2, <1>10, <2>1, <2>2 DEF Shape
<1>12. ArrayHeap(g) /\ Back(g) = Back(h)
  BY <1>1, <1>2, <1>3, <1>7, <1>9, <1>10, <1>11 DEF ArrayHeap
<1>13. OfMem(g.mem) = [OfMem(h.mem) EXCEPT !["b"] = Same(0)]
  <2> DEFINE f == OfMem(g.mem)
  <2> DEFINE u == [OfMem(h.mem) EXCEPT !["b"] = Same(0)]
  <2>1. DOMAIN f = Names /\ f = [x \in Names |-> f[x]] /\ DOMAIN OfMem(h.mem) = Names
    BY OfMemIs, OfMemFunction
  <2>2. /\ DOMAIN u = Names /\ u = [x \in Names |-> u[x]] /\ u["b"] = Same(0)
        /\ u["a"] = OfMem(h.mem)["a"]
    BY <2>1 DEF Sizes
  <2>3. f["a"] = OfMem(h.mem)["a"]
    <3>1. f["a"] = [j \in 1 .. N |-> g.mem[0][j]]
      BY OfMemIs
    <3>2. OfMem(h.mem)["a"] = [j \in 1 .. N |-> h.mem[0][j]]
      BY OfMemIs
    <3> QED BY <1>10, <3>1, <3>2
  <2>4. f["b"] = Same(0)
    <3>1. g.mem[0][0] # 0
      BY <1>2, <1>10
    <3>2. f["b"] = [j \in 1 .. N |-> g.mem[g.mem[0][0]][j - 1]]
      BY <3>1, OfMemIs
    <3>3. f["b"] = [j \in 1 .. N |-> g.mem[b][j - 1]]
      BY <1>10, <3>2
    <3>4. ASSUME NEW j \in 1 .. N PROVE g.mem[b][j - 1] = 0
      <4>1. j - 1 \in 0 .. N - 1
        BY DEF Sizes
      <4> QED BY <1>10, <4>1
    <3> QED BY <3>3, <3>4 DEF Same
  <2> HIDE DEF f, u
  <2>5. f = u
    BY <2>1, <2>2, <2>3, <2>4, SameContents
  <2> QED BY <2>5 DEF f, u
<1>14. i.failed = FALSE /\ k.failed = FALSE
  BY <1>3, <1>7 DEF Logged
<1> QED BY <1>12, <1>13, <1>14 DEF b, i, k, g

LEMMA DeleteB ==
    ASSUME Sizes, NEW h, ArrayHeap(h), "b" \in Names, Exists(h, "b")
    PROVE  LET g == Assign(Free(h, Obj(h, "b")[1]), RootB, Nil)
           IN  /\ ArrayHeap(g) /\ Back(g) = Back(h)
               /\ OfMem(g.mem) = [OfMem(h.mem) EXCEPT !["b"] = Absent]
<1> DEFINE b == h.mem[0][0]
<1> DEFINE k == Free(h, b)
<1> DEFINE g == Assign(k, RootB, Nil)
<1>1. Obj(h, "b")[1] = b /\ b # 0
  <2>1. Obj(h, "b") = <<b, 0>> /\ b # 0
    BY ArrayIs
  <2> QED BY <2>1
<1>2. /\ Logged(h) /\ DOMAIN h.mem \subseteq Nat /\ IsFiniteSet(DOMAIN h.mem)
      /\ 0 \in DOMAIN h.mem /\ DOMAIN h.mem[0] = 0 .. N /\ b \in DOMAIN h.mem
      /\ h.freed \subseteq DOMAIN h.mem /\ 0 \notin h.freed /\ h.broken = FALSE
  BY DEF ArrayHeap, Shape, CellsOf
<1>3. /\ Logged(k) /\ Back(k) = Back(h) /\ k.mem = h.mem
      /\ k.freed = h.freed \cup {b} /\ k.broken = h.broken
  BY <1>1, <1>2, FreeLogs DEF Nil
<1> HIDE DEF b, k, g
<1>4. /\ Logged(g) /\ Back(g) = Back(k) /\ DOMAIN g.mem = DOMAIN k.mem
      /\ \A c \in DOMAIN k.mem :
            /\ DOMAIN g.mem[c] = DOMAIN k.mem[c]
            /\ \A p \in DOMAIN k.mem[c] :
                  g.mem[c][p] = IF c = 0 /\ p = 0 THEN Nil ELSE k.mem[c][p]
      /\ g.freed = k.freed /\ g.broken = k.broken
  <2>1. 0 \in DOMAIN k.mem /\ 0 \in DOMAIN k.mem[0]
    BY <1>2, <1>3 DEF Sizes
  <2> QED BY <1>3, <2>1, AssignRoot DEF g
<1>5. g.mem[0][0] = 0 /\ \A p \in 1 .. N : g.mem[0][p] = h.mem[0][p]
  <2>1. 0 \in 0 .. N /\ \A p \in 1 .. N : p \in 0 .. N /\ p # 0
    BY DEF Sizes
  <2> QED BY <1>2, <1>3, <1>4, <2>1 DEF Nil
<1>6. Shape(g.mem)
  BY <1>2, <1>3, <1>4, <1>5, ShapeKept DEF ArrayHeap
<1>7. ArrayHeap(g) /\ Back(g) = Back(h)
  BY <1>1, <1>2, <1>3, <1>4, <1>5, <1>6 DEF ArrayHeap
<1>8. OfMem(g.mem) = [OfMem(h.mem) EXCEPT !["b"] = Absent]
  <2> DEFINE f == OfMem(g.mem)
  <2> DEFINE u == [OfMem(h.mem) EXCEPT !["b"] = Absent]
  <2>1. DOMAIN f = Names /\ f = [x \in Names |-> f[x]] /\ DOMAIN OfMem(h.mem) = Names
    BY OfMemIs, OfMemFunction
  <2>2. /\ DOMAIN u = Names /\ u = [x \in Names |-> u[x]] /\ u["b"] = Absent
        /\ u["a"] = OfMem(h.mem)["a"]
    BY <2>1 DEF Sizes
  <2>3. f["a"] = OfMem(h.mem)["a"]
    <3>1. f["a"] = [j \in 1 .. N |-> g.mem[0][j]]
      BY OfMemIs
    <3>2. OfMem(h.mem)["a"] = [j \in 1 .. N |-> h.mem[0][j]]
      BY OfMemIs
    <3> QED BY <1>5, <3>1, <3>2
  <2>4. f["b"] = Absent
    BY <1>5, OfMemIs
  <2> HIDE DEF f, u
  <2>5. f = u
    BY <2>1, <2>2, <2>3, <2>4, SameContents
  <2> QED BY <2>5 DEF f, u
<1> QED BY <1>1, <1>7, <1>8 DEF k, g

-----------------------------------------------------------------------------
(* Ranges of snapshots: the one of position p begins at p - p % ss *)

LEMMA MultipleOf ==
    ASSUME NEW k \in Int, NEW ss \in Nat \ {0}
    PROVE  (ss * k) % ss = 0
  OBVIOUS

LEMMA RangeBegin ==
    ASSUME NEW p \in Nat, NEW ss \in Nat \ {0}
    PROVE  /\ p - (p % ss) \in Nat /\ p - (p % ss) <= p /\ p < p - (p % ss) + ss
           /\ (p - (p % ss)) % ss = 0
<1>1. p % ss \in 0 .. ss - 1
  OBVIOUS
<1>2. p % ss <= p
  OBVIOUS
<1>3. (p - (p % ss)) % ss = 0
  <2>1. PICK k \in Int : k = p \div ss
    OBVIOUS
  <2>2. PICK r \in Int : r = p % ss
    OBVIOUS
  <2>3. p - r = ss * k
    BY <2>1, <2>2
  <2> QED BY <2>2, <2>3, MultipleOf
<1> QED BY <1>1, <1>2, <1>3

LEMMA RangeEnd ==
    ASSUME NEW f \in Nat, NEW ss \in Nat \ {0}, f % ss = 0
    PROVE  (f + ss) % ss = 0
<1>1. PICK k \in Int : k = f \div ss
  OBVIOUS
<1>2. f = ss * k
  BY <1>1
<1>3. k \in Nat /\ k + 1 \in Nat
  BY <1>2
<1>4. f + ss = ss * (k + 1)
  BY <1>2, <1>3
<1>5. (ss * (k + 1)) % ss = 0
  BY <1>3, MultipleOf
<1> QED BY <1>4, <1>5

LEMMA SameRange ==
    ASSUME NEW p \in Nat, NEW q \in Nat, NEW ss \in Nat \ {0}, p \div ss = q \div ss
    PROVE  p - (p % ss) = q - (q % ss)
  OBVIOUS

\* All elements of the range of p, in a slice of n elements from d on, are in
\* the transaction.
RangeAdded(h, d, n, ss, p) ==
    \A q \in 0 .. n - 1 : q - (q % ss) = p - (p % ss) => Plus(d, q) \in h.range

LEMMA SnapshotRange ==
    ASSUME NEW h, ArrayHeap(h), NEW d1, NEW d2 \in Nat, NEW n \in Nat, NEW ss \in 1 .. n,
           NEW p \in 0 .. n
    PROVE  LET g == snapshot_range(h, <<d1, d2>>, n, ss, p)
           IN  /\ ArrayHeap(g) /\ Back(g) = Back(h) /\ g.mem = h.mem
               /\ h.range \subseteq g.range /\ RangeAdded(g, <<d1, d2>>, n, ss, p)
<1> DEFINE d == <<d1, d2>>
<1> DEFINE first == p - (p % ss)
<1> DEFINE len == IF first + ss > n THEN n - first ELSE ss
<1> DEFINE verified == first >= 0 /\ first % ss = 0 /\ ((first + len) % ss = 0 \/ first + len = n)
<1> DEFINE L == Cells(Plus(d, first), len)
<1> DEFINE g == snapshot_range(h, d, n, ss, p)
<1>1. p \in Nat /\ ss \in Nat \ {0} /\ ss \in Int
  OBVIOUS
<1>2. first \in Nat /\ first <= p /\ first % ss = 0
  BY <1>1, RangeBegin
<1>3. verified
  <2>1. CASE first + ss > n
    <3>1. len = n - first
      BY <2>1
    <3> HIDE DEF len
    <3>2. first + len = n
      <4> HIDE DEF first
      <4> QED BY <1>2, <3>1
    <3> QED BY <1>2, <3>2
  <2>2. CASE ~(first + ss > n)
    <3>1. len = ss
      BY <2>2
    <3>2. (first + ss) % ss = 0
      <4> HIDE DEF first
      <4> QED BY <1>1, <1>2, RangeEnd
    <3> QED BY <1>2, <3>1, <3>2
  <2> QED BY <2>1, <2>2
<1>4. g = Snapshot(Asserted(h, verified), L)
  BY DEF snapshot_range
<1>5. Asserted(h, verified) = h
  <2> HIDE DEF verified
  <2> QED BY <1>3 DEF Asserted
<1>6. g = Snapshot(h, L)
  BY <1>4, <1>5
<1> HIDE DEF g
<1>7. ASSUME NEW q \in 0 .. n - 1, q - (q % ss) = first PROVE Plus(d, q) \in L
  <2>1. q \in Nat /\ first <= q /\ q < first + ss
    BY <1>1, <1>7, RangeBegin
  <2>2. first \in Int /\ n \in Int /\ q < n /\ q \in Int
    BY <1>2
  <2> HIDE DEF first
  <2>3. q - first \in 0 .. (len - 1)
    <3>1. CASE first + ss > n
      BY <1>1, <2>1, <2>2, <3>1
    <3>2. CASE ~(first + ss > n)
      BY <1>1, <2>1, <2>2, <3>2
    <3> QED BY <3>1, <3>2
  <2> HIDE DEF len
  <2>4. Plus(d, q) = <<Plus(d, first)[1], Plus(d, first)[2] + (q - first)>>
    BY <2>2 DEF Plus
  <2> QED BY <2>3, <2>4 DEF Cells
<1> HIDE DEF L
<1>8. /\ ArrayHeap(g) /\ Back(g) = Back(h) /\ g.mem = h.mem /\ g.range = h.range \cup L
  BY <1>6, SnapshotArray
<1>9. RangeAdded(g, d, n, ss, p)
  BY <1>7, <1>8 DEF RangeAdded
<1> QED BY <1>8, <1>9 DEF g

-----------------------------------------------------------------------------
(* The inductive invariant *)

\* A rollback leaves what was committed last, and the memory holds what the
\* standard library's arrays would hold: also after the application has caught
\* what a method threw, since no method changes anything before it throws.
HeapInv ==
    /\ ~spoilt
    /\ ArrayHeap(heap) /\ OfMem(Back(heap)) = committed
    /\ ops \in Int /\ ops >= -1
    /\ ops = -1 => Settled(heap) /\ cur = committed /\ it = NoIterator
    /\ ops >= 0 => OfMem(heap.mem) = cur

\* The iterator is in a slice of the array x that begins at start.
Within(x, start) ==
    /\ Exists(heap, x) /\ it.data = Elem(Arr(x), start)
    /\ start + it.size <= N

\* The range of snapshots that the iterator is in was added to the transaction,
\* and so was the one of the slice's end, from where it may come back.
ItInv ==
    it # NoIterator =>
        /\ ops >= 0
        /\ it = [data |-> it.data, size |-> it.size, snapshot_size |-> it.snapshot_size,
                 pos |-> it.pos]
        /\ it.size \in 0 .. N /\ it.pos \in 0 .. it.size
        /\ it.snapshot_size \in 0 .. it.size
        /\ it.size > 0 => it.snapshot_size > 0
        /\ \E x \in Names, start \in 0 .. N : Within(x, start)
        /\ it.size > 0 =>
              /\ RangeAdded(heap, it.data, it.size, it.snapshot_size, it.pos)
              /\ RangeAdded(heap, it.data, it.size, it.snapshot_size, it.size)

IInv == HeapInv /\ ItInv

-----------------------------------------------------------------------------
(* The beginning and the end of a transaction *)

LEMMA SettledArray ==
    ASSUME Sizes, NEW h, Settled(h), Shape(h.mem), h.broken = FALSE
    PROVE  ArrayHeap(h) /\ OfMem(Back(h)) = OfMem(h.mem)
<1>1. /\ Logged(h) /\ DOMAIN Back(h) = DOMAIN h.mem
      /\ \A b \in DOMAIN h.mem :
            /\ DOMAIN Back(h)[b] = DOMAIN h.mem[b]
            /\ \A o \in DOMAIN h.mem[b] : Back(h)[b][o] = h.mem[b][o]
  BY SettledIsLogged
<1>2. /\ 0 \in DOMAIN h.mem /\ h.mem[0][0] \in DOMAIN h.mem /\ DOMAIN h.mem[0] = 0 .. N
      /\ h.mem[0][0] # 0 => DOMAIN h.mem[h.mem[0][0]] = 0 .. N - 1
  BY DEF Shape, CellsOf
<1>3. 0 \in 0 .. N /\ \A o \in 1 .. N : o \in 0 .. N
  BY DEF Sizes
<1>4. Back(h)[0][0] = h.mem[0][0] /\ \A o \in 1 .. N : Back(h)[0][o] = h.mem[0][o]
  BY <1>1, <1>2, <1>3
<1>5. ASSUME h.mem[0][0] # 0, NEW o \in 0 .. N - 1
      PROVE  Back(h)[h.mem[0][0]][o] = h.mem[h.mem[0][0]][o]
  BY <1>1, <1>2, <1>5
<1>6. Shape(Back(h))
  BY <1>1, <1>2, <1>4, ShapeKept
<1>7. h.freed = {}
  BY DEF Settled
<1>8. ArrayHeap(h)
  BY <1>1, <1>6, <1>7 DEF ArrayHeap
<1>9. OfMem(Back(h)) = OfMem(h.mem)
  BY <1>4, <1>5, Agree
<1> QED BY <1>8, <1>9

LEMMA RollbackKeeps ==
    ASSUME Sizes, IInv, NEW h, Rollback(h), Settled(h), h.mem = Back(heap),
           h.broken = heap.broken, it' = NoIterator
    PROVE  IInv'
<1>1. /\ heap' = h /\ ops' = -1 /\ cur' = committed /\ committed' = committed /\ ~spoilt'
  BY DEF Rollback
<1>2. Shape(h.mem) /\ h.broken = FALSE /\ OfMem(h.mem) = committed
  BY DEF IInv, HeapInv, ArrayHeap
<1>3. ArrayHeap(h) /\ OfMem(Back(h)) = committed
  BY <1>2, SettledArray
<1>4. HeapInv'
  BY <1>1, <1>3 DEF HeapInv
<1> QED BY <1>4 DEF IInv, ItInv

LEMMA BeginKeeps ==
    ASSUME Sizes, IInv, Begin, it' = NoIterator PROVE IInv'
<1>1. PICK oom \in Ooms : heap' = [heap EXCEPT !.oom = oom]
  BY DEF Begin
<1>2. /\ ops = -1 /\ ops' = MaxOps /\ MaxOps \in Nat /\ cur' = cur /\ committed' = committed
      /\ ~spoilt'
  BY DEF Begin, Sizes, IInv, HeapInv
<1>3. /\ Settled(heap) /\ Shape(heap.mem) /\ heap.broken = FALSE /\ cur = committed
      /\ OfMem(Back(heap)) = committed
  BY <1>2 DEF IInv, HeapInv, ArrayHeap
<1>4. Settled(heap') /\ heap'.mem = heap.mem /\ heap'.broken = heap.broken
  <2> DEFINE g == [heap EXCEPT !.oom = oom]
  <2>1. IsHeap(heap)
    BY <1>3 DEF Settled
  <2>2. /\ IsHeap(g) /\ g.failed = heap.failed /\ g.dirty = heap.dirty /\ g.undo = heap.undo
        /\ g.range = heap.range /\ g.fresh = heap.fresh /\ g.freed = heap.freed
        /\ g.mem = heap.mem /\ g.broken = heap.broken
    BY <2>1 DEF IsHeap
  <2>3. heap' = g
    BY <1>1
  <2> HIDE DEF g
  <2>4. Settled(g)
    BY <1>3, <2>2 DEF Settled
  <2> QED BY <2>2, <2>3, <2>4
<1>5. OfMem(heap.mem) = committed
  BY <1>3, SettledArray
<1>6. ArrayHeap(heap') /\ OfMem(Back(heap')) = committed
  BY <1>3, <1>4, <1>5, SettledArray
<1>7. HeapInv'
  BY <1>2, <1>3, <1>4, <1>5, <1>6 DEF HeapInv
<1> QED BY <1>7 DEF IInv, ItInv

LEMMA CommitKeeps ==
    ASSUME Sizes, IInv, CommitTx, it' = NoIterator PROVE IInv'
<1>1. /\ ops >= 0 /\ heap' = Commit(heap) /\ ops' = -1 /\ committed' = cur /\ cur' = cur
      /\ ~spoilt'
  BY DEF CommitTx
<1>2. ArrayHeap(heap) /\ OfMem(heap.mem) = cur
  BY <1>1 DEF IInv, HeapInv
<1> DEFINE g == Commit(heap)
<1> DEFINE b == heap.mem[0][0]
<1>3. /\ Settled(g) /\ g.broken = heap.broken /\ DOMAIN g.mem = DOMAIN heap.mem \ heap.freed
      /\ \A c \in DOMAIN heap.mem \ heap.freed : g.mem[c] = heap.mem[c]
  BY <1>2, CommitSettles DEF ArrayHeap
<1> HIDE DEF g
<1>4. /\ DOMAIN heap.mem \subseteq Nat /\ IsFiniteSet(DOMAIN heap.mem)
      /\ 0 \in DOMAIN heap.mem \ heap.freed /\ b \in DOMAIN heap.mem \ heap.freed
      /\ \A c \in DOMAIN heap.mem : DOMAIN heap.mem[c] = CellsOf(c)
      /\ heap.broken = FALSE
  BY <1>2 DEF ArrayHeap, Shape
<1>5. g.mem[0] = heap.mem[0] /\ g.mem[b] = heap.mem[b]
  BY <1>3, <1>4
<1>6. Shape(g.mem)
  <2>1. IsFiniteSet(DOMAIN g.mem)
    BY <1>3, <1>4, FS_Subset
  <2>2. ASSUME NEW c \in DOMAIN g.mem PROVE DOMAIN g.mem[c] = CellsOf(c)
    BY <1>3, <1>4
  <2>3. DOMAIN g.mem \subseteq Nat /\ 0 \in DOMAIN g.mem /\ g.mem[0][0] \in DOMAIN g.mem
    BY <1>3, <1>4, <1>5
  <2> QED BY <2>1, <2>2, <2>3 DEF Shape
<1>7. OfMem(g.mem) = cur
  <2>1. OfMem(g.mem) = OfMem(heap.mem)
    BY <1>5, Agree
  <2> QED BY <1>2, <2>1
<1>8. ArrayHeap(g) /\ OfMem(Back(g)) = cur
  BY <1>3, <1>4, <1>6, <1>7, SettledArray
<1>9. HeapInv'
  BY <1>1, <1>3, <1>7, <1>8 DEF HeapInv, g
<1> QED BY <1>9 DEF IInv, ItInv

LEMMA TransactionsKeep ==
    ASSUME Sizes, IInv, Transactions, it' = NoIterator PROVE IInv'
<1>1. Logged(heap)
  BY DEF IInv, HeapInv, ArrayHeap
<1>2. CASE Begin
  BY <1>2, BeginKeeps
<1>3. CASE CommitTx
  BY <1>3, CommitKeeps
<1>4. CASE AbortTx
  <2>1. Rollback(Abort(heap))
    BY <1>4 DEF AbortTx
  <2> QED BY <1>1, <2>1, AbortSettles, RollbackKeeps
<1>5. CASE Crash
  <2>1. PICK lost \in SUBSET Volatile(heap) : Rollback(Recover(heap, lost))
    BY <1>5 DEF Crash
  <2>2. /\ Settled(Recover(heap, lost)) /\ Recover(heap, lost).mem = Back(heap)
        /\ Recover(heap, lost).broken = heap.broken
    BY <1>1, RecoverSettles
  <2> QED BY <2>1, <2>2, RollbackKeeps
<1> QED BY <1>2, <1>3, <1>4, <1>5 DEF Transactions

-----------------------------------------------------------------------------
(* Methods *)

LEMMA MethodKeeps ==
    ASSUME IInv, NEW h, NEW std, Method(h, std), ArrayHeap(h), Back(h) = Back(heap),
           OfMem(h.mem) = std
    PROVE  HeapInv' /\ heap' = h /\ ops' \in Int /\ ops' >= 0
<1>1. h.failed = FALSE
  BY DEF ArrayHeap, Logged
<1>2. /\ heap' = h /\ ops > 0 /\ ops' = ops - 1 /\ cur' = std /\ committed' = committed
      /\ ~spoilt'
  BY <1>1 DEF Method, Callable
<1>3. ops' \in Int /\ ops' >= 0
  BY <1>2 DEF IInv, HeapInv
<1>4. HeapInv'
  BY <1>2, <1>3 DEF IInv, HeapInv
<1> QED BY <1>2, <1>3, <1>4

LEMMA CallKeeps ==
    ASSUME IInv, NEW h, NEW std, Call(h, std), ArrayHeap(h), Back(h) = Back(heap),
           OfMem(h.mem) = std
    PROVE  IInv'
<1>1. Method(h, std) /\ it' = NoIterator
  BY DEF Call
<1>2. HeapInv'
  BY <1>1, MethodKeeps
<1> QED BY <1>1, <1>2 DEF IInv, ItInv

LEMMA ThrowKeeps ==
    ASSUME Sizes, IInv, NEW std, NEW h, Threw(heap, h), Method(h, std), it' = NoIterator
    PROVE  IInv'
<1> DEFINE g == Caught(h)
<1>1. /\ ArrayHeap(heap) /\ ops > 0 /\ ops \in Int /\ OfMem(heap.mem) = cur
      /\ OfMem(Back(heap)) = committed
  BY DEF IInv, HeapInv, Method, Callable
<1>2. /\ h.failed = TRUE /\ h.mem = heap.mem /\ h.freed = heap.freed
      /\ Logged(g) /\ Back(g) = Back(heap)
      /\ g.mem = heap.mem /\ g.freed = heap.freed /\ g.broken = heap.broken
  BY <1>1, ThrowChangesNothing DEF ArrayHeap
<1>3. \/ Rollback(Abort(g))
      \/ /\ heap' = g /\ ops' = ops - 1 /\ cur' = cur /\ committed' = committed
         /\ spoilt' = (h.mem # heap.mem \/ h.freed # heap.freed)
  BY <1>2 DEF Method
<1> HIDE DEF g
<1>4. CASE Rollback(Abort(g))
  <2>1. Settled(Abort(g)) /\ Abort(g).mem = Back(heap) /\ Abort(g).broken = heap.broken
    BY <1>2, AbortSettles
  <2> QED BY <1>4, <2>1, RollbackKeeps
<1>5. CASE /\ heap' = g /\ ops' = ops - 1 /\ cur' = cur /\ committed' = committed
           /\ spoilt' = (h.mem # heap.mem \/ h.freed # heap.freed)
  <2>1. ~spoilt'
    BY <1>2, <1>5
  <2>2. ArrayHeap(g)
    BY <1>1, <1>2 DEF ArrayHeap
  <2>3. ops' \in Int /\ ops' >= 0
    BY <1>1, <1>5
  <2>4. HeapInv'
    BY <1>1, <1>2, <1>5, <2>1, <2>2, <2>3 DEF HeapInv
  <2> QED BY <2>4 DEF IInv, ItInv
<1> QED BY <1>3, <1>4, <1>5

\* What a call with arguments in this state starts from.
LEMMA UsableIs ==
    ASSUME Sizes, IInv, NEW x \in Names, Usable(x)
    PROVE  /\ ArrayHeap(heap) /\ OfMem(heap.mem) = cur /\ Exists(heap, x)
           /\ DOMAIN cur = Names /\ cur = [z \in Names |-> cur[z]]
           /\ Elems(heap, Arr(x)) = cur[x] /\ Holds(cur[x])
<1>1. ArrayHeap(heap) /\ OfMem(heap.mem) = cur /\ Exists(heap, x)
  BY DEF Usable, Callable, IInv, HeapInv
<1>2. cur = Contents(heap)
  BY <1>1, ContentsIs
<1>3. /\ DOMAIN cur = Names /\ cur = [z \in Names |-> cur[z]]
      /\ Elems(heap, Arr(x)) = cur[x]
  BY <1>1, <1>2 DEF Contents, Arr
<1>4. Holds(cur[x])
  <2>1. cur[x] = [i \in 1 .. N |-> heap.mem[Obj(heap, x)[1]][Obj(heap, x)[2] + i - 1]]
    BY <1>1, ArrayIs
  <2> QED BY <2>1 DEF Holds
<1> QED BY <1>1, <1>3, <1>4

LEMMA Apart ==
    ASSUME Sizes, NEW h, ArrayHeap(h), NEW x \in Names, NEW y \in Names,
           Exists(h, x), Exists(h, y), x # y
    PROVE  Obj(h, x)[1] # Obj(h, y)[1] /\ Obj(h, x) # Obj(h, y)
<1>1. (x = "a" /\ y = "b") \/ (x = "b" /\ y = "a")
  BY DEF Sizes
<1>2. \A z \in Names : z = "a" /\ Exists(h, z) => Obj(h, z)[1] = 0
  BY DEF Obj
<1>3. ASSUME NEW z \in Names, z = "b", Exists(h, z) PROVE Obj(h, z)[1] # 0
  <2>1. Obj(h, z) = <<h.mem[0][0], 0>> /\ h.mem[0][0] # 0
    BY <1>3, ArrayIs
  <2> QED BY <2>1
<1> QED BY <1>1, <1>2, <1>3

\* All of x is in the transaction and then assigned.
LEMMA AddAndStore ==
    ASSUME Sizes, IInv, NEW x \in Names, Usable(x), NEW s, Holds(s), NEW L,
           Cells(Arr(x), N) \subseteq L
    PROVE  LET g == StoreAll(Snapshot(heap, L), Arr(x), s)
           IN  /\ ArrayHeap(g) /\ Back(g) = Back(heap)
               /\ OfMem(g.mem) = [cur EXCEPT ![x] = s]
               /\ g.mem[0][0] = heap.mem[0][0] /\ g.range = heap.range \cup L
<1> DEFINE k == Snapshot(heap, L)
<1> DEFINE g == StoreAll(k, Arr(x), s)
<1>1. ArrayHeap(heap) /\ OfMem(heap.mem) = cur /\ Exists(heap, x)
  BY UsableIs
<1>2. /\ ArrayHeap(k) /\ Back(k) = Back(heap) /\ k.mem = heap.mem
      /\ k.range = heap.range \cup L
  BY <1>1, SnapshotArray
<1> HIDE DEF k
<1>3. Exists(k, x) /\ Obj(k, x) = Arr(x)
  BY <1>1, <1>2, SameObjects DEF Arr
<1>4. Cells(Obj(k, x), N) \subseteq k.range
  BY <1>2, <1>3
<1>5. /\ ArrayHeap(g) /\ Back(g) = Back(k) /\ OfMem(g.mem) = [OfMem(k.mem) EXCEPT ![x] = s]
      /\ g.mem[0][0] = k.mem[0][0] /\ g.range = k.range
  <2>1. g = StoreAll(k, Obj(k, x), s)
    BY <1>3
  <2> QED BY <1>2, <1>3, <1>4, <2>1, StoreAllArray
<1> HIDE DEF g
<1>6. OfMem(g.mem) = [cur EXCEPT ![x] = s]
  BY <1>1, <1>2, <1>5
<1> QED BY <1>2, <1>5, <1>6 DEF g, k

\* Two additions to a transaction are one.
LEMMA AddTwice ==
    ASSUME NEW h, Logged(h), NEW K, NEW L
    PROVE  Snapshot(Snapshot(h, K), L) = Snapshot(h, K \cup L)
<1> DEFINE a == [l \in K \ h.range |-> At(h, l)]
<1> DEFINE k == Snapshot(h, K)
<1> DEFINE c == [l \in L \ k.range |-> At(k, l)]
<1> DEFINE d == [l \in (K \cup L) \ h.range |-> At(h, l)]
<1>0. h.failed = FALSE /\ IsHeap(h)
  BY DEF Logged
<1>1. k = [h EXCEPT !.undo = Overlay(a, @), !.range = @ \cup K]
  BY <1>0 DEF Snapshot
<1>2. /\ IsHeap(k) /\ k.undo = Overlay(a, h.undo) /\ k.range = h.range \cup K
      /\ k.mem = h.mem /\ k.fresh = h.fresh /\ k.freed = h.freed /\ k.oom = h.oom
      /\ k.broken = h.broken /\ k.failed = h.failed /\ k.dirty = h.dirty
  BY <1>0, <1>1 DEF IsHeap
<1> HIDE DEF k
<1>3. Overlay(c, Overlay(a, h.undo)) = Overlay(d, h.undo)
  <2>1. DOMAIN h.undo \subseteq h.range
    BY DEF Logged
  <2>2. \A l : At(k, l) = At(h, l)
    BY <1>2 DEF At
  <2> DEFINE u == Overlay(c, Overlay(a, h.undo))
  <2> DEFINE w == Overlay(d, h.undo)
  <2>3. DOMAIN u = DOMAIN w
    BY <1>2, <2>1 DEF Overlay
  <2>4. ASSUME NEW l \in DOMAIN u PROVE u[l] = w[l]
    BY <1>2, <2>1, <2>2, <2>4 DEF Overlay
  <2>5. u = [l \in DOMAIN u |-> u[l]] /\ w = [l \in DOMAIN w |-> w[l]]
    BY DEF Overlay
  <2> HIDE DEF u, w
  <2>6. u = w
    BY <2>3, <2>4, <2>5
  <2> QED BY <2>6 DEF u, w
<1> DEFINE p == Snapshot(k, L)
<1> DEFINE q == Snapshot(h, K \cup L)
<1>4. p = [k EXCEPT !.undo = Overlay(c, @), !.range = @ \cup L]
  BY <1>0, <1>2 DEF Snapshot
<1>5. q = [h EXCEPT !.undo = Overlay(d, @), !.range = @ \cup (K \cup L)]
  BY <1>0 DEF Snapshot
<1> HIDE DEF a, c, d, p, q
<1>6. /\ IsHeap(p) /\ p.undo = Overlay(c, k.undo) /\ p.range = k.range \cup L
      /\ p.mem = k.mem /\ p.fresh = k.fresh /\ p.freed = k.freed /\ p.oom = k.oom
      /\ p.broken = k.broken /\ p.failed = k.failed /\ p.dirty = k.dirty
  BY <1>2, <1>4 DEF IsHeap
<1>7. /\ IsHeap(q) /\ q.undo = Overlay(d, h.undo) /\ q.range = h.range \cup (K \cup L)
      /\ q.mem = h.mem /\ q.fresh = h.fresh /\ q.freed = h.freed /\ q.oom = h.oom
      /\ q.broken = h.broken /\ q.failed = h.failed /\ q.dirty = h.dirty
  BY <1>0, <1>5 DEF IsHeap
<1>8. p.undo = q.undo /\ p.range = q.range
  BY <1>2, <1>3, <1>6, <1>7
<1>9. p = q
  BY <1>2, <1>6, <1>7, <1>8 DEF IsHeap
<1> QED BY <1>9 DEF p, q, k

-----------------------------------------------------------------------------
(* The methods of an array *)

LEMMA MakeKeeps == ASSUME Sizes, IInv, MakeArray PROVE IInv'
<1> DEFINE b == NewBlock(heap)
<1> DEFINE i == Alloc(heap, N)
<1> DEFINE k == construct(i, <<b, 0>>)
<1> DEFINE g == Assign(k, RootB, b)
<1> DEFINE std == SetCur("b", Same(0))
<1>1. /\ "b" \in Names /\ ops > 0 /\ heap.mem[0][0] = 0 /\ it' = NoIterator
      /\ Method(Then(Then(i, LAMBDA h : construct(h, <<b, 0>>)),
                     LAMBDA h : Assign(h, RootB, b)), std)
  BY DEF MakeArray, Make, Callable, Exists, At, RootB, Nil
<1>2. ArrayHeap(heap) /\ OfMem(heap.mem) = cur /\ heap.failed = FALSE
  BY <1>1 DEF IInv, HeapInv, ArrayHeap, Logged
<1>3. CASE heap.oom = 1
  <2>1. Threw(heap, i)
    BY <1>2, <1>3 DEF Alloc, Threw
  <2>2. i.failed = TRUE
    BY <1>2, <2>1, ThrowChangesNothing DEF ArrayHeap
  <2> HIDE DEF i, b, std
  <2>3. Method(i, std)
    BY <1>1, <2>2 DEF Then
  <2> QED BY <1>1, <2>1, <2>3, ThrowKeeps
<1>4. CASE heap.oom # 1
  <2>1. /\ i.failed = FALSE /\ k.failed = FALSE
        /\ ArrayHeap(g) /\ Back(g) = Back(heap)
        /\ OfMem(g.mem) = [OfMem(heap.mem) EXCEPT !["b"] = Same(0)]
    BY <1>1, <1>2, <1>4, MakeB
  <2> HIDE DEF i, b
  <2>2. Then(i, LAMBDA h : construct(h, <<b, 0>>)) = k
    BY <2>1 DEF Then
  <2> HIDE DEF k
  <2>3. Then(k, LAMBDA h : Assign(h, RootB, b)) = g
    BY <2>1 DEF Then
  <2> HIDE DEF g
  <2>4. Method(g, std)
    BY <1>1, <2>2, <2>3
  <2>5. OfMem(g.mem) = std
    BY <1>2, <2>1 DEF SetCur
  <2> HIDE DEF std
  <2>6. Call(g, std)
    BY <1>1, <2>4 DEF Call
  <2> QED BY <2>1, <2>5, <2>6, CallKeeps
<1> QED BY <1>3, <1>4

LEMMA DeleteKeeps == ASSUME Sizes, IInv, DeleteArray PROVE IInv'
<1> DEFINE g == Assign(Free(heap, Obj(heap, "b")[1]), RootB, Nil)
<1> DEFINE std == SetCur("b", Absent)
<1>1. Usable("b") /\ Method(g, std) /\ it' = NoIterator
  BY DEF DeleteArray, Delete
<1>2. /\ "b" \in Names /\ Exists(heap, "b") /\ ArrayHeap(heap) /\ OfMem(heap.mem) = cur
  BY <1>1, UsableIs DEF Usable
<1>3. /\ ArrayHeap(g) /\ Back(g) = Back(heap)
      /\ OfMem(g.mem) = [OfMem(heap.mem) EXCEPT !["b"] = Absent]
  BY <1>2, DeleteB
<1> HIDE DEF g
<1>4. OfMem(g.mem) = std
  BY <1>2, <1>3 DEF SetCur
<1> HIDE DEF std
<1>5. Call(g, std)
  BY <1>1 DEF Call
<1> QED BY <1>3, <1>4, <1>5, CallKeeps

\* An array assigned to itself, or swapped with itself.
LEMMA NothingKeeps ==
    ASSUME Sizes, IInv, NEW x \in Names, Usable(x), NEW std, std = cur, Call(heap, std)
    PROVE  IInv'
<1>1. ArrayHeap(heap) /\ OfMem(heap.mem) = cur
  BY UsableIs
<1> QED BY <1>1, CallKeeps

\* An array that is added to the transaction, with all of L, and then assigned.
LEMMA StoredKeeps ==
    ASSUME Sizes, IInv, NEW x \in Names, Usable(x), NEW s, Holds(s), NEW L,
           Cells(Arr(x), N) \subseteq L,
           Call(StoreAll(Snapshot(heap, L), Arr(x), s), SetCur(x, s))
    PROVE  IInv'
<1> DEFINE g == StoreAll(Snapshot(heap, L), Arr(x), s)
<1>1. /\ ArrayHeap(g) /\ Back(g) = Back(heap) /\ OfMem(g.mem) = [cur EXCEPT ![x] = s]
  BY AddAndStore
<1>2. Call(g, SetCur(x, s))
  OBVIOUS
<1> HIDE DEF g
<1>3. OfMem(g.mem) = SetCur(x, s)
  BY <1>1 DEF SetCur
<1> QED BY <1>1, <1>2, <1>3, CallKeeps

LEMMA FillKeeps == ASSUME Sizes, IInv, Fill PROVE IInv'
<1>1. PICK x \in Names, y \in Values :
         Usable(x) /\ Call(fill(heap, Arr(x), y), SetCur(x, Same(y)))
  BY DEF Fill
<1>2. fill(heap, Arr(x), y) = StoreAll(Snapshot(heap, Cells(Arr(x), N)), Arr(x), Same(y))
  BY DEF fill, add_array
<1>3. Holds(Same(y))
  BY DEF Holds, Same
<1> QED BY <1>1, <1>2, <1>3, StoredKeeps

LEMMA AssignCopyKeeps == ASSUME Sizes, IInv, AssignCopy PROVE IInv'
<1>1. PICK x \in Names, y \in Names :
         Usable(x) /\ Usable(y) /\ Call(assign_copy(heap, Arr(x), Arr(y)), SetCur(x, cur[y]))
  BY DEF AssignCopy
<1>2. /\ Elems(heap, Arr(y)) = cur[y] /\ Holds(cur[y]) /\ ArrayHeap(heap)
      /\ Exists(heap, x) /\ Exists(heap, y) /\ DOMAIN cur = Names
      /\ cur = [z \in Names |-> cur[z]]
  BY <1>1, UsableIs
<1>3. CASE x = y
  <2>1. assign_copy(heap, Arr(x), Arr(y)) = heap
    BY <1>3 DEF assign_copy
  <2>2. SetCur(x, cur[y]) = cur
    BY <1>2, <1>3 DEF SetCur
  <2> QED BY <1>1, <2>1, <2>2, NothingKeeps
<1>4. CASE x # y
  <2>1. Arr(x) # Arr(y)
    BY <1>2, <1>4, Apart DEF Arr
  <2>2. assign_copy(heap, Arr(x), Arr(y))
          = StoreAll(Snapshot(heap, Cells(Arr(x), N)), Arr(x), cur[y])
    BY <1>2, <2>1 DEF assign_copy, add_array
  <2> QED BY <1>1, <1>2, <2>2, StoredKeeps
<1> QED BY <1>3, <1>4

\* Both arrays are added to the transaction.
LEMMA BothAdded ==
    ASSUME Sizes, IInv, NEW x \in Names, Usable(x), NEW y \in Names
    PROVE  add_array(add_array(heap, Arr(x)), Arr(y))
              = Snapshot(heap, Cells(Arr(x), N) \cup Cells(Arr(y), N))
<1>1. Logged(heap)
  BY UsableIs DEF ArrayHeap
<1> QED BY <1>1, AddTwice DEF add_array

LEMMA AssignMoveKeeps == ASSUME Sizes, IInv, AssignMove PROVE IInv'
<1>1. PICK x \in Names, y \in Names :
         Usable(x) /\ Usable(y) /\ Call(assign_move(heap, Arr(x), Arr(y)), SetCur(x, cur[y]))
  BY DEF AssignMove
<1>2. /\ Elems(heap, Arr(y)) = cur[y] /\ Holds(cur[y]) /\ ArrayHeap(heap)
      /\ Exists(heap, x) /\ Exists(heap, y) /\ DOMAIN cur = Names
      /\ cur = [z \in Names |-> cur[z]]
  BY <1>1, UsableIs
<1>3. CASE x = y
  <2>1. assign_move(heap, Arr(x), Arr(y)) = heap
    BY <1>3 DEF assign_move
  <2>2. SetCur(x, cur[y]) = cur
    BY <1>2, <1>3 DEF SetCur
  <2> QED BY <1>1, <2>1, <2>2, NothingKeeps
<1>4. CASE x # y
  <2>1. Arr(x) # Arr(y)
    BY <1>2, <1>4, Apart DEF Arr
  <2> DEFINE L == Cells(Arr(x), N) \cup Cells(Arr(y), N)
  <2>2. add_array(add_array(heap, Arr(x)), Arr(y)) = Snapshot(heap, L)
    BY <1>1, BothAdded
  <2>3. assign_move(heap, Arr(x), Arr(y)) = StoreAll(Snapshot(heap, L), Arr(x), cur[y])
    BY <1>2, <2>1, <2>2 DEF assign_move
  <2>4. Cells(Arr(x), N) \subseteq L
    OBVIOUS
  <2> HIDE DEF L
  <2> QED BY <1>1, <1>2, <2>3, <2>4, StoredKeeps
<1> QED BY <1>3, <1>4

PutBoth(f, x, s, y, t) == [[f EXCEPT ![x] = s] EXCEPT ![y] = t]

\* Both arrays are in the transaction and then assigned, one after the other.
LEMMA StoreBoth ==
    ASSUME Sizes, IInv, NEW x \in Names, Usable(x), NEW y \in Names, Usable(y),
           NEW s, NEW t, Holds(s), Holds(t), NEW L,
           Cells(Arr(x), N) \subseteq L, Cells(Arr(y), N) \subseteq L
    PROVE  LET k == StoreAll(Snapshot(heap, L), Arr(x), s)
               g == StoreAll(k, Arr(y), t)
           IN  /\ ArrayHeap(g) /\ Back(g) = Back(heap)
               /\ OfMem(g.mem) = PutBoth(cur, x, s, y, t)
<1> DEFINE k == StoreAll(Snapshot(heap, L), Arr(x), s)
<1> DEFINE g == StoreAll(k, Arr(y), t)
<1> DEFINE c == [cur EXCEPT ![x] = s]
<1>1. /\ ArrayHeap(k) /\ Back(k) = Back(heap) /\ OfMem(k.mem) = c
      /\ k.mem[0][0] = heap.mem[0][0] /\ k.range = heap.range \cup L
  BY AddAndStore
<1> HIDE DEF k
<1>2. Exists(k, y) /\ Obj(k, y) = Arr(y)
  BY <1>1, UsableIs, SameObjects DEF Arr
<1>3. Cells(Obj(k, y), N) \subseteq k.range
  BY <1>1, <1>2
<1>4. /\ ArrayHeap(g) /\ Back(g) = Back(k) /\ OfMem(g.mem) = [OfMem(k.mem) EXCEPT ![y] = t]
  <2>1. g = StoreAll(k, Obj(k, y), t)
    BY <1>2
  <2> HIDE DEF c
  <2> QED BY <1>1, <1>2, <1>3, <2>1, StoreAllArray
<1> HIDE DEF g, c
<1>5. OfMem(g.mem) = [c EXCEPT ![y] = t]
  BY <1>1, <1>4
<1>6. OfMem(g.mem) = PutBoth(cur, x, s, y, t)
  BY <1>5 DEF PutBoth, c
<1> QED BY <1>1, <1>4, <1>6 DEF g, k

LEMMA SwapKeeps == ASSUME Sizes, IInv, Swap PROVE IInv'
<1>1. PICK x \in Names, y \in Names :
         /\ Usable(x) /\ Usable(y)
         /\ Call(swap(heap, Arr(x), Arr(y)), [cur EXCEPT ![x] = cur[y], ![y] = cur[x]])
  BY DEF Swap
<1> DEFINE std == [cur EXCEPT ![x] = cur[y], ![y] = cur[x]]
<1>2. /\ Elems(heap, Arr(y)) = cur[y] /\ Holds(cur[y])
      /\ Elems(heap, Arr(x)) = cur[x] /\ Holds(cur[x]) /\ ArrayHeap(heap)
      /\ Exists(heap, x) /\ Exists(heap, y) /\ DOMAIN cur = Names
      /\ cur = [z \in Names |-> cur[z]]
  BY <1>1, UsableIs
<1>3. CASE x = y
  <2>1. swap(heap, Arr(x), Arr(y)) = heap
    BY <1>3 DEF swap
  <2>2. std = cur
    BY <1>2, <1>3
  <2> HIDE DEF std
  <2>3. Call(heap, std)
    BY <1>1, <2>1 DEF std
  <2> QED BY <1>1, <2>2, <2>3, NothingKeeps
<1>4. CASE x # y
  <2>1. Arr(x) # Arr(y)
    BY <1>2, <1>4, Apart DEF Arr
  <2> DEFINE L == Cells(Arr(x), N) \cup Cells(Arr(y), N)
  <2> DEFINE k == StoreAll(Snapshot(heap, L), Arr(x), cur[y])
  <2> DEFINE g == StoreAll(k, Arr(y), cur[x])
  <2>2. add_array(add_array(heap, Arr(x)), Arr(y)) = Snapshot(heap, L)
    BY <1>1, BothAdded
  <2>3. swap(heap, Arr(x), Arr(y)) = g
    BY <1>2, <2>1, <2>2 DEF swap
  <2>4. Cells(Arr(x), N) \subseteq L /\ Cells(Arr(y), N) \subseteq L
    OBVIOUS
  <2> HIDE DEF L
  <2>5. ArrayHeap(g) /\ Back(g) = Back(heap) /\ OfMem(g.mem) = PutBoth(cur, x, cur[y], y, cur[x])
    BY <1>1, <1>2, <2>4, StoreBoth
  <2>6. PutBoth(cur, x, cur[y], y, cur[x]) = std
    BY <1>2 DEF PutBoth
  <2>7. Call(g, std)
    BY <1>1, <2>3
  <2> HIDE DEF std, g
  <2> QED BY <2>5, <2>6, <2>7, CallKeeps
<1> QED BY <1>3, <1>4

\* An element is written in k, the heap after additions to the transaction.
LEMMA ElementStored ==
    ASSUME Sizes, IInv, NEW x \in Names, ops >= 0, Exists(heap, x), NEW i \in 0 .. N - 1, NEW y,
           NEW k, ArrayHeap(k), Back(k) = Back(heap), k.mem = heap.mem, Elem(Arr(x), i) \in k.range
    PROVE  LET g == Store(k, Elem(Arr(x), i), y)
           IN  /\ ArrayHeap(g) /\ Back(g) = Back(heap)
               /\ OfMem(g.mem) = SetCur(x, Put(cur[x], i, y))
               /\ g.mem[0][0] = heap.mem[0][0] /\ g.range = k.range
<1> DEFINE g == Store(k, Elem(Arr(x), i), y)
<1>1. OfMem(heap.mem) = cur
  BY DEF IInv, HeapInv
<1>2. Exists(k, x) /\ Obj(k, x) = Arr(x)
  BY SameObjects DEF Arr
<1>3. Elem(Obj(k, x), i) \in k.range
  BY <1>2
<1>4. /\ ArrayHeap(g) /\ Back(g) = Back(k)
      /\ OfMem(g.mem) = [OfMem(k.mem) EXCEPT ![x] = Put(OfMem(k.mem)[x], i, y)]
      /\ g.mem[0][0] = k.mem[0][0] /\ g.range = k.range
  <2>1. g = Store(k, Elem(Obj(k, x), i), y)
    BY <1>2
  <2> HIDE DEF g
  <2> QED BY <1>2, <1>3, <2>1, StoreArray
<1> HIDE DEF g
<1>5. OfMem(g.mem) = SetCur(x, Put(cur[x], i, y))
  BY <1>1, <1>4 DEF SetCur
<1> QED BY <1>4, <1>5 DEF g

\* The cells of an array, and of the part of it that begins at i.
LEMMA ElementIn ==
    ASSUME Sizes, IInv, NEW x \in Names, ops >= 0, Exists(heap, x), NEW i \in 0 .. N - 1
    PROVE  /\ Elem(Arr(x), i) \in Cells(Arr(x), N)
           /\ \A n \in 1 .. N : Elem(Arr(x), i) \in Cells(Elem(Arr(x), i), n)
<1> DEFINE v == Arr(x)
<1>1. v[2] \in Int /\ v[1] \in Nat
  <2>1. ArrayHeap(heap)
    BY DEF IInv, HeapInv
  <2>2. Obj(heap, x)[2] \in {0, 1} /\ Obj(heap, x)[1] \in Nat
    BY <2>1, ArrayIs
  <2> QED BY <2>2 DEF Arr
<1> HIDE DEF v
<1>2. Elem(v, i) = <<v[1], v[2] + i>>
  BY DEF Elem, Plus
<1>3. Elem(v, i) \in Cells(v, N)
  BY <1>2 DEF Cells, Sizes
<1>4. ASSUME NEW n \in 1 .. N PROVE Elem(v, i) \in Cells(Elem(v, i), n)
  <2>1. Elem(v, i)[1] = v[1] /\ Elem(v, i)[2] = v[2] + i /\ (v[2] + i) + 0 = v[2] + i
    BY <1>1, <1>2
  <2>2. 0 \in 0 .. (n - 1)
    BY DEF Sizes
  <2>3. <<Elem(v, i)[1], Elem(v, i)[2] + 0>> \in Cells(Elem(v, i), n)
    BY <2>2 DEF Cells
  <2> QED BY <1>2, <2>1, <2>3
<1> QED BY <1>3, <1>4 DEF v

LEMMA WriteKeeps == ASSUME Sizes, IInv, Write PROVE IInv'
<1>0. PICK x \in Names, i \in 0 .. (N - 1), y \in Values :
         /\ Usable(x)
         /\ \E h \in {at(heap, Arr(x), i), data(heap, Arr(x)), deref(heap, Arr(x), i)}
                     \cup (IF i = 0 THEN {front(heap, Arr(x))} ELSE {})
                     \cup (IF i = N - 1 THEN {back(heap, Arr(x))} ELSE {})
                     \cup {range(heap, Arr(x), start, n) : start \in {i}, n \in 1..(N - i)} :
               Call(Store(h, Elem(Arr(x), i), y), SetCur(x, Put(cur[x], i, y)))
  BY DEF Write
<1>1. PICK h \in {at(heap, Arr(x), i), data(heap, Arr(x)), deref(heap, Arr(x), i)}
                     \cup (IF i = 0 THEN {front(heap, Arr(x))} ELSE {})
                     \cup (IF i = N - 1 THEN {back(heap, Arr(x))} ELSE {})
                     \cup {range(heap, Arr(x), start, n) : start \in {i}, n \in 1..(N - i)} :
         Call(Store(h, Elem(Arr(x), i), y), SetCur(x, Put(cur[x], i, y)))
  BY <1>0
<1>2. Exists(heap, x) /\ ops >= 0
  BY <1>0, UsableIs DEF Usable, Callable, IInv, HeapInv
<1>3. \E L : Elem(Arr(x), i) \in L /\ h = Snapshot(heap, L)
  <2>1. CASE h \in {at(heap, Arr(x), i), deref(heap, Arr(x), i)}
    BY <2>1 DEF at, deref
  <2>2. CASE h = data(heap, Arr(x))
    <3>1. Elem(Arr(x), i) \in Cells(Arr(x), N) /\ h = Snapshot(heap, Cells(Arr(x), N))
      BY <1>2, <2>2, ElementIn DEF data, add_array
    <3> QED BY <3>1
  <2>3. CASE i = 0 /\ h = front(heap, Arr(x))
    BY <2>3 DEF front
  <2>4. CASE i = N - 1 /\ h = back(heap, Arr(x))
    BY <2>4 DEF back
  <2>5. CASE \E n \in 1 .. (N - i) : h = range(heap, Arr(x), i, n)
    <3>1. PICK n \in 1 .. (N - i) : h = range(heap, Arr(x), i, n)
      BY <2>5
    <3>2. n \in 1 .. N
      BY DEF Sizes
    <3>3. /\ Elem(Arr(x), i) \in Cells(Elem(Arr(x), i), n)
          /\ h = Snapshot(heap, Cells(Elem(Arr(x), i), n))
      BY <1>2, <3>1, <3>2, ElementIn DEF range
    <3> QED BY <3>3
  <2> QED BY <1>1, <2>1, <2>2, <2>3, <2>4, <2>5
<1>4. PICK L : Elem(Arr(x), i) \in L /\ h = Snapshot(heap, L)
  BY <1>3
<1> DEFINE g == Store(h, Elem(Arr(x), i), y)
<1>5. /\ ArrayHeap(g) /\ Back(g) = Back(heap) /\ OfMem(g.mem) = SetCur(x, Put(cur[x], i, y))
  <2>1. ArrayHeap(heap)
    BY DEF IInv, HeapInv
  <2>2. ArrayHeap(h) /\ Back(h) = Back(heap) /\ h.mem = heap.mem /\ Elem(Arr(x), i) \in h.range
    BY <1>4, <2>1, SnapshotArray
  <2> QED BY <1>2, <2>2, ElementStored
<1>6. Call(g, SetCur(x, Put(cur[x], i, y)))
  BY <1>1, <1>4
<1> HIDE DEF g
<1> QED BY <1>5, <1>6, CallKeeps

-----------------------------------------------------------------------------
(* Iterators *)

LEMMA WithinIs ==
    ASSUME Sizes, IInv, it # NoIterator, NEW x \in Names, NEW start \in 0 .. N, Within(x, start)
    PROVE  /\ Owner = x /\ Offset = start
           /\ \A q \in 0 .. it.size - 1 :
                 /\ start + q \in 0 .. N - 1
                 /\ Plus(it.data, q) = Elem(Arr(x), start + q)
           /\ it.data = <<it.data[1], it.data[2]>> /\ it.data[2] \in Nat
<1> DEFINE v == Arr(x)
<1>1. ArrayHeap(heap) /\ Exists(heap, x)
  BY DEF IInv, HeapInv, Within
<1>2. v[2] \in Nat /\ v[1] \in Nat
  <2>1. Obj(heap, x)[2] \in {0, 1} /\ Obj(heap, x)[1] \in Nat
    BY <1>1, ArrayIs
  <2> QED BY <2>1 DEF Arr
<1>3. it.data = <<v[1], v[2] + start>>
  BY DEF Within, Elem, Plus
<1>4. Owner = x
  <2>1. \A y \in Names : Exists(heap, y) /\ Arr(y)[1] = it.data[1] <=> y = x
    BY <1>1, <1>3, Apart DEF Arr
  <2> QED BY <2>1 DEF Owner
<1> HIDE DEF v
<1>5. Offset = start
  <2>1. Offset = it.data[2] - v[2]
    BY <1>4 DEF Offset, v
  <2> QED BY <1>2, <1>3, <2>1
<1>6. ASSUME NEW q \in 0 .. it.size - 1
      PROVE  start + q \in 0 .. N - 1 /\ Plus(it.data, q) = Elem(v, start + q)
  <2>1. start + it.size <= N /\ it.size \in Int
    BY DEF Within, IInv, ItInv
  <2>2. start + q \in 0 .. N - 1
    BY <2>1 DEF Sizes
  <2>3. Plus(it.data, q) = <<v[1], (v[2] + start) + q>>
    BY <1>3 DEF Plus
  <2>4. (v[2] + start) + q = v[2] + (start + q)
    BY <1>2
  <2> QED BY <2>2, <2>3, <2>4 DEF Elem, Plus
<1>7. it.data = <<it.data[1], it.data[2]>> /\ it.data[2] \in Nat
  BY <1>2, <1>3
<1> QED BY <1>4, <1>5, <1>6, <1>7 DEF v

\* More is added to the transaction: the iterator stays valid.
LEMMA RangeKept ==
    ASSUME NEW h, NEW g, h.range \subseteq g.range, NEW d, NEW n, NEW ss, NEW p,
           RangeAdded(h, d, n, ss, p)
    PROVE  RangeAdded(g, d, n, ss, p)
  BY DEF RangeAdded

LEMMA ItKept ==
    ASSUME ItInv, it # NoIterator, it' = it, ops' >= 0,
           heap'.mem[0][0] = heap.mem[0][0], heap.range \subseteq heap'.range
    PROVE  ItInv'
<1>1. /\ it = [data |-> it.data, size |-> it.size, snapshot_size |-> it.snapshot_size,
               pos |-> it.pos]
      /\ it.size \in 0 .. N /\ it.pos \in 0 .. it.size
      /\ it.snapshot_size \in 0 .. it.size
      /\ it.size > 0 => it.snapshot_size > 0
  BY DEF ItInv
<1>2. PICK x \in Names, start \in 0 .. N : Within(x, start)
  BY DEF ItInv
<1>3. Within(x, start)'
  <2>1. Exists(heap', x) /\ Obj(heap', x) = Obj(heap, x)
    BY <1>2, SameObjects DEF Within
  <2>2. Exists(heap, x) /\ it.data = Elem(Obj(heap, x), start) /\ start + it.size <= N
    BY <1>2 DEF Within, Arr
  <2> QED BY <2>1, <2>2 DEF Within, Arr
<1>4. ASSUME it.size > 0
      PROVE  /\ RangeAdded(heap', it.data, it.size, it.snapshot_size, it.pos)
             /\ RangeAdded(heap', it.data, it.size, it.snapshot_size, it.size)
  BY <1>4, RangeKept DEF ItInv
<1> QED BY <1>1, <1>3, <1>4 DEF ItInv

\* A store to element q of the slice, in k, the heap after additions to the
\* transaction.
LEMMA IteratorStored ==
    ASSUME Sizes, IInv, it # NoIterator, NEW q \in 0 .. it.size - 1, NEW y, NEW k,
           ArrayHeap(k), Back(k) = Back(heap), k.mem = heap.mem,
           heap.range \subseteq k.range, Plus(it.data, q) \in k.range,
           Method(Store(k, Plus(it.data, q), y), SetCur(Owner, Put(cur[Owner], Offset + q, y))),
           it' = it
    PROVE  IInv'
<1>1. PICK x \in Names, start \in 0 .. N : Within(x, start)
  BY DEF IInv, ItInv
<1> DEFINE i == start + q
<1> DEFINE g == Store(k, Elem(Arr(x), i), y)
<1> DEFINE std == SetCur(x, Put(cur[x], i, y))
<1>2. /\ Owner = x /\ Offset = start /\ i \in 0 .. N - 1 /\ Plus(it.data, q) = Elem(Arr(x), i)
      /\ ops >= 0 /\ Exists(heap, x)
  BY <1>1, WithinIs DEF IInv, ItInv, Within
<1>3. Method(g, std)
  BY <1>2
<1> HIDE DEF i
<1>4. /\ ArrayHeap(g) /\ Back(g) = Back(heap) /\ OfMem(g.mem) = std
      /\ g.mem[0][0] = heap.mem[0][0] /\ g.range = k.range
  <2>1. Elem(Arr(x), i) \in k.range
    BY <1>2
  <2> QED BY <1>2, <2>1, ElementStored
<1> HIDE DEF g, std
<1>5. HeapInv' /\ heap' = g /\ ops' >= 0
  BY <1>3, <1>4, MethodKeeps
<1>6. ItInv'
  BY <1>4, <1>5, ItKept DEF IInv
<1> QED BY <1>5, <1>6 DEF IInv

LEMMA WriteItKeeps == ASSUME Sizes, IInv, WriteIt PROVE IInv'
<1>1. it.pos \in 0 .. (it.size - 1) /\ it' = it
  BY DEF WriteIt
<1>2. PICK y \in Values :
         Method(Store(heap, Plus(it.data, it.pos), y),
                SetCur(Owner, Put(cur[Owner], Offset + it.pos, y)))
  BY DEF WriteIt
<1>3. it # NoIterator
  BY <1>1 DEF NoIterator
<1>4. Plus(it.data, it.pos) \in heap.range
  <2>1. it.size \in Int /\ it.size > 0
    BY <1>1, <1>3 DEF IInv, ItInv
  <2>2. RangeAdded(heap, it.data, it.size, it.snapshot_size, it.pos)
    BY <1>3, <2>1 DEF IInv, ItInv
  <2> QED BY <1>1, <2>2 DEF RangeAdded
<1>5. ArrayHeap(heap)
  BY DEF IInv, HeapInv
<1> QED BY <1>1, <1>2, <1>3, <1>4, <1>5, IteratorStored

\* The store takes a snapshot of its own.
LEMMA SnapshotStored ==
    ASSUME Sizes, IInv, it # NoIterator, NEW q \in 0 .. it.size - 1, NEW y,
           Method(Store(Snapshot(heap, {Plus(it.data, q)}), Plus(it.data, q), y),
                  SetCur(Owner, Put(cur[Owner], Offset + q, y))),
           it' = it
    PROVE  IInv'
<1> DEFINE k == Snapshot(heap, {Plus(it.data, q)})
<1>1. ArrayHeap(heap)
  BY DEF IInv, HeapInv
<1>2. /\ ArrayHeap(k) /\ Back(k) = Back(heap) /\ k.mem = heap.mem
      /\ k.range = heap.range \cup {Plus(it.data, q)}
  BY <1>1, SnapshotArray
<1>3. Method(Store(k, Plus(it.data, q), y), SetCur(Owner, Put(cur[Owner], Offset + q, y)))
  OBVIOUS
<1> HIDE DEF k
<1>4. heap.range \subseteq k.range /\ Plus(it.data, q) \in k.range
  BY <1>2
<1> QED BY <1>2, <1>3, <1>4, IteratorStored

LEMMA WriteIndexedKeeps == ASSUME Sizes, IInv, WriteIndexed PROVE IInv'
<1>1. PICK n \in -it.pos .. (it.size - it.pos - 1), y \in Values :
         LET l == Plus(it.data, it.pos + n)
         IN  Method(Store(Snapshot(heap, {l}), l, y),
                    SetCur(Owner, Put(cur[Owner], Offset + it.pos + n, y)))
  BY DEF WriteIndexed
<1>2. it' = it
  BY DEF WriteIndexed
<1>3. it # NoIterator
  BY <1>1 DEF NoIterator
<1>4. it.pos \in Int /\ it.size \in Int /\ n \in Int
  BY <1>3 DEF IInv, ItInv
<1> DEFINE q == it.pos + n
<1>5. q \in 0 .. it.size - 1
  BY <1>1, <1>4
<1>6. Offset + it.pos + n = Offset + q
  <2>1. Offset \in Int
    <3>1. PICK x \in Names, start \in 0 .. N : Within(x, start)
      BY <1>3 DEF IInv, ItInv
    <3> QED BY <1>3, <3>1, WithinIs
  <2> QED BY <1>4, <2>1
<1>7. Method(Store(Snapshot(heap, {Plus(it.data, q)}), Plus(it.data, q), y),
             SetCur(Owner, Put(cur[Owner], Offset + q, y)))
  BY <1>1, <1>6
<1> HIDE DEF q
<1> QED BY <1>2, <1>3, <1>5, <1>7, SnapshotStored

LEMMA WriteSliceKeeps == ASSUME Sizes, IInv, WriteSlice PROVE IInv'
<1>1. PICK idx \in 0 .. it.size, y \in Values :
         \/ /\ idx >= it.size
            /\ Call(Throw(heap), cur)
         \/ LET l == Plus(it.data, idx)
            IN  /\ idx < it.size
                /\ Method(Store(Snapshot(heap, {l}), l, y), SetCur(Owner, Put(cur[Owner], Offset + idx, y)))
                /\ UNCHANGED it
  BY DEF WriteSlice
<1>2. it # NoIterator
  BY DEF WriteSlice, NoIterator
<1>3. CASE idx >= it.size /\ Call(Throw(heap), cur)
  BY <1>3, ThrowKeeps DEF Call, Threw
<1>4. CASE /\ idx < it.size /\ it' = it
           /\ Method(Store(Snapshot(heap, {Plus(it.data, idx)}), Plus(it.data, idx), y),
                     SetCur(Owner, Put(cur[Owner], Offset + idx, y)))
  <2>1. idx \in 0 .. it.size - 1
    BY <1>2, <1>4 DEF IInv, ItInv
  <2> QED BY <1>2, <1>4, <2>1, SnapshotStored
<1> QED BY <1>1, <1>3, <1>4

\* begin() and end() of a slice are made: the snapshots of the first and of the
\* last range are taken.
LEMMA SliceMade ==
    ASSUME NEW h, ArrayHeap(h), NEW d1, NEW d2 \in Nat, NEW n \in Nat \ {0}, NEW ss \in 1 .. n
    PROVE  LET d == <<d1, d2>>
               g == new_iterator(new_iterator(h, d, n, ss, 0), d, n, ss, n)
           IN  /\ ArrayHeap(g) /\ Back(g) = Back(h) /\ g.mem = h.mem
               /\ RangeAdded(g, d, n, ss, 0) /\ RangeAdded(g, d, n, ss, n)
<1> DEFINE d == <<d1, d2>>
<1> DEFINE k == snapshot_range(h, d, n, ss, 0)
<1> DEFINE g == snapshot_range(k, d, n, ss, n)
<1>1. 0 \in 0 .. n /\ n \in 0 .. n /\ ss # 0 /\ n \in Nat
  OBVIOUS
<1>2. /\ ArrayHeap(k) /\ Back(k) = Back(h) /\ k.mem = h.mem
      /\ RangeAdded(k, d, n, ss, 0)
  BY <1>1, SnapshotRange
<1> HIDE DEF k
<1>3. /\ ArrayHeap(g) /\ Back(g) = Back(k) /\ g.mem = k.mem
      /\ k.range \subseteq g.range /\ RangeAdded(g, d, n, ss, n)
  BY <1>1, <1>2, SnapshotRange
<1> HIDE DEF g
<1> HIDE DEF d
<1>4. RangeAdded(g, d, n, ss, 0)
  BY <1>2, <1>3, RangeKept
<1>5. new_iterator(new_iterator(h, d, n, ss, 0), d, n, ss, n) = g
  BY <1>1 DEF new_iterator, g, k
<1> QED BY <1>2, <1>3, <1>4, <1>5 DEF d

LEMMA SliceKeeps == ASSUME Sizes, IInv, Slice PROVE IInv'
<1>1. PICK x \in Names, start \in 0 .. N, n \in 0 .. N, ss \in 1 .. (N + 1) :
         /\ Usable(x) /\ InRange(start, n)
         /\ LET size == range_snapshot_size(n, ss)
                h == range_slice(heap, Arr(x), start, n, size)
            IN  /\ Method(h, cur)
                /\ \E p \in {0, n} :
                     it' = [data |-> Elem(Arr(x), start), size |-> n, snapshot_size |-> size, pos |-> p]
  BY DEF Slice
<1> DEFINE size == range_snapshot_size(n, ss)
<1> DEFINE d == Elem(Arr(x), start)
<1> DEFINE h == range_slice(heap, Arr(x), start, n, size)
<1>2. PICK p \in {0, n} : it' = [data |-> d, size |-> n, snapshot_size |-> size, pos |-> p]
  BY <1>1
<1>3. Method(h, cur)
  BY <1>1
<1>4. ArrayHeap(heap) /\ OfMem(heap.mem) = cur /\ Exists(heap, x)
  BY <1>1, UsableIs
<1>5. size \in 0 .. n /\ (n > 0 => size > 0)
  BY DEF range_snapshot_size, Sizes
<1>6. start + n <= N
  <2>1. start + n \in Nat /\ start + n < SizeType /\ SizeType \in Nat \ {0}
    BY DEF Sizes
  <2>2. (start + n) % SizeType = start + n
    BY <2>1
  <2> QED BY <1>1, <2>2 DEF InRange
<1>7. d = <<Arr(x)[1], Arr(x)[2] + start>> /\ Arr(x)[2] + start \in Nat
  <2>1. Obj(heap, x)[2] \in {0, 1}
    BY <1>4, ArrayIs
  <2> QED BY <2>1 DEF Elem, Plus, Arr
<1>8. h = new_iterator(new_iterator(heap, d, n, size, 0), d, n, size, n)
  BY DEF range_slice
<1> HIDE DEF size, d, h
<1>9. /\ ArrayHeap(h) /\ Back(h) = Back(heap) /\ h.mem = heap.mem
      /\ n > 0 => RangeAdded(h, d, n, size, 0) /\ RangeAdded(h, d, n, size, n)
  <2>1. CASE n = 0
    <3>1. size = 0
      BY <1>5, <2>1
    <3>2. h = heap
      BY <1>8, <3>1 DEF new_iterator
    <3> QED BY <1>4, <2>1, <3>2
  <2>2. CASE n # 0
    <3>1. n \in Nat \ {0} /\ size \in 1 .. n
      BY <1>5, <2>2
    <3> QED BY <1>4, <1>7, <1>8, <3>1, SliceMade
  <2> QED BY <2>1, <2>2
<1>10. HeapInv' /\ heap' = h /\ ops' \in Int /\ ops' >= 0
  BY <1>3, <1>4, <1>9, MethodKeeps
<1>11. Within(x, start)'
  <2>1. Exists(h, x) /\ Obj(h, x) = Obj(heap, x)
    BY <1>4, <1>9, SameObjects
  <2>2. it'.data = d /\ it'.size = n
    BY <1>2
  <2> QED BY <1>6, <1>10, <2>1, <2>2 DEF Within, Arr, d
<1>12. ItInv'
  <2>1. /\ it'.data = d /\ it'.size = n /\ it'.snapshot_size = size /\ it'.pos = p
        /\ it' = [data |-> it'.data, size |-> it'.size, snapshot_size |-> it'.snapshot_size,
                  pos |-> it'.pos]
    BY <1>2
  <2>2. p \in 0 .. n /\ n \in 0 .. N
    OBVIOUS
  <2>3. n > 0 => /\ RangeAdded(heap', d, n, size, p)
                 /\ RangeAdded(heap', d, n, size, n)
    BY <1>9, <1>10
  <2> QED BY <1>5, <1>10, <1>11, <2>1, <2>2, <2>3 DEF ItInv
<1> QED BY <1>10, <1>12 DEF IInv

LEMMA AdvanceKeeps == ASSUME Sizes, IInv, Advance PROVE IInv'
<1>1. PICK diff \in -it.size .. it.size :
         /\ it.pos + diff \in 0 .. it.size
         /\ heap' = conditional_snapshot_range(heap, it, diff)
         /\ it' = change_by(it, diff)
  BY DEF Advance
<1>2. ops >= 0 /\ ops' = ops /\ cur' = cur /\ committed' = committed /\ ~spoilt'
  BY DEF Advance, IInv, HeapInv
<1>3. it # NoIterator
  BY <1>1 DEF NoIterator
<1>4. /\ it = [data |-> it.data, size |-> it.size, snapshot_size |-> it.snapshot_size,
               pos |-> it.pos]
      /\ it.size \in 0 .. N /\ it.pos \in 0 .. it.size
      /\ it.snapshot_size \in 0 .. it.size
      /\ it.size > 0 => it.snapshot_size > 0
  BY <1>3 DEF IInv, ItInv
<1> DEFINE n == it.size
<1> DEFINE ss == it.snapshot_size
<1> DEFINE d == it.data
<1> DEFINE new == it.pos + diff
<1>5. n > 0 => /\ RangeAdded(heap, d, n, ss, it.pos)
               /\ RangeAdded(heap, d, n, ss, n)
  BY <1>3 DEF IInv, ItInv
<1>6. PICK x \in Names, start \in 0 .. N : Within(x, start)
  BY <1>3 DEF IInv, ItInv
<1>7. ArrayHeap(heap) /\ OfMem(heap.mem) = cur
  BY <1>2 DEF IInv, HeapInv
<1>8. /\ it' = [data |-> it'.data, size |-> it'.size, snapshot_size |-> it'.snapshot_size,
                pos |-> it'.pos]
      /\ it'.data = d /\ it'.size = n /\ it'.snapshot_size = ss /\ it'.pos = new
  BY <1>1, <1>4 DEF change_by
<1>9. new \in 0 .. n /\ n \in 0 .. N /\ n \in Nat
  BY <1>1, <1>4
<1>10. heap' = IF ss = 0 \/ new < 0 \/ new >= n \/ it.pos \div ss = new \div ss THEN heap
               ELSE snapshot_range(heap, d, n, ss, new)
  BY <1>1 DEF conditional_snapshot_range
<1>11. d = <<d[1], d[2]>> /\ d[2] \in Nat
  BY <1>3, <1>6, WithinIs
<1>12. ss \in 0 .. n /\ (n > 0 => ss > 0) /\ it.pos \in 0 .. n
  BY <1>4
<1> HIDE DEF n, ss, d, new
<1>13. /\ ArrayHeap(heap') /\ Back(heap') = Back(heap) /\ heap'.mem = heap.mem
       /\ heap.range \subseteq heap'.range
       /\ n > 0 => RangeAdded(heap', d, n, ss, new)
  <2>1. CASE n = 0
    BY <1>7, <1>9, <1>10, <2>1
  <2>2. CASE n > 0 /\ new = n
    BY <1>5, <1>7, <1>9, <1>10, <2>2
  <2>3. CASE n > 0 /\ new < n /\ it.pos \div ss = new \div ss
    <3>1. it.pos - (it.pos % ss) = new - (new % ss)
      <4>1. it.pos \in Nat /\ new \in Nat /\ ss \in Nat \ {0}
        BY <1>9, <1>12, <2>3
      <4> QED BY <2>3, <4>1, SameRange
    <3>2. RangeAdded(heap, d, n, ss, new)
      BY <1>5, <2>3, <3>1 DEF RangeAdded
    <3>3. heap' = heap
      BY <1>10, <2>3
    <3> QED BY <1>7, <3>2, <3>3
  <2>4. CASE n > 0 /\ new < n /\ it.pos \div ss # new \div ss
    <3>1. ss \in 1 .. n /\ new \in 0 .. n /\ ss # 0 /\ ~(new < 0) /\ ~(new >= n)
      BY <1>9, <1>12, <2>4
    <3>2. heap' = snapshot_range(heap, <<d[1], d[2]>>, n, ss, new)
      BY <1>10, <1>11, <2>4, <3>1
    <3>3. /\ ArrayHeap(heap') /\ Back(heap') = Back(heap) /\ heap'.mem = heap.mem
          /\ heap.range \subseteq heap'.range /\ RangeAdded(heap', <<d[1], d[2]>>, n, ss, new)
      BY <1>7, <1>9, <1>11, <3>1, <3>2, SnapshotRange
    <3> QED BY <1>11, <3>3
  <2> QED BY <1>9, <2>1, <2>2, <2>3, <2>4
<1>14. HeapInv'
  <2>1. /\ ops' \in Int /\ ops' >= 0 /\ ~spoilt'
        /\ OfMem(Back(heap')) = committed' /\ OfMem(heap'.mem) = cur'
    BY <1>2, <1>7, <1>13 DEF IInv, HeapInv
  <2> QED BY <1>13, <2>1 DEF HeapInv
<1>15. Within(x, start)'
  <2>1. Exists(heap', x) /\ Obj(heap', x) = Obj(heap, x)
    BY <1>6, <1>13, SameObjects DEF Within
  <2>2. d = Elem(Obj(heap, x), start) /\ start + n <= N
    BY <1>6 DEF Within, Arr, d, n
  <2> QED BY <1>8, <2>1, <2>2 DEF Within, Arr
<1>16. ItInv'
  <2>1. n > 0 => RangeAdded(heap', d, n, ss, n)
    BY <1>5, <1>13, RangeKept
  <2> QED BY <1>2, <1>8, <1>9, <1>12, <1>13, <1>15, <2>1 DEF ItInv
<1> QED BY <1>14, <1>16 DEF IInv

-----------------------------------------------------------------------------
(* The theorems *)

LEMMA InitKeeps == ASSUME Sizes, Init PROVE IInv
<1> DEFINE root == [o \in 0 .. N |-> 0]
<1>1. /\ heap = NewHeap(root) /\ ops = -1 /\ committed = cur /\ it = NoIterator /\ ~spoilt
      /\ cur = [x \in Names |-> IF x = "a" THEN Same(0) ELSE Absent]
  BY DEF Init
<1>2. Settled(heap) /\ heap.mem = [b \in {0} |-> root] /\ heap.broken = FALSE
  BY <1>1 DEF NewHeap, Settled, IsHeap
<1>3. /\ DOMAIN heap.mem = {0} /\ DOMAIN heap.mem[0] = 0 .. N
      /\ \A o \in 0 .. N : heap.mem[0][o] = 0
  BY <1>2
<1> HIDE DEF root
<1>4. 0 \in 0 .. N
  BY DEF Sizes
<1>5. Shape(heap.mem)
  <2>1. IsFiniteSet({0})
    BY FS_Singleton
  <2> QED BY <1>3, <1>4, <2>1 DEF Shape, CellsOf
<1>6. OfMem(heap.mem) = cur
  <2>1. /\ DOMAIN OfMem(heap.mem) = Names
        /\ OfMem(heap.mem) = [x \in Names |-> OfMem(heap.mem)[x]]
    BY OfMemIs, OfMemFunction
  <2>2. DOMAIN cur = Names /\ cur = [x \in Names |-> cur[x]]
    BY <1>1
  <2>3. OfMem(heap.mem)["a"] = cur["a"]
    <3>1. OfMem(heap.mem)["a"] = [i \in 1 .. N |-> heap.mem[0][i]]
      BY OfMemIs
    <3>2. \A i \in 1 .. N : heap.mem[0][i] = 0
      BY <1>3 DEF Sizes
    <3>3. OfMem(heap.mem)["a"] = Same(0)
      BY <3>1, <3>2 DEF Same
    <3> QED BY <1>1, <3>3 DEF Sizes
  <2>4. ASSUME "b" \in Names PROVE OfMem(heap.mem)["b"] = cur["b"]
    BY <1>1, <1>3, <1>4, <2>4, OfMemIs
  <2> QED BY <2>1, <2>2, <2>3, <2>4, SameContents
<1>7. ArrayHeap(heap) /\ OfMem(Back(heap)) = committed
  BY <1>1, <1>2, <1>5, <1>6, SettledArray
<1> QED BY <1>1, <1>2, <1>7 DEF IInv, HeapInv, ItInv

LEMMA StepKeeps == ASSUME Sizes, IInv, [Next]_<<vars, it>> PROVE IInv'
<1>1. CASE Transactions /\ it' = NoIterator
  BY <1>1, TransactionsKeep
<1>2. CASE MakeArray
  BY <1>2, MakeKeeps
<1>3. CASE DeleteArray
  BY <1>3, DeleteKeeps
<1>4. CASE AssignCopy
  BY <1>4, AssignCopyKeeps
<1>5. CASE AssignMove
  BY <1>5, AssignMoveKeeps
<1>6. CASE Swap
  BY <1>6, SwapKeeps
<1>7. CASE Fill
  BY <1>7, FillKeeps
<1>8. CASE Write
  BY <1>8, WriteKeeps
<1>9. CASE Slice
  BY <1>9, SliceKeeps
<1>10. CASE Advance
  BY <1>10, AdvanceKeeps
<1>11. CASE WriteIt
  BY <1>11, WriteItKeeps
<1>12. CASE WriteIndexed
  BY <1>12, WriteIndexedKeeps
<1>13. CASE WriteSlice
  BY <1>13, WriteSliceKeeps
<1>14. CASE UNCHANGED <<vars, it>>
  <2>1. /\ heap' = heap /\ ops' = ops /\ cur' = cur /\ committed' = committed /\ it' = it
        /\ spoilt' = spoilt
    BY <1>14 DEF vars
  <2>2. HeapInv'
    BY <2>1 DEF IInv, HeapInv
  <2>3. ItInv'
    <3>1. CASE it = NoIterator
      BY <2>1, <3>1 DEF ItInv
    <3>2. CASE it # NoIterator
      BY <2>1, <3>2, ItKept DEF IInv, ItInv
    <3> QED BY <3>1, <3>2
  <2> QED BY <2>2, <2>3 DEF IInv
<1> QED BY <1>1, <1>2, <1>3, <1>4, <1>5, <1>6, <1>7, <1>8, <1>9, <1>10, <1>11, <1>12, <1>13,
           <1>14 DEF Next

\* Everything that the methods of array, slice and the iterators write was added
\* to the transaction before, whatever they are called on and in whatever order.
THEOREM ArrayInvariant == ASSUME Sizes PROVE Spec => []IInv
<1>1. Init => IInv
  BY InitKeeps
<1>2. IInv /\ [Next]_<<vars, it>> => IInv'
  BY StepKeeps
<1> QED BY <1>1, <1>2, PTL DEF Spec

\* Outside a transaction the arrays hold what they held after the last commit:
\* what add_array(), at(), data(), range() and the snapshotting iterators let a
\* transaction write is undone by an abort and a crash, and an exception that the
\* application catches inside the transaction loses nothing of it.
THEOREM ArrayAtomic == ASSUME Sizes PROVE Spec => []AtomicAndDurable
<1>1. IInv => AtomicAndDurable
  <2> SUFFICES ASSUME IInv, ops = -1 PROVE Contents(heap) = committed
    BY DEF AtomicAndDurable
  <2>1. /\ Settled(heap) /\ Shape(heap.mem) /\ heap.broken = FALSE
        /\ OfMem(Back(heap)) = committed
    BY DEF IInv, HeapInv, ArrayHeap
  <2>2. OfMem(heap.mem) = committed
    BY <2>1, SettledArray
  <2> QED BY <2>2, ContentsIs
<1> QED BY <1>1, ArrayInvariant, PTL

\* Inside one they hold what a std::array holds after the same assignments,
\* swaps, fills and stores, and verify_range() never fails its assertions.
THEOREM ArraySameAsStd == ASSUME Sizes PROVE Spec => []SameAsStd
<1>1. IInv => SameAsStd
  <2> SUFFICES ASSUME IInv PROVE SameAsStd
    OBVIOUS
  <2>1. heap.broken = FALSE /\ (ops >= 0 => OfMem(heap.mem) = cur)
    BY DEF IInv, HeapInv, ArrayHeap
  <2> QED BY <2>1, ContentsIs DEF SameAsStd
<1> QED BY <1>1, ArrayInvariant, PTL

\* Whichever way a range_snapshotting_iterator took through its slice, the element
\* it points at is in the transaction: dereferencing it takes no snapshot.
THEOREM IteratorCovered == ASSUME Sizes PROVE Spec => []Covered
<1>1. IInv => Covered
  <2> SUFFICES ASSUME IInv, it.pos < it.size PROVE Plus(it.data, it.pos) \in heap.range
    BY DEF Covered
  <2>1. it # NoIterator
    BY DEF NoIterator
  <2>2. it.size \in Int /\ it.pos \in 0 .. it.size - 1 /\ it.size > 0
    BY <2>1 DEF IInv, ItInv
  <2>3. RangeAdded(heap, it.data, it.size, it.snapshot_size, it.pos)
    BY <2>1, <2>2 DEF IInv, ItInv
  <2> QED BY <2>2, <2>3 DEF RangeAdded
<1> QED BY <1>1, ArrayInvariant, PTL

=============================================================================

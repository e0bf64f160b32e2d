----------------------------- MODULE MpscQueue -----------------------------
(***************************************************************************)
(* The persistent multi-producer single-consumer queue of                  *)
(* include/libpmemobj++/experimental/mpsc_queue.hpp.                       *)
(*                                                                         *)
(* The unit is the cacheline: the log has Space of them, an element takes  *)
(* one for its size and first bytes (first_block) and maybe more for the   *)
(* rest.  log and pmem_written survive a crash; everything else is         *)
(* volatile.  The operations of the ring buffer are single steps here      *)
(* (RingBuf has their interleavings); the stores to persistent memory, the *)
(* transaction of the consumer and the release that follows it are not.    *)
(*                                                                         *)
(* Elements are numbered in the order in which their space was acquired.   *)
(***************************************************************************)
EXTENDS RingBufOps, Sequences, SequencesExt

CONSTANTS
    NWorkers,               \* max_workers
    ElementLengths,         \* of the elements produced, in cachelines
    MaxElements,            \* bound on the number of elements produced
    EmptyElements,          \* the elements whose data has no bytes
    StaleWrapRestart        \* the process may end between a wrap-around of the
                            \* consumer and its next commit (see Lagging)

ASSUME ElementsAssumption ==
    /\ NWorkers \in Nat \ {0}
    /\ ElementLengths \subseteq Lengths
    /\ MaxElements \in Nat
    /\ EmptyElements \subseteq 1 .. MaxElements
    /\ StaleWrapRestart \in BOOLEAN

Workers == 0 .. NWorkers - 1
Elements == 1 .. MaxElements

VARIABLES
    log,                    \* pmem_log_type::data_, persistent
    pmem_written,           \* pmem_log_type::written, persistent
    up,                     \* a process has the queue open
    ring,                   \* ringbuf_t: next, end, written
    seen_off,               \* ringbuf_worker_t::seen_off of each worker
    prod,                   \* the call of try_produce each worker is in
    consume_in_progress,    \* ringbuf_t::consume_in_progress
    consume_offset,         \* mpsc_queue::consume_offset
    consume_len,            \* mpsc_queue::consume_len
    call,                   \* where the consumer is in try_consume_batch
    iteration,              \* try_consume_batch: i
    acquired,               \* history: how many elements got their space
    completed,              \* history: those whose try_produce returned true
    consumed                \* history: what committed callbacks were given

persistentVars == <<log, pmem_written>>
consumeVars == <<consume_in_progress, consume_offset, consume_len, call, iteration>>
historyVars == <<acquired, completed, consumed>>
vars == <<persistentVars, up, ring, seen_off, prod, consumeVars, historyVars>>

-----------------------------------------------------------------------------
(* The log *)

(***************************************************************************)
(* What the first eight bytes of a cacheline are.  The content of a        *)
(* zeroed line, and which bytes an element has, do not matter.             *)
(***************************************************************************)
Zeroed == [kind |-> "zeroed"]
First(e, n, dirty) == [kind |-> "first", elem |-> e, len |-> n, dirty |-> dirty]
Rest(e) == [kind |-> "rest", elem |-> e]

Cachelines ==
    {Zeroed} \cup {Rest(e) : e \in Elements}
             \cup {First(e, n, d) : e \in Elements, n \in ElementLengths, d \in BOOLEAN}

Junk == 0                   \* what a caller gets that is not an element

Intact(c) ==
    \A i \in c + 1 .. c + log[c].len - 1 : log[i] = Rest(log[c].elem)

(***************************************************************************)
(* iterator and seek_next over the cachelines from .. to - 1: the elements *)
(* a callback sees.  Reading a size from the middle of an element, or a    *)
(* size that leads out of the range, gives junk.  Seek is one step, where  *)
(* seen[d] is what is seen from the cacheline d on.                        *)
(***************************************************************************)
Seek(seen, c, to) ==
    CASE c = to -> << >>
      [] c > to -> << Junk >>
      [] c < to /\ log[c].kind = "zeroed" -> seen[c + 1]
      [] c < to /\ log[c].kind = "rest" -> << Junk >>
      [] c < to /\ log[c].kind = "first" ->
           LET n == log[c].len
           IN  IF log[c].dirty THEN seen[c + n]
               ELSE << IF c + n <= to /\ Intact(c) THEN log[c].elem ELSE Junk >>
                    \o seen[c + n]

Batch(from, to) ==
    LET seen[c \in Nat] == Seek(seen, c, to)
    IN  seen[from]

-----------------------------------------------------------------------------
(* The ring buffer's operations *)

Word(off) == [off |-> off, wraps |-> 0, locked |-> FALSE]

NewRing == [next |-> 0, end |-> RBUF_OFF_MAX, written |-> 0]

CanAcquire(r, n) == ~MustWait(Word(r.next), n, r.written)
AcquiredAt(r, n) == IF Exceeds(Word(r.next), n) THEN 0 ELSE r.next
Acquire(r, n) ==
    [r EXCEPT !.next = Target(Word(r.next), n).off,
              !.end = IF Exceeds(Word(r.next), n) THEN r.next ELSE @]

SmallestSeen(r, seen) == Min({RBUF_OFF_MAX} \cup {s \in seen : s >= r.written})

(***************************************************************************)
(* The wrap-around of ringbuf_consume, and the range it then returns.      *)
(***************************************************************************)
Wrap(r, seen) ==
    IF r.written # r.next /\ ConsumerWraps(SmallestSeen(r, seen), r.next, r.written, r.end)
    THEN [r EXCEPT !.end = RBUF_OFF_MAX, !.written = 0]
    ELSE r

Consumable(r, seen) ==
    IF r.written = r.next THEN 0
    ELSE ReadyEnd(SmallestSeen(r, seen), r.next, r.written, r.end) - r.written

Release(r, n) == [r EXCEPT !.written = Released(r.written, n)]

-----------------------------------------------------------------------------
TypeOK ==
    /\ log \in [Offsets -> Cachelines]
    /\ pmem_written \in Offsets
    /\ up \in BOOLEAN
    /\ ring \in [next : Offsets, end : Offsets \cup {RBUF_OFF_MAX}, written : Offsets]
    /\ seen_off \in [Workers -> Offsets \cup {RBUF_OFF_MAX}]
    /\ \A w \in Workers :
          /\ prod[w].pc \in {"idle", "acquired", "first", "rest", "drained", "stored", "threw"}
          /\ prod[w].off \in Offsets
          /\ prod[w].len \in ElementLengths \cup {0}
          /\ prod[w].elem \in Elements \cup {Junk}
    /\ consume_in_progress \in BOOLEAN
    /\ consume_offset \in Offsets
    /\ consume_len \in 0 .. Space
    /\ call \in {"none", "begin", "tx", "release"}
    /\ iteration \in 0 .. 1
    /\ acquired \in 0 .. MaxElements
    /\ completed \subseteq Elements
    /\ consumed \in Seq(Elements \cup {Junk})

Idle == [pc |-> "idle", off |-> 0, len |-> 0, elem |-> Junk]

Volatile(r) ==
    /\ ring' = r
    /\ seen_off' = [w \in Workers |-> RBUF_OFF_MAX]
    /\ prod' = [w \in Workers |-> Idle]
    /\ consume_in_progress' = FALSE
    /\ consume_offset' = 0
    /\ consume_len' = 0
    /\ call' = "none"
    /\ iteration' = 0

Init ==
    /\ log = [c \in Offsets |-> Zeroed]
    /\ pmem_written = 0
    /\ up = FALSE
    /\ ring = NewRing
    /\ seen_off = [w \in Workers |-> RBUF_OFF_MAX]
    /\ prod = [w \in Workers |-> Idle]
    /\ consume_in_progress = FALSE
    /\ consume_offset = 0
    /\ consume_len = 0
    /\ call = "none"
    /\ iteration = 0
    /\ acquired = 0
    /\ completed = {}
    /\ consumed = << >>

-----------------------------------------------------------------------------
(* Opening the queue, and the end of the process *)

(***************************************************************************)
(* restore_offsets, which uses the ring buffer's own operations.           *)
(***************************************************************************)
ConsumeTo(r) == Release(r, Consumable(r, {}))

restore_offsets(w) ==
    IF w = 0 THEN Acquire(NewRing, Space - 1)
    ELSE Acquire(Acquire(ConsumeTo(Acquire(NewRing, w)), Space - w), w - 1)

Open ==
    /\ ~up
    /\ up' = TRUE
    /\ Volatile(restore_offsets(pmem_written))
    /\ UNCHANGED <<persistentVars, historyVars>>

(***************************************************************************)
(* ringbuf_consume has moved its 'written' to 0 and the transaction that   *)
(* will move pmem->written has not committed yet.                          *)
(***************************************************************************)
Lagging == call # "release" /\ ring.written # pmem_written

(***************************************************************************)
(* Stores that were not drained may or may not have reached the medium; a  *)
(* transaction that did not commit is rolled back.  Closing the queue in   *)
(* good order is the special case in which nothing is in flight.           *)
(***************************************************************************)
\* Mutant: the drain before the dirty flag is cleared is missing.
Undrained_NoDrain ==
    UNION {prod[w].off + 1 .. prod[w].off + prod[w].len - 1 :
             w \in {v \in Workers : prod[v].pc \in {"rest", "drained", "stored"}}}

Undrained ==
    UNION {prod[w].off + 1 .. prod[w].off + prod[w].len - 1 :
             w \in {v \in Workers : prod[v].pc = "rest"}}

Crash ==
    /\ up
    /\ Lagging => StaleWrapRestart
    /\ \E lost \in SUBSET Undrained :
         log' = [c \in Offsets |-> IF c \in lost THEN Zeroed ELSE log[c]]
    /\ up' = FALSE
    /\ Volatile(NewRing)
    /\ UNCHANGED <<pmem_written, historyVars>>

-----------------------------------------------------------------------------
(* Producers: worker::try_produce *)

Acquire_cachelines(w, n) ==
    /\ up
    /\ prod[w].pc = "idle"
    /\ acquired < MaxElements
    /\ acquired + 1 \in EmptyElements => n = 1
    /\ CanAcquire(ring, n)
    /\ ring' = Acquire(ring, n)
    /\ seen_off' = [seen_off EXCEPT ![w] = ring.next]
    /\ acquired' = acquired + 1
    /\ prod' = [prod EXCEPT ![w] = [pc |-> "acquired", off |-> AcquiredAt(ring, n),
                                    len |-> n, elem |-> acquired + 1]]
    /\ UNCHANGED <<persistentVars, up, consumeVars, completed, consumed>>

Step(w, from, to) ==
    /\ prod[w].pc = from
    /\ prod' = [prod EXCEPT ![w].pc = to]
    /\ UNCHANGED <<pmem_written, up, ring, seen_off, consumeVars, historyVars>>

(***************************************************************************)
(* A size of 0 without the dirty flag is what a zeroed cacheline has.      *)
(***************************************************************************)
FirstBlock(w, dirty) ==
    IF prod[w].elem \in EmptyElements /\ ~dirty THEN Zeroed
    ELSE First(prod[w].elem, prod[w].len, dirty)

store_first(w) ==
    /\ Step(w, "acquired", "first")
    /\ log' = [log EXCEPT ![prod[w].off] = FirstBlock(w, TRUE)]

store_rest(w) ==
    /\ Step(w, "first", "rest")
    /\ log' = [c \in Offsets |->
                 IF c \in prod[w].off + 1 .. prod[w].off + prod[w].len - 1
                 THEN Rest(prod[w].elem) ELSE log[c]]

store_drain(w) ==
    /\ Step(w, "rest", "drained")
    /\ UNCHANGED log

store_clean(w) ==
    /\ Step(w, "drained", "stored")
    /\ log' = [log EXCEPT ![prod[w].off] = FirstBlock(w, FALSE)]

\* Mutant: ringbuf_produce does not clear the worker's seen_off.
produce_cachelines_Kept(w) ==
    /\ prod[w].pc = "stored"
    /\ prod' = [prod EXCEPT ![w] = Idle]
    /\ completed' = completed \cup {prod[w].elem}
    /\ UNCHANGED <<persistentVars, up, ring, seen_off, consumeVars, acquired, consumed>>

produce_cachelines(w) ==
    /\ prod[w].pc = "stored"
    /\ seen_off' = [seen_off EXCEPT ![w] = RBUF_OFF_MAX]
    /\ prod' = [prod EXCEPT ![w] = Idle]
    /\ completed' = completed \cup {prod[w].elem}
    /\ UNCHANGED <<persistentVars, up, ring, consumeVars, acquired, consumed>>

(***************************************************************************)
(* on_produce throws: produce_cachelines is not called, and the element    *)
(* stands in the consumer's way until the worker is destroyed.             *)
(***************************************************************************)
on_produce_throws(w) ==
    /\ Step(w, "stored", "threw")
    /\ UNCHANGED log

replace_worker(w) ==
    /\ prod[w].pc = "threw"
    /\ seen_off' = [seen_off EXCEPT ![w] = RBUF_OFF_MAX]
    /\ prod' = [prod EXCEPT ![w] = Idle]
    /\ UNCHANGED <<persistentVars, up, ring, consumeVars, historyVars>>

-----------------------------------------------------------------------------
(* The consumer: try_consume_batch *)

SeenOffs == {seen_off[w] : w \in Workers}

try_consume_batch ==
    /\ up
    /\ call = "none"
    /\ call' = "begin"
    /\ iteration' = 0
    /\ UNCHANGED <<persistentVars, up, ring, seen_off, prod, consume_in_progress,
                   consume_offset, consume_len, historyVars>>

consume_cachelines ==
    /\ call = "begin"
    /\ IF consume_in_progress
       THEN /\ call' = "tx"
            /\ UNCHANGED <<ring, consume_in_progress, consume_offset, consume_len>>
       ELSE LET r == Wrap(ring, SeenOffs)
                n == Consumable(r, SeenOffs)
            IN  /\ ring' = r
                /\ IF n = 0
                   THEN /\ call' = "none"
                        /\ UNCHANGED <<consume_in_progress, consume_offset, consume_len>>
                   ELSE /\ call' = "tx"
                        /\ consume_in_progress' = TRUE
                        /\ consume_offset' = r.written
                        /\ consume_len' = n
    /\ UNCHANGED <<persistentVars, up, seen_off, prod, iteration, historyVars>>

Taken == Batch(consume_offset, consume_offset + consume_len)

\* Mutant: only the first cacheline of the range is cleared.
Cleared_FirstOnly(from, n) ==
    [c \in Offsets |-> IF c = from /\ n > 0 THEN Zeroed ELSE log[c]]

\* Mutant: one cacheline too many is cleared.
Cleared_OneMore(from, n) ==
    [c \in Offsets |-> IF c \in from .. from + n THEN Zeroed ELSE log[c]]

Cleared(from, n) ==
    [c \in Offsets |-> IF c \in from .. from + n - 1 THEN Zeroed ELSE log[c]]

consume_commit ==
    /\ call = "tx"
    /\ consumed' = consumed \o Taken
    /\ log' = Cleared(consume_offset, consume_len)
    /\ pmem_written' = Released(consume_offset, consume_len)
    /\ call' = "release"
    /\ UNCHANGED <<up, ring, seen_off, prod, consume_in_progress, consume_offset,
                   consume_len, iteration, acquired, completed>>

\* Mutant: the callback runs outside the transaction and is not rolled back.
consume_throws_OutsideTx ==
    /\ call = "tx"
    /\ Taken # << >>
    /\ consumed' = consumed \o Taken
    /\ call' = "none"
    /\ UNCHANGED <<persistentVars, up, ring, seen_off, prod, consume_in_progress,
                   consume_offset, consume_len, iteration, acquired, completed>>

(***************************************************************************)
(* The callback throws: the transaction aborts, and the range stays to be  *)
(* consumed by the next call.                                              *)
(***************************************************************************)
consume_throws ==
    /\ call = "tx"
    /\ Taken # << >>
    /\ call' = "none"
    /\ UNCHANGED <<persistentVars, up, ring, seen_off, prod, consume_in_progress,
                   consume_offset, consume_len, iteration, historyVars>>

release_cachelines ==
    /\ call = "release"
    /\ ring' = Release(ring, consume_len)
    /\ consume_in_progress' = FALSE
    /\ iteration' = 1 - iteration
    /\ call' = IF iteration = 0 THEN "begin" ELSE "none"
    /\ UNCHANGED <<persistentVars, up, seen_off, prod, consume_offset, consume_len, historyVars>>

-----------------------------------------------------------------------------
ProducerStep(w) ==
    \/ store_first(w)
    \/ store_rest(w)
    \/ store_drain(w)
    \/ store_clean(w)
    \/ produce_cachelines(w)
    \/ replace_worker(w)

ConsumerStep ==
    \/ try_consume_batch
    \/ consume_cachelines
    \/ consume_commit
    \/ release_cachelines

Next ==
    \/ Open
    \/ Crash
    \/ \E w \in Workers :
         \/ \E n \in ElementLengths : Acquire_cachelines(w, n)
         \/ ProducerStep(w)
         \/ on_produce_throws(w)
    \/ ConsumerStep
    \/ consume_throws

Spec == Init /\ [][Next]_vars

(***************************************************************************)
(* The queue is opened again, threads keep running, the consumer calls     *)
(* try_consume_batch again and again, and the callback does not throw      *)
(* every time.                                                             *)
(***************************************************************************)
Fairness ==
    /\ WF_vars(Open)
    /\ \A w \in Workers : WF_vars(ProducerStep(w))
    /\ WF_vars(ConsumerStep)
    /\ SF_vars(consume_commit)

FairSpec == Spec /\ Fairness

-----------------------------------------------------------------------------
(***************************************************************************)
(* store_to_log's "Invariant: producer can only produce data to cachelines *)
(* which have first 8 bytes zeroed", across wrap-arounds and restarts.     *)
(***************************************************************************)
ProducesIntoZeroed ==
    \A w \in Workers : prod[w].pc = "acquired" =>
        \A c \in prod[w].off .. prod[w].off + prod[w].len - 1 : log[c] = Zeroed

(***************************************************************************)
(* The callback of try_consume_batch is only given whole elements, never   *)
(* the remains of one that a crash interrupted.                            *)
(***************************************************************************)
OnlyWholeElements == call = "tx" => Junk \notin ToSet(Taken)

(***************************************************************************)
(* Elements are consumed in the order in which they were produced, each    *)
(* at most once, also across restarts ("to guarantee proper order of       *)
(* elements on recovery, we must restore consumer offset").                *)
(***************************************************************************)
ConsumedInOrder ==
    \A i, j \in DOMAIN consumed : i < j => consumed[i] < consumed[j]

(***************************************************************************)
(* "... without losing any already produced data": an element whose        *)
(* try_produce returned true is consumed, or intact in the log.            *)
(***************************************************************************)
NothingLost ==
    \A e \in completed \ ToSet(consumed) :
        \E c \in Offsets :
            /\ log[c].kind = "first"
            /\ log[c].elem = e /\ ~log[c].dirty
            /\ c + log[c].len <= Space
            /\ Intact(c)

(***************************************************************************)
(* ringbuf_acquire asserts that len > 0, also when restore_offsets is its  *)
(* caller.                                                                 *)
(***************************************************************************)
RestoreAcquiresSomething ==
    ~up => IF pmem_written = 0 THEN Space - 1 > 0 ELSE pmem_written - 1 > 0

(***************************************************************************)
(* Once a process keeps the queue open, every element whose try_produce    *)
(* returned true, in that process or before, is consumed some day.         *)
(***************************************************************************)
EverythingConsumed ==
    <>[]up => \A e \in Elements : (e \in completed) ~> (e \in ToSet(consumed))

=============================================================================

------------------------------- MODULE RingBuf -------------------------------
(***************************************************************************)
(* The lock-free multi-producer single-consumer ring buffer of             *)
(* include/libpmemobj++/detail/ringbuf.hpp.                                *)
(*                                                                         *)
(* Each load, store and compare-and-swap of a shared atomic is a step.     *)
(* The relaxed store that marks seen_off unstable may become visible at    *)
(* any time before the worker's compare-and-swap, hence mark_pending.      *)
(*                                                                         *)
(* A worker's local variables are reset when they are dead.                *)
(*                                                                         *)
(* queue is a history variable: the ranges acquired and not yet released,  *)
(* in the order in which their compare-and-swap succeeded.                 *)
(***************************************************************************)
EXTENDS RingBufOps, Sequences

CONSTANT NWorkers           \* ringbuf_t::nworkers

ASSUME NWorkersAssumption == NWorkers \in Nat \ {0}

(***************************************************************************)
(* With a single lap number a wrap-around would not change the word.       *)
(***************************************************************************)
ASSUME LapsAssumption == WrapModulus > 1

Workers == 0 .. NWorkers - 1

VARIABLES
    next, end, written,     \* ringbuf_t
    seen_off, registered,   \* ringbuf_worker_t of each worker
    pc,                     \* where each producer is
    len, seen, target,      \* ringbuf_acquire's variables, per worker
    mark_pending,           \* workers whose store of seen_off is not visible yet
    cpc,                    \* where the consumer is
    cnext, ready, visiting, \* ringbuf_consume's variables
    clen,                   \* the length ringbuf_consume returned
    queue                   \* history, see above

ringVars == <<next, end, written>>
workerVars == <<seen_off, registered, mark_pending>>
localVars == <<pc, len, seen, target>>
consumerVars == <<cpc, cnext, ready, visiting, clen>>
vars == <<ringVars, workerVars, localVars, consumerVars, queue>>

Unlocked(off) == [off |-> off, locked |-> FALSE]
Locked(off) == [off |-> off, locked |-> TRUE]

ZeroWord == [off |-> 0, wraps |-> 0, locked |-> FALSE]

TypeOK ==
    /\ next \in NextWords
    /\ end \in Offsets \cup {RBUF_OFF_MAX}
    /\ written \in Offsets
    /\ seen_off \in [Workers -> [off : Offsets \cup {RBUF_OFF_MAX}, locked : BOOLEAN]]
    /\ registered \in [Workers -> BOOLEAN]
    /\ pc \in [Workers -> {"idle", "loaded", "refused", "checked", "retry",
                           "acquired", "set_end", "unlock", "filling"}]
    /\ len \in [Workers -> Lengths]
    /\ seen \in [Workers -> NextWords]
    /\ target \in [Workers -> NextWords]
    /\ mark_pending \subseteq Workers
    /\ cpc \in {"idle", "observe", "clear_end", "reset", "retry", "consuming"}
    /\ cnext \in 0 .. Space
    /\ ready \in Offsets \cup {RBUF_OFF_MAX}
    /\ visiting \in 0 .. NWorkers
    /\ clen \in 0 .. Space
    /\ queue \in Seq([worker : Workers, off : Offsets, len : Lengths,
                      done : BOOLEAN])

Init ==
    /\ next = ZeroWord
    /\ end = RBUF_OFF_MAX
    /\ written = 0
    /\ seen_off = [w \in Workers |-> Unlocked(0)]
    /\ registered = [w \in Workers |-> FALSE]
    /\ pc = [w \in Workers |-> "idle"]
    /\ len = [w \in Workers |-> 1]
    /\ seen = [w \in Workers |-> ZeroWord]
    /\ target = [w \in Workers |-> ZeroWord]
    /\ mark_pending = {}
    /\ cpc = "idle"
    /\ cnext = 0
    /\ ready = RBUF_OFF_MAX
    /\ visiting = 0
    /\ clen = 0
    /\ queue = << >>

-----------------------------------------------------------------------------
(* Producers *)

Forget(w) ==
    /\ len' = [len EXCEPT ![w] = 1]
    /\ seen' = [seen EXCEPT ![w] = ZeroWord]
    /\ target' = [target EXCEPT ![w] = ZeroWord]

ringbuf_register(w) ==
    /\ ~registered[w]
    /\ seen_off' = [seen_off EXCEPT ![w] = Unlocked(RBUF_OFF_MAX)]
    /\ registered' = [registered EXCEPT ![w] = TRUE]
    /\ UNCHANGED <<ringVars, mark_pending, localVars, consumerVars, queue>>

ringbuf_unregister(w) ==
    /\ registered[w]
    /\ pc[w] = "idle"
    /\ registered' = [registered EXCEPT ![w] = FALSE]
    /\ UNCHANGED <<ringVars, seen_off, mark_pending, localVars, consumerVars, queue>>

(***************************************************************************)
(* The first statement of ringbuf_acquire's loop: stable_nextoff waits     *)
(* until the word is unlocked.                                             *)
(***************************************************************************)
acquire_load(w, n) ==
    /\ registered[w]
    /\ pc[w] \in {"idle", "retry"}
    /\ ~next.locked
    /\ seen' = [seen EXCEPT ![w] = next]
    /\ len' = [len EXCEPT ![w] = n]
    /\ mark_pending' = mark_pending \cup {w}
    /\ pc' = [pc EXCEPT ![w] = "loaded"]
    /\ UNCHANGED <<ringVars, seen_off, registered, target, consumerVars, queue>>

\* Mutant: the observed offset is published without its WRAP_LOCK_BIT.
mark_seen_Stable(w) ==
    /\ w \in mark_pending
    /\ seen_off' = [seen_off EXCEPT ![w] = Unlocked(seen[w].off)]
    /\ mark_pending' = mark_pending \ {w}
    /\ UNCHANGED <<ringVars, registered, localVars, consumerVars, queue>>

mark_seen(w) ==
    /\ w \in mark_pending
    /\ seen_off' = [seen_off EXCEPT ![w] = Locked(seen[w].off)]
    /\ mark_pending' = mark_pending \ {w}
    /\ UNCHANGED <<ringVars, registered, localVars, consumerVars, queue>>

acquire_check(w) ==
    /\ pc[w] = "loaded"
    /\ IF MustWait(seen[w], len[w], written)
       THEN /\ pc' = [pc EXCEPT ![w] = "refused"]
            /\ len' = [len EXCEPT ![w] = 1]
            /\ UNCHANGED target
       ELSE /\ pc' = [pc EXCEPT ![w] = "checked"]
            /\ target' = [target EXCEPT ![w] = Target(seen[w], len[w])]
            /\ UNCHANGED len
    /\ UNCHANGED <<ringVars, workerVars, seen, consumerVars, queue>>

(***************************************************************************)
(* The buffer is full: restore seen_off and return -1.                     *)
(***************************************************************************)
acquire_refuse(w) ==
    /\ pc[w] = "refused"
    /\ w \notin mark_pending
    /\ seen_off' = [seen_off EXCEPT ![w] = Unlocked(RBUF_OFF_MAX)]
    /\ pc' = [pc EXCEPT ![w] = "idle"]
    /\ Forget(w)
    /\ UNCHANGED <<ringVars, registered, mark_pending, consumerVars, queue>>

(***************************************************************************)
(* The offset ringbuf_acquire returns.                                     *)
(***************************************************************************)
AcquiredOff(w) == IF target[w].locked THEN 0 ELSE seen[w].off

(***************************************************************************)
(* The bound on the wrap-around counter: the counter may not come back to  *)
(* a value that another worker, stalled since it loaded 'next', still      *)
(* holds.  The code relies on nobody stalling for 2^31 wrap-arounds.       *)
(***************************************************************************)
NoFullLap(w) ==
    target[w].wraps # seen[w].wraps =>
        \A v \in Workers \ {w} :
            pc[v] \in {"loaded", "checked"} => seen[v].wraps # target[w].wraps

acquire_cas(w) ==
    /\ pc[w] = "checked"
    /\ w \notin mark_pending
    /\ next = seen[w]
    /\ NoFullLap(w)
    /\ next' = target[w]
    /\ pc' = [pc EXCEPT ![w] = "acquired"]
    /\ queue' = Append(queue, [worker |-> w, off |-> AcquiredOff(w),
                               len |-> len[w], done |-> FALSE])
    /\ len' = [len EXCEPT ![w] = 1]
    /\ UNCHANGED <<end, written, workerVars, seen, target, consumerVars>>

(***************************************************************************)
(* The word changed, or the weak compare-and-swap failed spuriously.       *)
(***************************************************************************)
acquire_cas_fail(w) ==
    /\ pc[w] = "checked"
    /\ w \notin mark_pending
    /\ pc' = [pc EXCEPT ![w] = "retry"]
    /\ seen' = [seen EXCEPT ![w] = ZeroWord]
    /\ target' = [target EXCEPT ![w] = ZeroWord]
    /\ UNCHANGED <<ringVars, workerVars, len, consumerVars, queue>>

acquire_stabilize(w) ==
    /\ pc[w] = "acquired"
    /\ seen_off' = [seen_off EXCEPT ![w].locked = FALSE]
    /\ IF target[w].locked
       THEN /\ pc' = [pc EXCEPT ![w] = "set_end"]
            /\ UNCHANGED <<len, seen, target>>
       ELSE pc' = [pc EXCEPT ![w] = "filling"] /\ Forget(w)
    /\ UNCHANGED <<ringVars, registered, mark_pending, consumerVars, queue>>

acquire_set_end(w) ==
    /\ pc[w] = "set_end"
    /\ end' = seen[w].off
    /\ pc' = [pc EXCEPT ![w] = "unlock"]
    /\ UNCHANGED <<next, written, workerVars, len, seen, target, consumerVars, queue>>

acquire_unlock(w) ==
    /\ pc[w] = "unlock"
    /\ next' = [target[w] EXCEPT !.locked = FALSE]
    /\ pc' = [pc EXCEPT ![w] = "filling"]
    /\ Forget(w)
    /\ UNCHANGED <<end, written, workerVars, consumerVars, queue>>

ringbuf_produce(w) ==
    /\ pc[w] = "filling"
    /\ seen_off' = [seen_off EXCEPT ![w] = Unlocked(RBUF_OFF_MAX)]
    /\ pc' = [pc EXCEPT ![w] = "idle"]
    /\ queue' = [i \in DOMAIN queue |->
                   IF queue[i].worker = w THEN [queue[i] EXCEPT !.done = TRUE]
                                          ELSE queue[i]]
    /\ UNCHANGED <<ringVars, registered, mark_pending, len, seen, target, consumerVars>>

-----------------------------------------------------------------------------
(* The consumer *)

consume_load ==
    /\ cpc \in {"idle", "retry"}
    /\ ~next.locked
    /\ IF written = next.off
       THEN cpc' = "idle" /\ UNCHANGED cnext
       ELSE cpc' = "observe" /\ cnext' = next.off
    /\ UNCHANGED <<ringVars, workerVars, localVars, ready, visiting, clen, queue>>

consume_observe ==
    /\ cpc = "observe"
    /\ visiting < NWorkers
    /\ registered[visiting] => ~seen_off[visiting].locked
    /\ ready' = IF registered[visiting]
                THEN Ready(ready, seen_off[visiting].off, written) ELSE ready
    /\ visiting' = visiting + 1
    /\ UNCHANGED <<ringVars, workerVars, localVars, cpc, cnext, clen, queue>>

consume_decide ==
    /\ cpc = "observe"
    /\ visiting = NWorkers
    /\ cnext' = 0
    /\ ready' = RBUF_OFF_MAX
    /\ visiting' = 0
    /\ IF ConsumerWraps(ready, cnext, written, end)
       THEN /\ cpc' = "clear_end"
            /\ UNCHANGED clen
       ELSE LET towrite == ReadyEnd(ready, cnext, written, end) - written
            IN  /\ clen' = towrite
                /\ cpc' = IF towrite = 0 THEN "idle" ELSE "consuming"
    /\ UNCHANGED <<ringVars, workerVars, localVars, queue>>

consume_clear_end ==
    /\ cpc = "clear_end"
    /\ end' = RBUF_OFF_MAX
    /\ cpc' = "reset"
    /\ UNCHANGED <<next, written, workerVars, localVars, cnext, ready, visiting,
                   clen, queue>>

consume_reset ==
    /\ cpc = "reset"
    /\ written' = 0
    /\ cpc' = "retry"
    /\ UNCHANGED <<next, end, workerVars, localVars, cnext, ready, visiting,
                   clen, queue>>

(***************************************************************************)
(* The entries at the head of the queue that tile the consumed range.      *)
(***************************************************************************)
Tiles(k) ==
    /\ queue[1].off = written
    /\ \A i \in 1 .. k - 1 : queue[i + 1].off = queue[i].off + queue[i].len
    /\ queue[k].off + queue[k].len = written + clen

Consumed ==
    CHOOSE k \in 0 .. Len(queue) :
        IF \E j \in 1 .. Len(queue) : Tiles(j) THEN k # 0 /\ Tiles(k) ELSE k = 0

ringbuf_release ==
    /\ cpc = "consuming"
    /\ written' = Released(written, clen)
    /\ cpc' = "idle"
    /\ clen' = 0
    /\ queue' = SubSeq(queue, Consumed + 1, Len(queue))
    /\ UNCHANGED <<next, end, workerVars, localVars, cnext, ready, visiting>>

-----------------------------------------------------------------------------
AcquireStep(w) ==
    \/ pc[w] = "retry" /\ acquire_load(w, len[w])
    \/ mark_seen(w)
    \/ acquire_check(w)
    \/ acquire_refuse(w)
    \/ acquire_cas(w)
    \/ acquire_cas_fail(w)
    \/ acquire_stabilize(w)
    \/ acquire_set_end(w)
    \/ acquire_unlock(w)

ProducerNext(w) ==
    \/ ringbuf_register(w)
    \/ ringbuf_unregister(w)
    \/ \E n \in Lengths : pc[w] = "idle" /\ acquire_load(w, n)
    \/ AcquireStep(w)
    \/ ringbuf_produce(w)

ConsumerNext ==
    \/ consume_load
    \/ consume_observe
    \/ consume_decide
    \/ consume_clear_end
    \/ consume_reset
    \/ ringbuf_release

Next == ConsumerNext \/ \E w \in Workers : ProducerNext(w)

Spec == Init /\ [][Next]_vars

-----------------------------------------------------------------------------
(***************************************************************************)
(* "Key invariant: we cannot go beyond the WRITTEN offset or catch up with *)
(* it": no cell of the buffer belongs to two acquired ranges, and none     *)
(* that the consumer still reads is handed to a producer.                  *)
(***************************************************************************)
NoOverlap ==
    \A i, j \in DOMAIN queue :
        i # j => \/ queue[i].off + queue[i].len <= queue[j].off
                 \/ queue[j].off + queue[j].len <= queue[i].off

(***************************************************************************)
(* What ringbuf_consume returns is a whole number of acquired ranges, the  *)
(* oldest ones, in the order they were acquired, and each of them was      *)
(* marked as produced.                                                     *)
(***************************************************************************)
ConsumesProducedPrefix ==
    cpc = "consuming" =>
        \E k \in 1 .. Len(queue) :
            Tiles(k) /\ \A i \in 1 .. k : queue[i].done

(***************************************************************************)
(* ringbuf_consume's early return: 'written' equal to a stable 'next'      *)
(* means that nothing is in the buffer (and not that it is full).          *)
(***************************************************************************)
EmptyMeansEmpty ==
    cpc = "idle" /\ ~next.locked /\ written = next.off => queue = << >>

(***************************************************************************)
(* The assertions of the code, at the places where it evaluates them.      *)
(***************************************************************************)
AcquireAsserts ==
    \A w \in Workers :
        /\ pc[w] = "loaded" => seen[w].off < Space
        /\ pc[w] = "set_end" => written <= seen[w].off /\ end = RBUF_OFF_MAX
        /\ pc[w] \in {"acquired", "unlock"} => target[w].off <= Space
        /\ pc[w] = "filling" => seen_off[w].off # RBUF_OFF_MAX

ConsumeAsserts ==
    /\ cpc = "observe" => ready >= written
    /\ cpc = "observe" /\ visiting = NWorkers /\ cnext < written =>
          ConsumerWraps(ready, cnext, written, end) \/ ready > cnext
    /\ cpc = "observe" /\ visiting = NWorkers =>
          ReadyEnd(ready, cnext, written, end) >= written
    /\ cpc = "consuming" => written <= end /\ written + clen <= Space

Asserts == AcquireAsserts /\ ConsumeAsserts

=============================================================================

----------------------------- MODULE RingBufOps -----------------------------
(***************************************************************************)
(* The offset arithmetic of include/libpmemobj++/detail/ringbuf.hpp: what  *)
(* ringbuf_acquire, ringbuf_consume and ringbuf_release compute from the   *)
(* values they loaded.                                                     *)
(*                                                                         *)
(* The 64-bit word 'next' is a record: its offset (RBUF_OFF_MASK), its     *)
(* wrap-around counter (WRAP_COUNTER) and its WRAP_LOCK_BIT.               *)
(***************************************************************************)
EXTENDS Integers, FiniteSetsExt

CONSTANTS
    Space,                  \* ringbuf_t::space
    WrapModulus             \* the wrap-around counter's modulus, 2^31 in the code

ASSUME SpaceAssumption == Space \in Nat \ {0}
ASSUME WrapModulusAssumption == WrapModulus \in Nat \ {0}

Offsets == 0 .. Space - 1
Lengths == 1 .. Space                   \* asserted by ringbuf_acquire

(***************************************************************************)
(* Larger than every offset; the value of 'end' when there is no cut-off,  *)
(* and of a worker's 'seen_off' when it has nothing in flight.             *)
(***************************************************************************)
RBUF_OFF_MAX == Space + 1

NextWords == [off : 0 .. Space, wraps : 0 .. WrapModulus - 1, locked : BOOLEAN]

WRAP_INCR(n) == (n + 1) % WrapModulus

(***************************************************************************)
(* Acquiring len from the observed word seen, given the loaded 'written'.  *)
(***************************************************************************)
WrapsAround(seen, len) == seen.off + len >= Space
Exceeds(seen, len) == seen.off + len > Space

\* Mutant: the producer may catch up with the consumer.
MustWait_CatchUp(seen, len, written) ==
    \/ seen.off < written /\ seen.off + len > written
    \/ WrapsAround(seen, len) /\ (IF Exceeds(seen, len) THEN len ELSE 0) > written

\* Mutant: a producer that exceeds the buffer does not check the room at its start.
MustWait_NoSecondCheck(seen, len, written) ==
    \/ seen.off < written /\ seen.off + len >= written
    \/ WrapsAround(seen, len) /\ ~Exceeds(seen, len) /\ written = 0

MustWait(seen, len, written) ==
    \/ seen.off < written /\ seen.off + len >= written
    \/ WrapsAround(seen, len) /\ (IF Exceeds(seen, len) THEN len ELSE 0) >= written

Target(seen, len) ==
    CASE Exceeds(seen, len) ->
           [off |-> len, wraps |-> WRAP_INCR(seen.wraps), locked |-> TRUE]
      [] WrapsAround(seen, len) /\ ~Exceeds(seen, len) ->
           [off |-> 0, wraps |-> WRAP_INCR(seen.wraps), locked |-> FALSE]
      [] OTHER ->
           [off |-> seen.off + len, wraps |-> seen.wraps, locked |-> FALSE]

(***************************************************************************)
(* Consuming: ready is the smallest stable 'seen_off' not behind written.  *)
(***************************************************************************)
\* Mutant: offsets behind written, after a wrap-around, are not skipped.
Ready_Unfiltered(ready, seen_off, written) ==
    Min({seen_off, ready})

Ready(ready, seen_off, written) ==
    IF seen_off >= written THEN Min({seen_off, ready}) ELSE ready

CutOff(end) == Min({Space, end})

ConsumerWraps(ready, next, written, end) ==
    next < written /\ ready = RBUF_OFF_MAX /\ written = CutOff(end)

ReadyEnd(ready, next, written, end) ==
    IF next < written THEN Min({ready, CutOff(end)}) ELSE Min({ready, next})

Released(written, nbytes) ==
    IF written + nbytes = Space THEN 0 ELSE written + nbytes

=============================================================================

-------------------------- MODULE MpscQueue_proofs --------------------------
(***************************************************************************)
(* Proofs of the queue's safety properties, for every size of the log and  *)
(* every number of workers, across crashes and restarts.                   *)
(***************************************************************************)
EXTENDS MpscQueue, WellFoundedInduction, SequenceTheorems, TLAPS

(***************************************************************************)
(* How elements lie in the ring buffer r.  A block is the space of one     *)
(* element.  Blocks are in the lap of the consumer, from written up to     *)
(* Upper, or behind it, up to Lower; they do not overlap; and going round  *)
(* from written on, their elements are numbered upwards.                   *)
(***************************************************************************)
BlockSet == [off : Offsets, len : Lengths, elem : Elements]

Rings == [next : Offsets, end : Offsets \cup {RBUF_OFF_MAX}, written : Offsets]

Upper(r) == IF r.next < r.written THEN CutOff(r.end) ELSE r.next
Lower(r) == IF r.next < r.written THEN r.next ELSE 0

CutFits(r) == IF r.next < r.written THEN r.end >= r.written ELSE r.end = RBUF_OFF_MAX

EndOf(b) == b.off + b.len
Apart(b, d) == EndOf(b) <= d.off \/ EndOf(d) <= b.off
Inside(r, b) ==
    \/ r.written <= b.off /\ EndOf(b) <= Upper(r)
    \/ EndOf(b) <= Lower(r)
Before(r, b, d) ==
    IF r.written <= b.off THEN b.off < d.off \/ d.off < r.written
    ELSE b.off < d.off /\ d.off < r.written

Fits(r, B) ==
    /\ CutFits(r)
    /\ \A b \in B : Inside(r, b)
    /\ \A b, d \in B : b # d => Apart(b, d)
    /\ \A b, d \in B : Before(r, b, d) => b.elem < d.elem

(***************************************************************************)
(* The ring buffer that the next process will find while none is running:  *)
(* the producer is one cacheline behind the consumer.                      *)
(***************************************************************************)
RestoredRing(w) ==
    [next |-> IF w = 0 THEN Space - 1 ELSE w - 1, end |-> RBUF_OFF_MAX, written |-> w]

TheRing == IF up THEN ring ELSE RestoredRing(pmem_written)

(***************************************************************************)
(* The blocks: those whose first cacheline is stored, and those that a     *)
(* producer has acquired.                                                  *)
(***************************************************************************)
Firsts == {c \in Offsets : log[c].kind = "first"}
Active == {w \in Workers : prod[w].pc # "idle"}

Stored(c) == [off |-> c, len |-> log[c].len, elem |-> log[c].elem]
Claimed(w) == [off |-> prod[w].off, len |-> prod[w].len, elem |-> prod[w].elem]

Blocks == {Stored(c) : c \in Firsts} \cup {Claimed(w) : w \in Active}

BlocksInv ==
    /\ Fits(TheRing, Blocks)
    /\ \A v, w \in Active : v # w => prod[v].elem # prod[w].elem

(***************************************************************************)
(* The cachelines of a block that was stored are its own, all of them      *)
(* unless it is dirty, and no others are in use.                           *)
(***************************************************************************)
LinesInv ==
    /\ \A c \in Firsts : \A i \in c + 1 .. c + log[c].len - 1 :
          log[i] = Rest(log[c].elem) \/ (log[c].dirty /\ log[i] = Zeroed)
    /\ \A i \in Offsets : log[i].kind = "rest" =>
          \E c \in Firsts : c < i /\ i < c + log[c].len

(***************************************************************************)
(* How far a producer has come with its block, and the offset it shows to  *)
(* the consumer: where the block begins, or where the lap was cut off.     *)
(***************************************************************************)
StoresInv(w) ==
    /\ prod[w].pc = "acquired" => log[prod[w].off] = Zeroed
    /\ prod[w].pc \in {"first", "rest", "drained"} => log[prod[w].off] = FirstBlock(w, TRUE)
    /\ prod[w].pc \in {"stored", "threw"} => log[prod[w].off] = FirstBlock(w, FALSE)
    /\ \A i \in prod[w].off + 1 .. prod[w].off + prod[w].len - 1 :
          /\ prod[w].pc \in {"acquired", "first"} => log[i] = Zeroed
          /\ prod[w].pc \in {"rest", "drained", "stored", "threw"} => log[i] = Rest(prod[w].elem)
    /\ w \in Active /\ prod[w].elem \in EmptyElements => prod[w].len = 1

SeenInv(w) ==
    IF w \in Active
    THEN \/ seen_off[w] = prod[w].off
         \/ /\ prod[w].off = 0 /\ seen_off[w] = ring.end
            /\ ring.next < ring.written /\ ring.end < Space
    ELSE seen_off[w] = RBUF_OFF_MAX

(***************************************************************************)
(* What the consumer has got begins at written, takes whole blocks and     *)
(* none of a producer that is in flight.  Once the transaction committed   *)
(* it is cleared.                                                          *)
(***************************************************************************)
ConsumeEnd == consume_offset + consume_len

ConsumeInv ==
    /\ call \in {"tx", "release"} => consume_in_progress
    /\ consume_in_progress =>
          /\ consume_offset = ring.written /\ consume_len > 0 /\ ConsumeEnd <= Upper(ring)
          /\ \A b \in Blocks :
                \/ EndOf(b) <= consume_offset \/ ConsumeEnd <= b.off
                \/ consume_offset <= b.off /\ EndOf(b) <= ConsumeEnd
          /\ \A w \in Active : EndOf(prod[w]) <= consume_offset \/ ConsumeEnd <= prod[w].off
    /\ call = "release" =>
          /\ \A c \in consume_offset .. ConsumeEnd - 1 : log[c] = Zeroed
          /\ pmem_written = Released(consume_offset, consume_len)
    /\ ~up => ring = NewRing /\ Active = {} /\ ~consume_in_progress /\ call = "none"

(***************************************************************************)
(* What was consumed comes before all that is there.                       *)
(***************************************************************************)
OrderInv ==
    /\ consumed \in Seq(Elements)
    /\ ConsumedInOrder
    /\ \A b \in Blocks : b.elem <= acquired
    /\ \A i \in DOMAIN consumed : consumed[i] <= acquired
    /\ \A i \in DOMAIN consumed, b \in Blocks : consumed[i] < b.elem

CompletedInv ==
    EmptyElements = {} =>
        \A e \in completed \ ToSet(consumed) :
            \E c \in Firsts : log[c].elem = e /\ ~log[c].dirty

PCs == {"idle", "acquired", "first", "rest", "drained", "stored", "threw"}

Types ==
    /\ log \in [Offsets -> Cachelines]
    /\ pmem_written \in Offsets
    /\ up \in BOOLEAN
    /\ ring \in Rings
    /\ seen_off \in [Workers -> Offsets \cup {RBUF_OFF_MAX}]
    /\ prod \in [Workers -> [pc : PCs, off : Offsets, len : ElementLengths \cup {0},
                             elem : Elements \cup {Junk}]]
    /\ \A w \in Active : prod[w].len # 0 /\ prod[w].elem # Junk
    /\ consume_in_progress \in BOOLEAN
    /\ consume_offset \in Offsets
    /\ consume_len \in 0 .. Space
    /\ call \in {"none", "begin", "tx", "release"}
    /\ iteration \in 0 .. 1
    /\ acquired \in 0 .. MaxElements
    /\ completed \subseteq Elements

IInv ==
    /\ Types
    /\ BlocksInv
    /\ LinesInv
    /\ \A w \in Workers : StoresInv(w) /\ SeenInv(w)
    /\ ConsumeInv
    /\ OrderInv
    /\ CompletedInv

-----------------------------------------------------------------------------
(***************************************************************************)
(* The operations of the ring buffer.                                      *)
(***************************************************************************)
LEMMA Constants ==
    /\ Space \in Nat /\ Space > 0 /\ RBUF_OFF_MAX = Space + 1 /\ RBUF_OFF_MAX \in Nat
    /\ Offsets = 0 .. Space - 1 /\ Lengths = 1 .. Space /\ Junk = 0
    /\ NWorkers \in Nat /\ NWorkers > 0 /\ MaxElements \in Nat
    /\ ElementLengths \subseteq Lengths /\ EmptyElements \subseteq Elements
    /\ Elements = 1 .. MaxElements
  BY SpaceAssumption, ElementsAssumption
  DEF RBUF_OFF_MAX, Offsets, Lengths, Junk, Elements

LEMMA MinOfTwo ==
    ASSUME NEW a \in Int, NEW b \in Int
    PROVE  Min({a, b}) = IF a <= b THEN a ELSE b
<1>1. \E x \in {a, b} : \A y \in {a, b} : x <= y
  OBVIOUS
<1> DEFINE x == CHOOSE x \in {a, b} : \A y \in {a, b} : x <= y
<1>2. x \in {a, b} /\ \A y \in {a, b} : x <= y
  BY <1>1
<1>3. x = Min({a, b})
  BY DEF Min
<1> HIDE DEF x
<1> QED BY <1>2, <1>3

LEMMA RingBounds ==
    ASSUME NEW r \in Rings
    PROVE  /\ r.next \in 0 .. Space - 1 /\ r.written \in 0 .. Space - 1
           /\ r.end \in 0 .. Space + 1 /\ r.end # Space
           /\ CutOff(r.end) = IF r.end = RBUF_OFF_MAX THEN Space ELSE r.end
           /\ CutFits(r) =>
                 /\ Upper(r) \in 0 .. Space /\ r.written <= Upper(r)
                 /\ Lower(r) \in 0 .. Space - 1 /\ Lower(r) <= r.written
<1>1. /\ r.next \in 0 .. Space - 1 /\ r.written \in 0 .. Space - 1
      /\ r.end \in 0 .. Space + 1 /\ r.end # Space
  BY Constants DEF Rings
<1>2. CutOff(r.end) = IF r.end = RBUF_OFF_MAX THEN Space ELSE r.end
  BY <1>1, Constants, MinOfTwo DEF CutOff
<1> QED BY <1>1, <1>2, Constants DEF CutFits, Upper, Lower

LEMMA BlockBounds ==
    ASSUME NEW b \in BlockSet
    PROVE  /\ b.off \in 0 .. Space - 1 /\ b.len \in 1 .. Space
           /\ b.elem \in 1 .. MaxElements
           /\ EndOf(b) = b.off + b.len /\ EndOf(b) \in Nat /\ EndOf(b) > b.off
  BY Constants DEF BlockSet, EndOf

(***************************************************************************)
(* Acquiring n cachelines: at 'next', in the same lap or up to the end of  *)
(* the buffer, or at the start of the buffer with the lap cut off.         *)
(***************************************************************************)
LEMMA AcquireIs ==
    ASSUME NEW r \in Rings, NEW n \in 0 .. Space
    PROVE  /\ Acquire(r, n).written = r.written
           /\ Acquire(r, n).next = IF r.next + n > Space THEN n
                                   ELSE IF r.next + n = Space THEN 0 ELSE r.next + n
           /\ Acquire(r, n).end = IF r.next + n > Space THEN r.next ELSE r.end
           /\ Acquire(r, n).next \in Offsets => Acquire(r, n) \in Rings
           /\ AcquiredAt(r, n) = IF r.next + n > Space THEN 0 ELSE r.next
           /\ CanAcquire(r, n) <=>
                 /\ r.next < r.written => r.next + n < r.written
                 /\ r.next + n = Space => 0 < r.written
                 /\ r.next + n > Space => n < r.written
<1>1. r.next \in 0 .. Space - 1 /\ r.written \in 0 .. Space - 1 /\ n \in 0 .. Space
  BY RingBounds
<1>2. Word(r.next).off = r.next
  BY DEF Word
<1>3. /\ Exceeds(Word(r.next), n) <=> r.next + n > Space
      /\ WrapsAround(Word(r.next), n) <=> r.next + n >= Space
  BY <1>2 DEF Exceeds, WrapsAround
<1>4. Target(Word(r.next), n).off =
        IF r.next + n > Space THEN n ELSE IF r.next + n = Space THEN 0 ELSE r.next + n
  <2>1. CASE r.next + n > Space
    BY <2>1, <1>1, <1>2, <1>3, Constants DEF Target
  <2>2. CASE r.next + n = Space
    BY <2>2, <1>1, <1>2, <1>3, Constants DEF Target
  <2>3. CASE r.next + n < Space
    BY <2>3, <1>1, <1>2, <1>3, Constants DEF Target
  <2> QED BY <2>1, <2>2, <2>3, <1>1, Constants
<1>5. CanAcquire(r, n) <=>
                 /\ r.next < r.written => r.next + n < r.written
                 /\ r.next + n = Space => 0 < r.written
                 /\ r.next + n > Space => n < r.written
  <2> HIDE DEF Word
  <2> QED BY <1>1, <1>2, <1>3, Constants DEF CanAcquire, MustWait
<1>6. AcquiredAt(r, n) = IF r.next + n > Space THEN 0 ELSE r.next
  BY <1>3 DEF AcquiredAt
<1>7. PICK t : t = Target(Word(r.next), n).off
  OBVIOUS
<1>8. PICK x : x = IF r.next + n > Space THEN r.next ELSE r.end
  OBVIOUS
<1>9. Acquire(r, n) = [r EXCEPT !.next = t, !.end = x]
  BY <1>3, <1>7, <1>8 DEF Acquire
<1>10. x \in Offsets \cup {RBUF_OFF_MAX}
  BY <1>8 DEF Rings
<1>11. /\ Acquire(r, n).written = r.written
       /\ Acquire(r, n).next = t
       /\ Acquire(r, n).end = x
       /\ t \in Offsets => Acquire(r, n) \in Rings
  BY <1>9, <1>10 DEF Rings
<1> QED BY <1>4, <1>5, <1>6, <1>7, <1>8, <1>11

(***************************************************************************)
(* The space that is acquired is free, and comes last.                     *)
(***************************************************************************)
LEMMA AcquireFits ==
    ASSUME NEW r \in Rings, NEW B \in SUBSET BlockSet, NEW n \in Lengths, NEW e \in Elements,
           Fits(r, B), CanAcquire(r, n), \A b \in B : b.elem < e
    PROVE  LET q == Acquire(r, n)
               new == [off |-> AcquiredAt(r, n), len |-> n, elem |-> e]
           IN  /\ q \in Rings /\ new \in BlockSet
               /\ Fits(q, B \cup {new})
               /\ \A b \in B : Apart(b, new)
               /\ EndOf(new) <= r.written \/ Upper(r) <= new.off
               /\ Upper(r) <= Upper(q)
               /\ \/ AcquiredAt(r, n) = r.next
                  \/ /\ AcquiredAt(r, n) = 0 /\ q.end = r.next
                     /\ q.next < q.written /\ q.end < Space
               /\ r.next < r.written => q.next < q.written /\ q.end = r.end
<1> DEFINE q == Acquire(r, n)
           a == AcquiredAt(r, n)
           new == [off |-> a, len |-> n, elem |-> e]
<1>1. /\ r.next \in 0 .. Space - 1 /\ r.written \in 0 .. Space - 1 /\ n \in 1 .. Space
      /\ r.end \in 0 .. Space + 1 /\ n \in 0 .. Space
  BY RingBounds, Constants
<1>2. CutFits(r)
  BY DEF Fits
<1>3. /\ q.written = r.written
      /\ \/ /\ r.next + n < Space /\ (r.next < r.written => r.next + n < r.written)
            /\ q.next = r.next + n /\ q.end = r.end /\ a = r.next
         \/ /\ r.next + n = Space /\ r.written <= r.next /\ 0 < r.written
            /\ q.next = 0 /\ q.end = r.end /\ a = r.next
         \/ /\ r.next + n > Space /\ r.written <= r.next /\ n < r.written
            /\ q.next = n /\ q.end = r.next /\ a = 0
  <2>1. /\ q.written = r.written
        /\ q.next = IF r.next + n > Space THEN n
                    ELSE IF r.next + n = Space THEN 0 ELSE r.next + n
        /\ q.end = IF r.next + n > Space THEN r.next ELSE r.end
        /\ a = IF r.next + n > Space THEN 0 ELSE r.next
    BY <1>1, AcquireIs
  <2>2. /\ r.next < r.written => r.next + n < r.written
        /\ r.next + n = Space => 0 < r.written
        /\ r.next + n > Space => n < r.written
    BY <1>1, AcquireIs
  <2> HIDE DEF q, a
  <2> QED BY <1>1, <2>1, <2>2, Constants
<1>4. q \in Rings
  <2>1. q.next \in Offsets => q \in Rings
    BY <1>1, AcquireIs
  <2> HIDE DEF q, a
  <2> QED BY <1>1, <1>3, <2>1, Constants
<1>5. a \in Offsets /\ new \in BlockSet
  BY <1>1, <1>3, Constants DEF BlockSet
<1>6. new.off = a /\ new.len = n /\ new.elem = e /\ EndOf(new) = a + n
  BY DEF EndOf
<1> HIDE DEF q, a, new
<1>7. CutFits(q)
  BY <1>1, <1>2, <1>3, Constants DEF CutFits
<1>8. /\ Upper(r) <= Upper(q) /\ Upper(q) \in Int /\ Upper(r) \in Int
      /\ Lower(q) \in Int /\ Lower(r) \in Int
      /\ Lower(r) <= Lower(q)
      /\ EndOf(new) <= r.written \/ Upper(r) <= new.off
      /\ Inside(q, new)
  <2>1. /\ CutOff(r.end) = IF r.end = RBUF_OFF_MAX THEN Space ELSE r.end
        /\ CutOff(q.end) = IF q.end = RBUF_OFF_MAX THEN Space ELSE q.end
    BY <1>4, RingBounds
  <2> QED BY <1>1, <1>2, <1>3, <1>6, <1>7, <2>1, Constants
          DEF Upper, Lower, Inside, CutFits
<1>9. ASSUME NEW b \in B
      PROVE  /\ Inside(q, b) /\ Apart(b, new) /\ b # new /\ b.elem < e
             /\ ~Before(q, new, b)
  <2>1. b.off \in 0 .. Space - 1 /\ EndOf(b) \in Nat /\ EndOf(b) > b.off
    BY BlockBounds
  <2>2. Inside(r, b) /\ b.elem < e
    BY DEF Fits
  <2>3. Inside(q, b)
    BY <1>1, <1>3, <1>8, <2>1, <2>2, Constants DEF Inside
  <2>4. EndOf(b) <= Upper(r) \/ EndOf(b) <= Lower(r)
    BY <2>2 DEF Inside
  <2>5. CutOff(r.end) = IF r.end = RBUF_OFF_MAX THEN Space ELSE r.end
    BY RingBounds
  <2>6. Apart(b, new)
    BY <1>1, <1>2, <1>3, <1>6, <2>1, <2>2, <2>5, Constants DEF Inside, Upper, Lower, CutFits, Apart
  <2>7. ~Before(q, new, b)
    BY <1>1, <1>2, <1>3, <1>6, <2>1, <2>2, <2>5, Constants DEF Inside, Upper, Lower, CutFits, Before
  <2>8. b # new
    <3>1. b.elem \in Int /\ e \in Int
      BY BlockBounds, Constants
    <3> QED BY <2>2, <1>6, <3>1
  <2> QED BY <2>2, <2>3, <2>6, <2>7, <2>8
<1>10. Fits(q, B \cup {new})
  <2>1. \A b \in B \cup {new} : Inside(q, b)
    BY <1>8, <1>9
  <2>2. \A b, d \in B \cup {new} : b # d => Apart(b, d)
    <3>1. \A b, d \in B : b # d => Apart(b, d)
      BY DEF Fits
    <3>2. \A b \in B : Apart(new, b)
      BY <1>9 DEF Apart
    <3> QED BY <1>9, <3>1, <3>2
  <2>3. ASSUME NEW b \in B \cup {new}, NEW d \in B \cup {new}, Before(q, b, d)
        PROVE  b.elem < d.elem
    <3>1. CASE b \in B /\ d \in B
      <4>1. Before(r, b, d)
        BY <1>3, <2>3 DEF Before
      <4> QED BY <3>1, <4>1 DEF Fits
    <3>2. CASE b \in B /\ d = new
      BY <3>2, <1>6, <1>9
    <3>3. CASE b = new /\ d \in B
      BY <3>3, <1>9, <2>3
    <3>4. CASE b = new /\ d = new
      <4>1. ~Before(q, new, new)
        BY <1>1, <1>3, <1>6, Constants DEF Before
      <4> QED BY <3>4, <4>1, <2>3
    <3> QED BY <3>1, <3>2, <3>3, <3>4, <2>3
  <2> QED BY <1>7, <2>1, <2>2, <2>3 DEF Fits
<1>11. /\ \/ a = r.next
          \/ a = 0 /\ q.end = r.next /\ q.next < q.written /\ q.end < Space
       /\ r.next < r.written => q.next < q.written /\ q.end = r.end
  BY <1>1, <1>3, Constants
<1> QED BY <1>4, <1>5, <1>8, <1>9, <1>10, <1>11 DEF q, a, new

LEMMA RingEqual ==
    ASSUME NEW r \in Rings, NEW q \in Rings,
           r.next = q.next, r.end = q.end, r.written = q.written
    PROVE  r = q
  BY DEF Rings

(***************************************************************************)
(* Every set of numbers has a least one.                                   *)
(***************************************************************************)
LEMMA Least ==
    ASSUME NEW T \in SUBSET Nat, T # {}
    PROVE  \E x \in T : \A y \in T : x <= y
<1>1. IsWellFoundedOn(OpToRel(<, Nat), Nat)
  BY NatLessThanWellFounded
<1>2. PICK x \in T : \A y \in T : ~(<<y, x>> \in OpToRel(<, Nat))
  BY <1>1, WFMin
<1>3. ASSUME NEW y \in T PROVE x <= y
  <2>1. ~(<<y, x>> \in OpToRel(<, Nat))
    BY <1>2
  <2>2. ~(y < x)
    BY <2>1 DEF OpToRel
  <2> QED BY <2>2
<1> QED BY <1>3

LEMMA SmallestSeenIs ==
    ASSUME NEW r \in Rings, NEW seen \in SUBSET Nat
    PROVE  /\ SmallestSeen(r, seen) \in Nat
           /\ SmallestSeen(r, seen) <= RBUF_OFF_MAX
           /\ r.written <= SmallestSeen(r, seen)
           /\ SmallestSeen(r, seen) = RBUF_OFF_MAX \/ SmallestSeen(r, seen) \in seen
           /\ \A s \in seen : r.written <= s => SmallestSeen(r, seen) <= s
<1> DEFINE T == {RBUF_OFF_MAX} \cup {s \in seen : s >= r.written}
<1>1. T \in SUBSET Nat /\ T # {}
  BY Constants
<1>2. \E x \in T : \A y \in T : x <= y
  BY <1>1, Least
<1>3. SmallestSeen(r, seen) = CHOOSE x \in T : \A y \in T : x <= y
  BY DEF SmallestSeen, Min
<1>4. SmallestSeen(r, seen) \in T /\ \A y \in T : SmallestSeen(r, seen) <= y
  BY <1>2, <1>3
<1>5. r.written \in Nat /\ r.written <= RBUF_OFF_MAX
  BY RingBounds, Constants
<1> HIDE DEF T
<1>6. SmallestSeen(r, seen) \in Nat
  BY <1>1, <1>4
<1>7. RBUF_OFF_MAX \in T /\ \A s \in seen : r.written <= s => s \in T
  BY <1>5 DEF T
<1>8. SmallestSeen(r, seen) = RBUF_OFF_MAX
      \/ (SmallestSeen(r, seen) \in seen /\ SmallestSeen(r, seen) >= r.written)
  BY <1>4 DEF T
<1> QED BY <1>4, <1>5, <1>6, <1>7, <1>8

(***************************************************************************)
(* What ringbuf_consume returns: from written up to the end of the lap, or *)
(* up to the first offset that a producer shows.                           *)
(***************************************************************************)
LEMMA ConsumableIs ==
    ASSUME NEW r \in Rings, CutFits(r), NEW seen \in SUBSET Nat
    PROVE  LET n == Consumable(r, seen)
           IN  /\ n \in 0 .. Space
               /\ r.written + n <= Upper(r)
               /\ \A s \in seen : r.written <= s => r.written + n <= s
               /\ r.written + n = Upper(r) \/ r.written + n \in seen
<1> DEFINE m == SmallestSeen(r, seen)
           n == Consumable(r, seen)
<1>1. /\ m \in Nat /\ m <= Space + 1 /\ r.written <= m
      /\ m = RBUF_OFF_MAX \/ m \in seen
      /\ \A s \in seen : r.written <= s => m <= s
  BY SmallestSeenIs, Constants
<1>2. /\ Upper(r) \in 0 .. Space /\ r.written <= Upper(r) /\ r.written \in 0 .. Space - 1
      /\ r.next \in 0 .. Space - 1
  BY RingBounds
<1>3. ReadyEnd(m, r.next, r.written, r.end) = Min({m, Upper(r)})
  BY DEF ReadyEnd, Upper
<1>4. Min({m, Upper(r)}) = IF m <= Upper(r) THEN m ELSE Upper(r)
  BY <1>1, <1>2, MinOfTwo
<1>5. r.written = r.next => Upper(r) = r.written
  BY <1>2 DEF Upper
<1>6. n = IF r.written = r.next THEN 0 ELSE ReadyEnd(m, r.next, r.written, r.end) - r.written
  BY DEF Consumable
<1> HIDE DEF m, n
<1>7. n = (IF m <= Upper(r) THEN m ELSE Upper(r)) - r.written
  BY <1>1, <1>2, <1>3, <1>4, <1>5, <1>6
<1>8. /\ n \in 0 .. Space
      /\ r.written + n <= Upper(r)
      /\ r.written + n <= m
      /\ r.written + n = Upper(r) \/ r.written + n = m
  BY <1>1, <1>2, <1>7, Constants
<1>9. r.written + n = m => r.written + n = Upper(r) \/ r.written + n \in seen
  BY <1>1, <1>2, <1>8, Constants
<1>10. ASSUME NEW s \in seen, r.written <= s
       PROVE  r.written + n <= s
  BY <1>1, <1>2, <1>8, <1>10
<1> QED BY <1>8, <1>9, <1>10 DEF n

LEMMA WrapIs ==
    ASSUME NEW r \in Rings, NEW seen \in SUBSET Nat
    PROVE  \/ Wrap(r, seen) = r
           \/ /\ r.next < r.written /\ r.written = CutOff(r.end)
              /\ \A s \in seen : s < r.written \/ RBUF_OFF_MAX <= s
              /\ Wrap(r, seen) \in Rings
              /\ Wrap(r, seen).next = r.next /\ Wrap(r, seen).written = 0
              /\ Wrap(r, seen).end = RBUF_OFF_MAX
<1>1. CASE r.written # r.next /\ ConsumerWraps(SmallestSeen(r, seen), r.next, r.written, r.end)
  <2>1. Wrap(r, seen) = [r EXCEPT !.end = RBUF_OFF_MAX, !.written = 0]
    BY <1>1 DEF Wrap
  <2>2. 0 \in Offsets
    BY Constants
  <2>3. /\ Wrap(r, seen) \in Rings
        /\ Wrap(r, seen).next = r.next /\ Wrap(r, seen).written = 0
        /\ Wrap(r, seen).end = RBUF_OFF_MAX
    BY <2>1, <2>2 DEF Rings
  <2>4. r.next < r.written /\ r.written = CutOff(r.end) /\ SmallestSeen(r, seen) = RBUF_OFF_MAX
    BY <1>1 DEF ConsumerWraps
  <2>5. ASSUME NEW s \in seen PROVE s < r.written \/ RBUF_OFF_MAX <= s
    <3>1. r.written <= s => RBUF_OFF_MAX <= s
      BY <2>4, SmallestSeenIs
    <3> QED BY <3>1, RingBounds
  <2> QED BY <2>3, <2>4, <2>5
<1>2. CASE ~(r.written # r.next /\ ConsumerWraps(SmallestSeen(r, seen), r.next, r.written, r.end))
  BY <1>2 DEF Wrap
<1> QED BY <1>1, <1>2

LEMMA WrapFits ==
    ASSUME NEW r \in Rings, NEW q \in Rings, NEW B \in SUBSET BlockSet, Fits(r, B),
           r.next < r.written, r.written = CutOff(r.end),
           q.next = r.next, q.written = 0, q.end = RBUF_OFF_MAX
    PROVE  Fits(q, B) /\ \A b \in B : EndOf(b) <= r.next
<1>1. r.next \in 0 .. Space - 1 /\ r.written \in 0 .. Space - 1
  BY RingBounds
<1>2. CutFits(q)
  BY <1>1 DEF CutFits
<1>3. Upper(q) = r.next /\ Lower(r) = r.next /\ Upper(r) = r.written
  BY <1>1 DEF Upper, Lower
<1>4. ASSUME NEW b \in B
      PROVE  Inside(q, b) /\ b.off < r.written /\ EndOf(b) <= r.next /\ b.off \in Nat
  <2>1. Inside(r, b)
    BY DEF Fits
  <2>2. b.off \in 0 .. Space - 1 /\ EndOf(b) \in Nat /\ b.off < EndOf(b)
    BY BlockBounds
  <2> QED BY <1>1, <1>3, <2>1, <2>2 DEF Inside
<1>5. ASSUME NEW b \in B, NEW d \in B, Before(q, b, d)
      PROVE  b.elem < d.elem
  <2>1. Before(r, b, d)
    BY <1>1, <1>4, <1>5 DEF Before
  <2> QED BY <2>1 DEF Fits
<1>6. \A b, d \in B : b # d => Apart(b, d)
  BY DEF Fits
<1> QED BY <1>2, <1>4, <1>5, <1>6 DEF Fits

(***************************************************************************)
(* Releasing what has no block any more.                                   *)
(***************************************************************************)
LEMMA ReleaseFits ==
    ASSUME NEW r \in Rings, NEW n \in 1 .. Space, NEW B \in SUBSET BlockSet, Fits(r, B),
           r.written + n <= Upper(r),
           \A b \in B : EndOf(b) <= r.written \/ r.written + n <= b.off
    PROVE  /\ Release(r, n) \in Rings /\ Fits(Release(r, n), B)
           /\ Release(r, n).written = Released(r.written, n)
           /\ Release(r, n).end = r.end /\ Release(r, n).next = r.next
           /\ r.next < r.written /\ r.end < Space => r.next < Release(r, n).written
<1> DEFINE q == Release(r, n)
<1>1. r.next \in 0 .. Space - 1 /\ r.written \in 0 .. Space - 1 /\ Upper(r) \in 0 .. Space
  BY RingBounds DEF Fits
<1>2. Released(r.written, n) = IF r.written + n = Space THEN 0 ELSE r.written + n
  BY DEF Released
<1>3. Released(r.written, n) \in Offsets
  BY <1>1, <1>2, Constants
<1>4. /\ q \in Rings /\ q.written = Released(r.written, n)
      /\ q.next = r.next /\ q.end = r.end
  BY <1>3 DEF Release, Rings
<1> HIDE DEF q
<1>5. /\ CutOff(r.end) = IF r.end = RBUF_OFF_MAX THEN Space ELSE r.end
      /\ r.end \in 0 .. Space + 1 /\ r.end # Space
      /\ CutFits(r)
  BY RingBounds DEF Fits
<1>6. CutFits(q) /\ (r.next < r.written /\ r.end < Space => r.next < q.written)
  BY <1>1, <1>2, <1>4, <1>5, Constants DEF CutFits, Upper
<1>7. ASSUME NEW b \in B
      PROVE  Inside(q, b)
  <2>1. Inside(r, b) /\ (EndOf(b) <= r.written \/ r.written + n <= b.off)
    BY DEF Fits
  <2>2. b.off \in 0 .. Space - 1 /\ EndOf(b) \in Nat /\ b.off < EndOf(b)
    BY BlockBounds
  <2> QED BY <1>1, <1>2, <1>4, <1>5, <2>1, <2>2, Constants DEF Inside, Upper, Lower, CutFits
<1>8. ASSUME NEW b \in B, NEW d \in B, Before(q, b, d)
      PROVE  b.elem < d.elem
  <2>1. /\ EndOf(b) <= r.written \/ r.written + n <= b.off
        /\ EndOf(d) <= r.written \/ r.written + n <= d.off
    OBVIOUS
  <2>2. /\ b.off \in 0 .. Space - 1 /\ EndOf(b) \in Nat /\ b.off < EndOf(b)
        /\ d.off \in 0 .. Space - 1 /\ EndOf(d) \in Nat /\ d.off < EndOf(d)
    BY BlockBounds
  <2>3. Inside(r, b) /\ Inside(r, d)
    BY DEF Fits
  <2>4. Before(r, b, d)
    <3>1. CASE r.written + n = Space
      BY <1>1, <1>2, <1>4, <1>8, <2>1, <2>2, <3>1 DEF Before
    <3>2. CASE r.written + n # Space
      BY <1>1, <1>2, <1>4, <1>8, <2>1, <2>2, <3>2 DEF Before
    <3> QED BY <3>1, <3>2
  <2> QED BY <2>4 DEF Fits
<1>9. \A b, d \in B : b # d => Apart(b, d)
  BY DEF Fits
<1>10. Fits(q, B)
  BY <1>6, <1>7, <1>8, <1>9 DEF Fits
<1> QED BY <1>4, <1>6, <1>10 DEF q

(***************************************************************************)
(* restore_offsets puts the producer one cacheline behind the consumer,    *)
(* and all that was in the ring buffer is in it again.                     *)
(***************************************************************************)
LEMMA RestoreOffsets ==
    ASSUME NEW w \in Offsets
    PROVE  restore_offsets(w) = RestoredRing(w) /\ RestoredRing(w) \in Rings
<1>1. w \in 0 .. Space - 1
  BY Constants
<1>2. RestoredRing(w) \in Rings
  BY <1>1, Constants DEF RestoredRing, Rings
<1>3. NewRing \in Rings /\ NewRing.next = 0 /\ NewRing.written = 0 /\ NewRing.end = RBUF_OFF_MAX
  BY Constants DEF NewRing, Rings
<1>4. RestoredRing(w).next = (IF w = 0 THEN Space - 1 ELSE w - 1)
      /\ RestoredRing(w).written = w /\ RestoredRing(w).end = RBUF_OFF_MAX
  BY DEF RestoredRing
<1>5. CASE w = 0
  <2> DEFINE a == Acquire(NewRing, Space - 1)
  <2>1. Space - 1 \in 0 .. Space /\ 0 + (Space - 1) < Space /\ Space - 1 \in Offsets
    BY Constants
  <2>2. a \in Rings /\ a.next = Space - 1 /\ a.end = RBUF_OFF_MAX /\ a.written = 0
    BY <1>3, <2>1, AcquireIs, Constants
  <2> HIDE DEF a
  <2>3. a = RestoredRing(w)
    BY <1>2, <1>4, <1>5, <2>2, RingEqual
  <2>4. restore_offsets(w) = a
    BY <1>5 DEF restore_offsets, a
  <2> QED BY <1>2, <2>3, <2>4
<1>6. CASE w # 0
  <2> DEFINE a == Acquire(NewRing, w)
             c == ConsumeTo(a)
             d == Acquire(c, Space - w)
             e == Acquire(d, w - 1)
  <2>1. w \in 0 .. Space /\ Space - w \in 0 .. Space /\ w - 1 \in 0 .. Space /\ 0 \in Offsets
    BY <1>1, <1>6, Constants
  <2>2. a \in Rings /\ a.next = w /\ a.end = RBUF_OFF_MAX /\ a.written = 0
    <3>1. /\ a.written = NewRing.written
          /\ a.next = IF NewRing.next + w > Space THEN w
                      ELSE IF NewRing.next + w = Space THEN 0 ELSE NewRing.next + w
          /\ a.end = IF NewRing.next + w > Space THEN NewRing.next ELSE NewRing.end
          /\ a.next \in Offsets => a \in Rings
      BY <1>3, <2>1, AcquireIs
    <3> HIDE DEF a
    <3> QED BY <1>1, <1>3, <3>1, Constants
  <2> HIDE DEF a
  <2>3. c \in Rings /\ c.next = w /\ c.end = RBUF_OFF_MAX /\ c.written = w
    <3>1. CutFits(a) /\ Upper(a) = w
      BY <1>1, <2>2 DEF CutFits, Upper
    <3>2. Consumable(a, {}) = w
      <4>1. {} \in SUBSET Nat /\ \A x : x \notin {}
        OBVIOUS
      <4>2. /\ Consumable(a, {}) \in 0 .. Space
            /\ a.written + Consumable(a, {}) = Upper(a) \/ a.written + Consumable(a, {}) \in {}
        BY <2>2, <3>1, <4>1, ConsumableIs
      <4> QED BY <2>2, <3>1, <4>2, <1>1, Constants
    <3>3. Released(0, w) = w
      BY <1>1, Constants DEF Released
    <3>4. c = [a EXCEPT !.written = w]
      BY <2>2, <3>2, <3>3 DEF ConsumeTo, Release
    <3> HIDE DEF c
    <3> QED BY <2>2, <3>4 DEF Rings
  <2> HIDE DEF c
  <2>4. d \in Rings /\ d.next = 0 /\ d.end = RBUF_OFF_MAX /\ d.written = w
    BY <1>1, <2>1, <2>3, AcquireIs, Constants
  <2> HIDE DEF d
  <2>5. e \in Rings /\ e.next = w - 1 /\ e.end = RBUF_OFF_MAX /\ e.written = w
    BY <1>1, <1>6, <2>1, <2>4, AcquireIs, Constants
  <2> HIDE DEF e
  <2>6. e = RestoredRing(w)
    BY <1>2, <1>4, <1>6, <2>5, RingEqual
  <2>7. restore_offsets(w) = e
    BY <1>6 DEF restore_offsets, e, d, c, a
  <2> QED BY <1>2, <2>6, <2>7
<1> QED BY <1>5, <1>6

LEMMA RestoreFits ==
    ASSUME NEW r \in Rings, NEW B \in SUBSET BlockSet, Fits(r, B)
    PROVE  Fits(RestoredRing(r.written), B)
<1> DEFINE q == RestoredRing(r.written)
<1>1. r.next \in 0 .. Space - 1 /\ r.written \in 0 .. Space - 1 /\ Upper(r) \in 0 .. Space
  BY RingBounds DEF Fits
<1>2. /\ q.next = IF r.written = 0 THEN Space - 1 ELSE r.written - 1
      /\ q.written = r.written /\ q.end = RBUF_OFF_MAX
  BY DEF RestoredRing
<1>3. CutOff(q.end) = Space
  BY <1>2, Constants, MinOfTwo DEF CutOff
<1> HIDE DEF q
<1>4. CutFits(q)
  BY <1>1, <1>2, Constants DEF CutFits
<1>5. ASSUME NEW b \in B
      PROVE  Inside(q, b)
  <2>1. Inside(r, b)
    BY DEF Fits
  <2>2. b.off \in 0 .. Space - 1 /\ EndOf(b) \in Nat /\ b.off < EndOf(b)
    BY BlockBounds
  <2>3. CASE r.written = 0
    <3>1. Upper(r) = r.next /\ Lower(r) = 0
      BY <1>1, <2>3 DEF Upper, Lower
    <3>2. Upper(q) = Space - 1
      BY <1>1, <1>2, <2>3, Constants DEF Upper
    <3> QED BY <1>1, <1>2, <2>1, <2>2, <2>3, <3>1, <3>2, Constants DEF Inside
  <2>4. CASE r.written # 0
    <3>1. Upper(q) = Space /\ Lower(q) = r.written - 1
      BY <1>1, <1>2, <1>3, <2>4, Constants DEF Upper, Lower
    <3>2. Lower(r) <= r.written - 1 /\ Lower(r) \in Nat
      BY <1>1, <2>4 DEF Lower
    <3> QED BY <1>1, <1>2, <2>1, <2>2, <3>1, <3>2, Constants DEF Inside
  <2> QED BY <2>3, <2>4
<1>6. \A b, d \in B : b # d => Apart(b, d)
  BY DEF Fits
<1>7. \A b, d \in B : Before(q, b, d) => b.elem < d.elem
  BY <1>2 DEF Fits, Before
<1>8. Fits(q, B)
  BY <1>4, <1>5, <1>6, <1>7 DEF Fits
<1> QED BY <1>8 DEF q

LEMMA FewerFit ==
    ASSUME NEW r, NEW B, NEW D \in SUBSET B, Fits(r, B)
    PROVE  Fits(r, D)
  BY DEF Fits

-----------------------------------------------------------------------------
(***************************************************************************)
(* The walk over the log.                                                  *)
(***************************************************************************)
LEMMA LineKinds ==
    ASSUME NEW x \in Cachelines
    PROVE  /\ x.kind \in {"zeroed", "rest", "first"}
           /\ x.kind = "zeroed" <=> x = Zeroed
           /\ x.kind = "first" =>
                 /\ x.len \in ElementLengths /\ x.len \in 1 .. Space
                 /\ x.elem \in Elements /\ x.dirty \in BOOLEAN
                 /\ x = First(x.elem, x.len, x.dirty)
           /\ x.kind = "rest" => x.elem \in Elements /\ x = Rest(x.elem)
<1>1. CASE x = Zeroed
  BY <1>1 DEF Zeroed
<1>2. CASE x \in {Rest(e) : e \in Elements}
  BY <1>2 DEF Rest, Zeroed
<1>3. CASE x \in {First(e, n, d) : e \in Elements, n \in ElementLengths, d \in BOOLEAN}
  <2>1. PICK e \in Elements, n \in ElementLengths, d \in BOOLEAN : x = First(e, n, d)
    BY <1>3
  <2>2. x.kind = "first" /\ x.elem = e /\ x.len = n /\ x.dirty = d
    BY <2>1 DEF First
  <2>3. x # Zeroed
    BY <2>2 DEF Zeroed
  <2>4. n \in 1 .. Space
    BY Constants
  <2> QED BY <2>1, <2>2, <2>3, <2>4
<1> QED BY <1>1, <1>2, <1>3 DEF Cachelines

LEMMA SeekLooksAhead ==
    ASSUME log \in [Offsets -> Cachelines], NEW to \in 0 .. Space, NEW c \in Nat,
           NEW f, NEW g, \A d \in Nat : d > c => f[d] = g[d]
    PROVE  Seek(f, c, to) = Seek(g, c, to)
<1>1. CASE c >= to
  BY <1>1, Constants DEF Seek
<1>2. CASE c < to
  <2>1. c \in Offsets
    BY <1>2, Constants
  <2>2. log[c] \in Cachelines
    BY <2>1
  <2>3. c + 1 \in Nat /\ c + 1 > c
    OBVIOUS
  <2>4. CASE log[c].kind = "zeroed"
    BY <1>2, <2>3, <2>4, Constants DEF Seek
  <2>5. CASE log[c].kind = "rest"
    BY <1>2, <2>5, Constants DEF Seek
  <2>6. CASE log[c].kind = "first"
    <3>1. c + log[c].len \in Nat /\ c + log[c].len > c
      BY <2>2, <2>6, LineKinds
    <3>2. f[c + log[c].len] = g[c + log[c].len]
      BY <3>1
    <3> QED BY <1>2, <2>6, <3>2, Constants DEF Seek
  <2> QED BY <2>2, <2>4, <2>5, <2>6, LineKinds
<1> QED BY <1>1, <1>2, Constants

Seen(to) == CHOOSE f : f = [c \in Nat |-> Seek(f, c, to)]

LEMMA SeenExists ==
    ASSUME log \in [Offsets -> Cachelines], NEW to \in 0 .. Space
    PROVE  Seen(to) = [c \in Nat |-> Seek(Seen(to), c, to)]
<1>0. to \in Nat
  BY Constants
<1> DEFINE From(f, k) ==
             /\ f = [c \in Nat |-> f[c]]
             /\ \A c \in Nat : c + k >= to => f[c] = Seek(f, c, to)
           T == {k \in Nat : ~\E f : From(f, k)}
<1>1. \E f : From(f, 0)
  <2> DEFINE f == [c \in Nat |-> IF c = to THEN << >> ELSE << Junk >>]
  <2>1. \A c \in Nat : c + 0 >= to => f[c] = Seek(f, c, to)
    BY <1>0 DEF Seek
  <2> QED BY <2>1
<1>2. ASSUME NEW k \in Nat, \E f : From(f, k)
      PROVE  \E f : From(f, k + 1)
  <2>1. PICK f : From(f, k)
    BY <1>2
  <2> DEFINE g == [c \in Nat |-> IF c + (k + 1) = to THEN Seek(f, c, to) ELSE f[c]]
  <2>2. ASSUME NEW c \in Nat, c + (k + 1) >= to
        PROVE  g[c] = Seek(g, c, to)
    <3>1. \A d \in Nat : d > c => f[d] = g[d]
      BY <1>0, <2>2
    <3>2. Seek(f, c, to) = Seek(g, c, to)
      BY <3>1, SeekLooksAhead
    <3>3. CASE c + (k + 1) = to
      BY <3>2, <3>3
    <3>4. CASE c + (k + 1) # to
      <4>1. c + k >= to
        BY <1>0, <2>2, <3>4
      <4>2. f[c] = Seek(f, c, to)
        BY <2>1, <4>1
      <4>3. g[c] = f[c]
        BY <3>4
      <4> QED BY <3>2, <4>2, <4>3
    <3> QED BY <3>3, <3>4
  <2>3. g = [c \in Nat |-> g[c]]
    OBVIOUS
  <2> HIDE DEF g
  <2> QED BY <2>2, <2>3
<1>3. T = {}
  <2> SUFFICES ASSUME T # {} PROVE FALSE
    OBVIOUS
  <2>1. PICK k \in T : \A j \in T : k <= j
    BY Least
  <2>2. k \in Nat /\ ~\E f : From(f, k)
    OBVIOUS
  <2>3. k # 0
    BY <1>1, <2>2
  <2>4. k - 1 \in Nat /\ k - 1 \notin T
    BY <2>1, <2>2, <2>3
  <2>5. \E f : From(f, k - 1)
    BY <2>4
  <2>6. \E f : From(f, (k - 1) + 1)
    BY <1>2, <2>4, <2>5
  <2>7. (k - 1) + 1 = k
    BY <2>2
  <2> QED BY <2>2, <2>6, <2>7
<1>4. \E f : From(f, to)
  BY <1>0, <1>3
<1>5. PICK f : From(f, to)
  BY <1>4
<1>6. f = [c \in Nat |-> Seek(f, c, to)]
  <2>1. \A c \in Nat : f[c] = Seek(f, c, to)
    BY <1>0, <1>5
  <2>2. f = [c \in Nat |-> f[c]]
    BY <1>5
  <2> HIDE DEF From
  <2> QED BY <2>1, <2>2
<1> QED BY <1>6 DEF Seen

LEMMA BatchWalks ==
    ASSUME log \in [Offsets -> Cachelines], NEW to \in 0 .. Space, NEW c \in Nat
    PROVE  /\ c = to => Batch(c, to) = << >>
           /\ c < to /\ log[c].kind = "zeroed" => Batch(c, to) = Batch(c + 1, to)
           /\ c < to /\ log[c].kind = "first" =>
                 IF log[c].dirty THEN Batch(c, to) = Batch(c + log[c].len, to)
                 ELSE c + log[c].len <= to /\ Intact(c) =>
                        Batch(c, to) = << log[c].elem >> \o Batch(c + log[c].len, to)
<1>1. \A d : Batch(d, to) = Seen(to)[d]
  BY DEF Batch, Seen
<1>2. Batch(c, to) = Seek(Seen(to), c, to)
  BY <1>1, SeenExists
<1>3. c = to => Batch(c, to) = << >>
  BY <1>2, Constants DEF Seek
<1>4. c < to /\ log[c].kind = "zeroed" => Batch(c, to) = Batch(c + 1, to)
  <2> SUFFICES ASSUME c < to, log[c].kind = "zeroed" PROVE Batch(c, to) = Batch(c + 1, to)
    OBVIOUS
  <2>1. Seek(Seen(to), c, to) = Seen(to)[c + 1]
    BY Constants DEF Seek
  <2> QED BY <1>1, <1>2, <2>1
<1>5. ASSUME c < to, log[c].kind = "first"
      PROVE  IF log[c].dirty THEN Batch(c, to) = Batch(c + log[c].len, to)
             ELSE c + log[c].len <= to /\ Intact(c) =>
                    Batch(c, to) = << log[c].elem >> \o Batch(c + log[c].len, to)
  <2>1. Seek(Seen(to), c, to) =
          IF log[c].dirty THEN Seen(to)[c + log[c].len]
          ELSE << IF c + log[c].len <= to /\ Intact(c) THEN log[c].elem ELSE Junk >>
               \o Seen(to)[c + log[c].len]
    BY <1>5, Constants DEF Seek
  <2> QED BY <1>1, <1>2, <2>1
<1> QED BY <1>3, <1>4, <1>5

LEMMA PrependProperties ==
    ASSUME NEW S, NEW e \in S, NEW t \in Seq(S)
    PROVE  /\ << e >> \o t \in Seq(S)
           /\ Len(t) \in Nat /\ Len(<< e >> \o t) = Len(t) + 1
           /\ (<< e >> \o t)[1] = e
           /\ \A i \in 1 .. Len(t) : (<< e >> \o t)[i + 1] = t[i]
           /\ \A i \in 2 .. Len(t) + 1 : (<< e >> \o t)[i] = t[i - 1]
<1>1. << e >> \in Seq(S) /\ Len(<< e >>) = 1 /\ << e >>[1] = e
  OBVIOUS
<1>2. /\ << e >> \o t \in Seq(S)
      /\ Len(<< e >> \o t) = 1 + Len(t)
      /\ \A i \in 1 .. 1 + Len(t) : (<< e >> \o t)[i] =
            IF i <= 1 THEN << e >>[i] ELSE t[i - 1]
  BY <1>1, ConcatProperties
<1>3. Len(t) \in Nat
  BY LenProperties
<1>4. (<< e >> \o t)[1] = e
  BY <1>1, <1>2, <1>3
<1>5. \A i \in 2 .. Len(t) + 1 : (<< e >> \o t)[i] = t[i - 1]
  BY <1>2, <1>3
<1>6. ASSUME NEW i \in 1 .. Len(t)
      PROVE  (<< e >> \o t)[i + 1] = t[i]
  <2>1. i + 1 \in 2 .. Len(t) + 1 /\ (i + 1) - 1 = i
    BY <1>3
  <2> QED BY <1>5, <2>1
<1> QED BY <1>2, <1>3, <1>4, <1>5, <1>6

(***************************************************************************)
(* What the sequence s, read from the cachelines c .. to - 1, must be: the *)
(* clean elements that begin there, in order.                              *)
(***************************************************************************)
AllBetween(s, c, to) ==
    /\ s \in Seq(Elements)
    /\ \A i \in 1 .. Len(s) :
          \E d \in Firsts : c <= d /\ d < to /\ ~log[d].dirty /\ s[i] = log[d].elem
    /\ \A d \in Firsts : c <= d /\ d < to /\ ~log[d].dirty =>
          \E i \in 1 .. Len(s) : s[i] = log[d].elem
    /\ \A i, j \in 1 .. Len(s) : i < j => s[i] < s[j]

NotWithin(c) == \A d \in Firsts : ~(d < c /\ c < d + log[d].len)

LEMMA BatchIsAllBetween ==
    ASSUME log \in [Offsets -> Cachelines], LinesInv,
           NEW from \in 0 .. Space, NEW to \in 0 .. Space, from <= to, NotWithin(from),
           \A d \in Firsts : from <= d /\ d < to => d + log[d].len <= to,
           \A c, d \in Firsts :
              from <= c /\ c < d /\ d < to => log[c].elem < log[d].elem
    PROVE  AllBetween(Batch(from, to), from, to)
<1>0. to \in Nat /\ from \in Nat /\ Firsts \subseteq Nat
  BY Constants DEF Firsts
<1> DEFINE Good(c) == NotWithin(c) => AllBetween(Batch(c, to), c, to)
           T == {k \in Nat : k <= to - from /\ ~Good(to - k)}
<1>1. Good(to)
  <2>1. Batch(to, to) = << >>
    BY <1>0, BatchWalks
  <2>2. << >> \in Seq(Elements) /\ Len(<< >>) = 0
    BY EmptySeq
  <2>3. \A d \in Firsts : ~(to <= d /\ d < to)
    BY <1>0
  <2> QED BY <2>1, <2>2, <2>3 DEF AllBetween
<1>2. ASSUME NEW c \in Nat, from <= c, c < to, \A d \in Nat : c < d /\ d <= to => Good(d)
      PROVE  Good(c)
  <2> SUFFICES ASSUME NotWithin(c) PROVE AllBetween(Batch(c, to), c, to)
    OBVIOUS
  <2>1. c \in Offsets
    BY <1>2, Constants
  <2>2. log[c] \in Cachelines
    BY <2>1
  <2>3. log[c].kind # "rest"
    BY <2>1 DEF LinesInv, NotWithin
  <2>4. CASE log[c].kind = "zeroed"
    <3>1. c \notin Firsts
      BY <2>4 DEF Firsts
    <3>2. NotWithin(c + 1)
      <4> SUFFICES ASSUME NEW d \in Firsts, d < c + 1, c + 1 < d + log[d].len PROVE FALSE
        BY DEF NotWithin
      <4>1. d \in Nat /\ d # c
        BY <1>0, <3>1
      <4>2. log[d].len \in 1 .. Space
        BY LineKinds DEF Firsts
      <4>3. d < c /\ c < d + log[d].len
        BY <4>1, <4>2, Constants
      <4> QED BY <4>3 DEF NotWithin
    <3>3. AllBetween(Batch(c + 1, to), c + 1, to)
      BY <1>0, <1>2, <3>2
    <3>4. Batch(c, to) = Batch(c + 1, to)
      BY <1>2, <2>4, BatchWalks
    <3>5. \A d \in Firsts : c <= d <=> c + 1 <= d
      BY <1>0, <3>1
    <3> QED BY <3>3, <3>4, <3>5 DEF AllBetween
  <2>5. CASE log[c].kind = "first"
    <3> DEFINE n == log[c].len
               e == log[c].elem
               t == Batch(c + n, to)
    <3>1. c \in Firsts
      BY <2>1, <2>5 DEF Firsts
    <3>2. n \in 1 .. Space /\ e \in Elements /\ log[c].dirty \in BOOLEAN
      BY <2>2, <2>5, LineKinds
    <3>3. c + n <= to
      BY <1>2, <3>1
    <3>4. \A d \in Firsts : ~(c < d /\ d < c + n)
      <4> SUFFICES ASSUME NEW d \in Firsts, c < d, d < c + n PROVE FALSE
        OBVIOUS
      <4>1. d \in c + 1 .. c + n - 1
        BY <1>0, <3>2
      <4>2. log[d] = Rest(e) \/ log[d] = Zeroed
        BY <3>1, <4>1 DEF LinesInv
      <4>3. log[d].kind # "first"
        BY <4>2 DEF Rest, Zeroed
      <4> QED BY <4>3 DEF Firsts
    <3>5. NotWithin(c + n)
      <4> SUFFICES ASSUME NEW d \in Firsts, d < c + n, c + n < d + log[d].len PROVE FALSE
        BY DEF NotWithin
      <4>1. d \in Nat /\ log[d].len \in 1 .. Space
        BY <1>0, LineKinds DEF Firsts
      <4>2. d <= c
        BY <3>4, <4>1, <3>2
      <4>3. d # c
        BY <3>2
      <4>4. d < c /\ c < d + log[d].len
        BY <4>1, <4>2, <4>3, <3>2
      <4> QED BY <4>4 DEF NotWithin
    <3>6. AllBetween(t, c + n, to)
      <4>1. c + n \in Nat /\ c < c + n
        BY <3>2
      <4> QED BY <1>2, <3>3, <3>5, <4>1
    <3>7. \A d \in Firsts : c <= d <=> d = c \/ c + n <= d
      <4> SUFFICES ASSUME NEW d \in Firsts PROVE c <= d <=> d = c \/ c + n <= d
        OBVIOUS
      <4>1. d \in Nat /\ ~(c < d /\ d < c + n)
        BY <1>0, <3>4
      <4> QED BY <4>1, <3>2
    <3>8. CASE log[c].dirty
      <4>1. Batch(c, to) = t
        BY <1>2, <2>5, <3>8, BatchWalks
      <4>2. \A d \in Firsts : ~log[d].dirty => (c <= d <=> c + n <= d)
        BY <3>7, <3>8
      <4> HIDE DEF t, n
      <4> QED BY <3>6, <4>1, <4>2 DEF AllBetween
    <3>9. CASE ~log[c].dirty
      <4> DEFINE s == << e >> \o t
      <4>1. Intact(c)
        BY <3>1, <3>9 DEF LinesInv, Intact
      <4>2. Batch(c, to) = s
        BY <1>2, <2>5, <3>3, <3>9, <4>1, BatchWalks
      <4>3. t \in Seq(Elements)
        BY <3>6 DEF AllBetween
      <4> HIDE DEF t, e
      <4>4. /\ s \in Seq(Elements) /\ Len(t) \in Nat /\ Len(s) = Len(t) + 1 /\ s[1] = e
            /\ \A i \in 1 .. Len(t) : s[i + 1] = t[i]
            /\ \A i \in 2 .. Len(t) + 1 : s[i] = t[i - 1]
        BY <3>2, <4>3, PrependProperties
      <4> HIDE DEF s
      <4> USE DEF e
      <4>5. ASSUME NEW i \in 1 .. Len(t)
            PROVE  /\ e < t[i]
                   /\ \E d \in Firsts : c <= d /\ d < to /\ ~log[d].dirty /\ t[i] = log[d].elem
        <5>1. PICK d \in Firsts : c + n <= d /\ d < to /\ ~log[d].dirty /\ t[i] = log[d].elem
          BY <3>6 DEF AllBetween
        <5>2. c < d /\ c <= d
          BY <5>1, <3>2, <1>0
        <5>3. log[c].elem < log[d].elem
          BY <1>2, <3>1, <5>1, <5>2
        <5> QED BY <5>1, <5>2, <5>3
      <4>6. ASSUME NEW i \in 1 .. Len(s)
            PROVE  \E d \in Firsts : c <= d /\ d < to /\ ~log[d].dirty /\ s[i] = log[d].elem
        <5>1. CASE i = 1
          BY <1>2, <3>1, <3>9, <4>4, <5>1
        <5>2. CASE i # 1
          <6>1. i - 1 \in 1 .. Len(t) /\ s[i] = t[i - 1]
            BY <4>4, <5>2
          <6> QED BY <4>5, <6>1
        <5> QED BY <5>1, <5>2
      <4>7. ASSUME NEW d \in Firsts, c <= d, d < to, ~log[d].dirty
            PROVE  \E i \in 1 .. Len(s) : s[i] = log[d].elem
        <5>1. CASE d = c
          <6>1. 1 \in 1 .. Len(s)
            BY <4>4
          <6> QED BY <4>4, <5>1, <6>1
        <5>2. CASE c + n <= d
          <6>1. PICK i \in 1 .. Len(t) : t[i] = log[d].elem
            BY <3>6, <4>7, <5>2 DEF AllBetween
          <6>2. i + 1 \in 1 .. Len(s) /\ s[i + 1] = t[i]
            BY <4>4
          <6> QED BY <6>1, <6>2
        <5> QED BY <3>7, <4>7, <5>1, <5>2
      <4>8. ASSUME NEW i \in 1 .. Len(s), NEW j \in 1 .. Len(s), i < j
            PROVE  s[i] < s[j]
        <5>1. j - 1 \in 1 .. Len(t) /\ s[j] = t[j - 1]
          BY <4>4, <4>8
        <5>2. CASE i = 1
          BY <4>4, <4>5, <5>1, <5>2
        <5>3. CASE i # 1
          <6>1. i - 1 \in 1 .. Len(t) /\ s[i] = t[i - 1] /\ i - 1 < j - 1
            BY <4>4, <4>8, <5>3
          <6>2. t[i - 1] < t[j - 1]
            BY <3>6, <5>1, <6>1 DEF AllBetween
          <6> QED BY <5>1, <6>1, <6>2
        <5> QED BY <5>2, <5>3
      <4>9. AllBetween(s, c, to)
        BY <4>4, <4>6, <4>7, <4>8 DEF AllBetween
      <4> QED BY <4>2, <4>9
    <3> QED BY <3>2, <3>8, <3>9
  <2> QED BY <2>2, <2>3, <2>4, <2>5, LineKinds
<1>3. T = {}
  <2> SUFFICES ASSUME T # {} PROVE FALSE
    OBVIOUS
  <2>1. PICK k \in T : \A j \in T : k <= j
    BY Least
  <2>2. k \in Nat /\ k <= to - from /\ ~Good(to - k)
    OBVIOUS
  <2> HIDE DEF Good
  <2>3. to - k \in Nat /\ from <= to - k /\ to - k <= to /\ (to - k = to => Good(to - k))
    BY <1>0, <1>1, <2>2
  <2>4. to - k < to
    BY <1>0, <2>2, <2>3
  <2>5. ASSUME NEW d \in Nat, to - k < d, d <= to PROVE Good(d)
    <3>1. to - d \in Nat /\ to - d < k /\ to - d <= to - from /\ to - (to - d) = d
      BY <1>0, <2>2, <2>3, <2>5
    <3>2. to - d \notin T
      <4> HIDE DEF T
      <4> QED BY <2>1, <2>2, <3>1
    <3>3. Good(to - (to - d))
      BY <3>1, <3>2
    <3> HIDE DEF T
    <3> QED BY <3>1, <3>3
  <2>6. Good(to - k)
    BY <1>2, <2>3, <2>4, <2>5
  <2> QED BY <2>2, <2>6
<1>4. Good(from)
  <2>1. to - from \in Nat /\ to - (to - from) = from /\ to - from \notin T
    <3> HIDE DEF T
    <3> QED BY <1>0, <1>3
  <2> HIDE DEF Good
  <2>2. Good(to - (to - from))
    BY <1>0, <2>1
  <2> QED BY <2>1, <2>2
<1> QED BY <1>4

-----------------------------------------------------------------------------
(***************************************************************************)
(* Facts every step uses.                                                  *)
(***************************************************************************)
LEMMA TypeFacts ==
    ASSUME Types
    PROVE  /\ \A c \in Offsets : log[c] \in Cachelines
           /\ \A c \in Firsts :
                 /\ c \in Offsets /\ c \in 0 .. Space - 1 /\ log[c].len \in 1 .. Space
                 /\ log[c].elem \in Elements /\ log[c].dirty \in BOOLEAN
                 /\ Stored(c) \in Blocks
           /\ \A w \in Workers :
                 /\ prod[w].pc \in PCs /\ prod[w].off \in Offsets /\ prod[w].off \in 0 .. Space - 1
                 /\ prod[w].len \in ElementLengths \cup {0} /\ prod[w].len \in 0 .. Space
           /\ \A w \in Active :
                 /\ w \in Workers /\ prod[w].len \in ElementLengths /\ prod[w].len \in 1 .. Space
                 /\ prod[w].elem \in Elements
                 /\ Claimed(w) \in Blocks
           /\ Blocks \subseteq BlockSet
           /\ TheRing \in Rings
<1>1. \A c \in Offsets : log[c] \in Cachelines
  BY DEF Types
<1>2. ASSUME NEW c \in Firsts
      PROVE  /\ c \in Offsets /\ c \in 0 .. Space - 1 /\ log[c].len \in 1 .. Space
             /\ log[c].elem \in Elements /\ log[c].dirty \in BOOLEAN
             /\ Stored(c) \in Blocks /\ Stored(c) \in BlockSet
  <2>1. c \in Offsets /\ log[c].kind = "first"
    BY DEF Firsts
  <2>2. /\ log[c].len \in 1 .. Space /\ log[c].elem \in Elements /\ log[c].dirty \in BOOLEAN
    BY <1>1, <2>1, LineKinds
  <2>3. Stored(c) \in Blocks
    BY DEF Blocks
  <2>4. Stored(c) \in BlockSet
    BY <2>1, <2>2, Constants DEF Stored, BlockSet
  <2> QED BY <2>1, <2>2, <2>3, <2>4, Constants
<1>3. ASSUME NEW w \in Workers
      PROVE  /\ prod[w].pc \in PCs /\ prod[w].off \in Offsets /\ prod[w].off \in 0 .. Space - 1
             /\ prod[w].len \in ElementLengths \cup {0} /\ prod[w].len \in 0 .. Space
             /\ prod[w].elem \in Elements \cup {Junk}
  <2>1. prod[w] \in [pc : PCs, off : Offsets, len : ElementLengths \cup {0},
                     elem : Elements \cup {Junk}]
    BY DEF Types
  <2>2. /\ prod[w].pc \in PCs /\ prod[w].off \in Offsets
        /\ prod[w].len \in ElementLengths \cup {0} /\ prod[w].elem \in Elements \cup {Junk}
    BY <2>1
  <2>3. prod[w].len \in 1 .. Space \/ prod[w].len = 0
    BY <2>2, Constants
  <2>4. prod[w].len \in 0 .. Space /\ prod[w].off \in 0 .. Space - 1
    BY <2>2, <2>3, Constants
  <2> QED BY <2>2, <2>4
<1>4. ASSUME NEW w \in Active
      PROVE  /\ w \in Workers /\ prod[w].len \in ElementLengths /\ prod[w].len \in 1 .. Space
             /\ prod[w].elem \in Elements
             /\ Claimed(w) \in Blocks /\ Claimed(w) \in BlockSet
  <2>1. w \in Workers
    BY DEF Active
  <2>2. prod[w].len # 0 /\ prod[w].elem # Junk
    BY DEF Types
  <2>3. prod[w].len \in ElementLengths /\ prod[w].elem \in Elements
    BY <1>3, <2>1, <2>2
  <2>4. Claimed(w) \in Blocks
    BY DEF Blocks
  <2>5. Claimed(w) \in BlockSet
    BY <1>3, <2>1, <2>3, Constants DEF Claimed, BlockSet
  <2> QED BY <2>1, <2>3, <2>4, <2>5, Constants
<1>5. Blocks \subseteq BlockSet
  BY <1>2, <1>4 DEF Blocks
<1>6. TheRing \in Rings
  BY RestoreOffsets DEF Types, TheRing
<1> QED BY <1>1, <1>2, <1>3, <1>4, <1>5, <1>6

(***************************************************************************)
(* Blocks end in the log, and two of them have no cacheline in common.     *)
(***************************************************************************)
LEMMA BlocksApart ==
    ASSUME Types, BlocksInv
    PROVE  /\ \A c \in Firsts : c + log[c].len <= Space
           /\ \A w \in Active : prod[w].off + prod[w].len <= Space
           /\ \A c \in Firsts, w \in Active :
                 \/ c + log[c].len <= prod[w].off
                 \/ prod[w].off + prod[w].len <= c
                 \/ c = prod[w].off /\ log[c].len = prod[w].len /\ log[c].elem = prod[w].elem
           /\ \A v, w \in Active :
                 \/ v = w
                 \/ prod[v].off + prod[v].len <= prod[w].off
                 \/ prod[w].off + prod[w].len <= prod[v].off
<1>1. ASSUME NEW b \in Blocks PROVE EndOf(b) <= Space
  <2>1. Inside(TheRing, b) /\ CutFits(TheRing)
    BY DEF BlocksInv, Fits
  <2>2. Upper(TheRing) \in 0 .. Space /\ Lower(TheRing) \in 0 .. Space - 1
    BY <2>1, TypeFacts, RingBounds
  <2>3. EndOf(b) \in Nat
    BY TypeFacts, BlockBounds
  <2> QED BY <2>1, <2>2, <2>3, Constants DEF Inside
<1>2. \A b, d \in Blocks : b # d => Apart(b, d)
  BY DEF BlocksInv, Fits
<1>3. \A c \in Firsts : c + log[c].len <= Space
  BY <1>1, TypeFacts DEF Stored, EndOf
<1>4. \A w \in Active : prod[w].off + prod[w].len <= Space
  BY <1>1, TypeFacts DEF Claimed, EndOf
<1>5. ASSUME NEW c \in Firsts, NEW w \in Active
      PROVE  \/ c + log[c].len <= prod[w].off
             \/ prod[w].off + prod[w].len <= c
             \/ c = prod[w].off /\ log[c].len = prod[w].len /\ log[c].elem = prod[w].elem
  <2>1. Stored(c) = Claimed(w) \/ Apart(Stored(c), Claimed(w))
    BY <1>2, TypeFacts
  <2>2. CASE Stored(c) = Claimed(w)
    BY <2>2 DEF Stored, Claimed
  <2>3. CASE Apart(Stored(c), Claimed(w))
    BY <2>3 DEF Stored, Claimed, Apart, EndOf
  <2> QED BY <2>1, <2>2, <2>3
<1>6. ASSUME NEW v \in Active, NEW w \in Active, v # w
      PROVE  \/ prod[v].off + prod[v].len <= prod[w].off
             \/ prod[w].off + prod[w].len <= prod[v].off
  <2>1. prod[v].elem # prod[w].elem
    BY <1>6 DEF BlocksInv
  <2>2. Claimed(v) # Claimed(w)
    BY <2>1 DEF Claimed
  <2>3. Apart(Claimed(v), Claimed(w))
    BY <1>2, <2>2, TypeFacts
  <2> QED BY <2>3 DEF Claimed, Apart, EndOf
<1> QED BY <1>3, <1>4, <1>5, <1>6

(***************************************************************************)
(* Steps that leave the ring buffer and the history alone.                 *)
(***************************************************************************)
LEMMA QuietFrame ==
    ASSUME IInv, UNCHANGED <<pmem_written, up, ring, acquired, consumed>>,
           Blocks' \subseteq Blocks, Active' \subseteq Active,
           \A v \in Active' : prod'[v].elem = prod[v].elem
    PROVE  BlocksInv' /\ OrderInv'
<1>1. TheRing' = TheRing
  BY DEF TheRing, RestoredRing
<1>2. Fits(TheRing, Blocks)
  BY DEF IInv, BlocksInv
<1>3. Fits(TheRing', Blocks')
  BY <1>1, <1>2, FewerFit
<1>4. \A v, w \in Active' : v # w => prod'[v].elem # prod'[w].elem
  BY DEF IInv, BlocksInv
<1>5. BlocksInv'
  BY <1>3, <1>4 DEF BlocksInv
<1>6. OrderInv'
  BY DEF IInv, OrderInv, ConsumedInOrder
<1> QED BY <1>5, <1>6

LEMMA ConsumeFrame ==
    ASSUME IInv, UNCHANGED <<pmem_written, up, ring, consumeVars>>,
           Blocks' \subseteq Blocks, Active' \subseteq Active,
           \A v \in Active' : prod'[v].off = prod[v].off /\ prod'[v].len = prod[v].len,
           \A c \in Offsets :
              \/ log'[c] = log[c]
              \/ \E w \in Active : prod[w].off <= c /\ c < prod[w].off + prod[w].len
    PROVE  ConsumeInv'
<1>0. ConsumeInv /\ Types
  BY DEF IInv
<1>1. (call \in {"tx", "release"} => consume_in_progress)'
  BY <1>0 DEF ConsumeInv, consumeVars
<1>2. ASSUME consume_in_progress
      PROVE  /\ consume_offset = ring.written /\ consume_len > 0 /\ ConsumeEnd <= Upper(ring)
             /\ \A b \in Blocks' :
                   \/ EndOf(b) <= consume_offset \/ ConsumeEnd <= b.off
                   \/ consume_offset <= b.off /\ EndOf(b) <= ConsumeEnd
             /\ \A w \in Active' :
                   EndOf(prod'[w]) <= consume_offset \/ ConsumeEnd <= prod'[w].off
  BY <1>0, <1>2 DEF ConsumeInv, EndOf
<1>3. ASSUME call = "release", NEW c \in consume_offset .. ConsumeEnd - 1
      PROVE  log'[c] = Zeroed
  <2>1. consume_in_progress /\ log[c] = Zeroed
    BY <1>0, <1>3 DEF ConsumeInv
  <2>2. consume_offset \in 0 .. Space - 1 /\ consume_len \in 0 .. Space /\ ConsumeEnd <= Upper(ring)
    BY <1>0, <2>1, Constants DEF ConsumeInv, Types
  <2>3. Upper(ring) \in 0 .. Space
    <3>1. up /\ ring \in Rings
      BY <1>0, <2>1 DEF ConsumeInv, Types
    <3>2. CutFits(ring)
      BY <3>1 DEF IInv, BlocksInv, Fits, TheRing
    <3> QED BY <3>1, <3>2, RingBounds
  <2>4. ConsumeEnd = consume_offset + consume_len
    BY DEF ConsumeEnd
  <2>5. c \in Offsets /\ c \in Nat
    BY <2>2, <2>3, <2>4, Constants
  <2>6. ASSUME NEW w \in Active, prod[w].off <= c, c < prod[w].off + prod[w].len PROVE FALSE
    <3>1. EndOf(prod[w]) <= consume_offset \/ ConsumeEnd <= prod[w].off
      BY <1>0, <2>1 DEF ConsumeInv
    <3>2. w \in Workers /\ prod[w].off \in 0 .. Space - 1 /\ prod[w].len \in 1 .. Space
      BY <1>0, TypeFacts
    <3> QED BY <2>2, <2>4, <2>5, <2>6, <3>1, <3>2 DEF EndOf
  <2> QED BY <2>1, <2>5, <2>6
<1>4. call = "release" => pmem_written = Released(consume_offset, consume_len)
  BY <1>0 DEF ConsumeInv
<1>5. ~up => ring = NewRing /\ Active' = {} /\ ~consume_in_progress /\ call = "none"
  BY <1>0 DEF ConsumeInv
<1> QED BY <1>1, <1>2, <1>3, <1>4, <1>5 DEF ConsumeInv, ConsumeEnd, consumeVars

-----------------------------------------------------------------------------
(***************************************************************************)
(* Producers.  What w stores goes to its own block.                        *)
(***************************************************************************)
LEMMA StoreLines ==
    ASSUME IInv, NEW w \in Active, log' \in [Offsets -> Cachelines],
           Active' = Active,
           \A v \in Active : /\ prod'[v].off = prod[v].off /\ prod'[v].len = prod[v].len
                             /\ prod'[v].elem = prod[v].elem,
           \A c \in Offsets :
              c < prod[w].off \/ prod[w].off + prod[w].len <= c => log'[c] = log[c],
           \A i \in prod[w].off + 1 .. prod[w].off + prod[w].len - 1 : log'[i].kind # "first",
           log'[prod[w].off].kind # "rest",
           (\E i \in prod[w].off + 1 .. prod[w].off + prod[w].len - 1 : log'[i].kind = "rest")
              => log'[prod[w].off].kind = "first",
           log'[prod[w].off].kind = "first" =>
              /\ log'[prod[w].off].len = prod[w].len /\ log'[prod[w].off].elem = prod[w].elem
              /\ \A i \in prod[w].off + 1 .. prod[w].off + prod[w].len - 1 :
                    log'[i] = Rest(prod[w].elem) \/ (log'[prod[w].off].dirty /\ log'[i] = Zeroed)
    PROVE  /\ LinesInv' /\ Blocks' \subseteq Blocks
           /\ \A c \in Firsts : c # prod[w].off => c \in Firsts' /\ log'[c] = log[c]
           /\ \A v \in Active : v # w =>
                 \A i \in prod[v].off .. prod[v].off + prod[v].len - 1 : log'[i] = log[i]
<1> DEFINE o == prod[w].off
           n == prod[w].len
<1>0. Types /\ BlocksInv /\ LinesInv
  BY DEF IInv
<1>1. o \in 0 .. Space - 1 /\ n \in 1 .. Space /\ o + n <= Space /\ o \in Offsets
  BY <1>0, TypeFacts, BlocksApart
<1>2. ASSUME NEW c \in Firsts, c # o
      PROVE  /\ c \in 0 .. Space - 1 /\ log[c].len \in 1 .. Space /\ c + log[c].len <= Space
             /\ c + log[c].len <= o \/ o + n <= c
             /\ c \in Firsts' /\ log'[c] = log[c]
  <2>1. c \in Offsets /\ c \in 0 .. Space - 1 /\ log[c].len \in 1 .. Space /\ log[c].kind = "first"
    BY <1>0, TypeFacts DEF Firsts
  <2>2. c + log[c].len <= Space /\ (c + log[c].len <= o \/ o + n <= c)
    BY <1>0, <1>2, BlocksApart
  <2>3. log'[c] = log[c]
    BY <1>1, <2>1, <2>2
  <2> QED BY <2>1, <2>2, <2>3 DEF Firsts
<1>3. ASSUME NEW c \in Firsts', c # o
      PROVE  c \in Firsts
  <2>1. c \in Offsets /\ log'[c].kind = "first"
    BY DEF Firsts
  <2>2. c \notin o + 1 .. o + n - 1
    BY <2>1
  <2>3. c \in 0 .. Space - 1
    BY <2>1, Constants
  <2>4. c < o \/ o + n <= c
    BY <1>1, <1>3, <2>2, <2>3
  <2>5. log'[c] = log[c]
    BY <2>1, <2>4
  <2> QED BY <2>1, <2>5 DEF Firsts
<1>4. ASSUME NEW c \in Firsts', NEW i \in c + 1 .. c + log'[c].len - 1
      PROVE  log'[i] = Rest(log'[c].elem) \/ (log'[c].dirty /\ log'[i] = Zeroed)
  <2>1. CASE c = o
    <3>1. log'[o].kind = "first"
      BY <2>1 DEF Firsts
    <3> QED BY <1>4, <2>1, <3>1
  <2>2. CASE c # o
    <3>1. c \in Firsts
      BY <1>3, <2>2
    <3>2. log'[c] = log[c] /\ (c + log[c].len <= o \/ o + n <= c) /\ c + log[c].len <= Space
          /\ c \in 0 .. Space - 1 /\ log[c].len \in 1 .. Space
      BY <1>2, <2>2, <3>1
    <3>3. i \in Offsets /\ (i < o \/ o + n <= i) /\ i \in c + 1 .. c + log[c].len - 1
      <4>1. i \in c + 1 .. c + log[c].len - 1
        BY <1>4, <3>2
      <4>2. PICK l \in 1 .. Space : l = log[c].len
        BY <3>2
      <4>3. i \in Int /\ c + 1 <= i /\ i <= c + l - 1
        BY <3>2, <4>1, <4>2
      <4> HIDE DEF o, n
      <4>4. i \in 0 .. Space - 1 /\ (i < o \/ o + n <= i)
        BY <1>1, <3>2, <4>2, <4>3, Constants, SMTT(30)
      <4> QED BY <4>1, <4>4, Constants
    <3>4. log'[i] = log[i]
      BY <3>3
    <3> QED BY <1>0, <3>1, <3>2, <3>3, <3>4 DEF LinesInv
  <2> QED BY <2>1, <2>2
<1>5. ASSUME NEW i \in Offsets, log'[i].kind = "rest"
      PROVE  \E c \in Firsts' : c < i /\ i < c + log'[c].len
  <2>0. i \in 0 .. Space - 1 /\ i # o
    BY <1>5, Constants
  <2>1. CASE i \in o + 1 .. o + n - 1
    <3>1. log'[o].kind = "first" /\ log'[o].len = n
      BY <1>5, <2>1
    <3>2. o \in Firsts'
      BY <1>1, <3>1 DEF Firsts
    <3> QED BY <1>1, <2>1, <3>1, <3>2
  <2>2. CASE i < o \/ o + n <= i
    <3>1. log'[i] = log[i]
      BY <2>2
    <3>2. PICK c \in Firsts : c < i /\ i < c + log[c].len
      BY <1>0, <1>5, <3>1 DEF LinesInv
    <3>3. c # o
      <4>1. ASSUME c = o PROVE FALSE
        <5>1. log[o].len = n
          <6>1. log[o].len \in 1 .. Space
            BY <1>0, <4>1, TypeFacts
          <6> QED BY <1>0, <1>1, <4>1, <6>1, BlocksApart
        <5> QED BY <1>1, <2>0, <2>2, <3>2, <4>1, <5>1
      <4> QED BY <4>1
    <3> QED BY <1>2, <3>2, <3>3
  <2> QED BY <1>1, <2>0, <2>1, <2>2
<1>6. LinesInv'
  BY <1>4, <1>5 DEF LinesInv
<1>7. Blocks' \subseteq Blocks
  <2>1. ASSUME NEW c \in Firsts' PROVE Stored(c)' \in Blocks
    <3>1. CASE c = o
      <4>1. log'[o].kind = "first"
        BY <3>1 DEF Firsts
      <4>2. Stored(c)' = Claimed(w)
        BY <3>1, <4>1 DEF Stored, Claimed
      <4> QED BY <1>0, <4>2, TypeFacts
    <3>2. CASE c # o
      <4>1. c \in Firsts /\ log'[c] = log[c]
        BY <1>2, <1>3, <3>2
      <4>2. Stored(c)' = Stored(c)
        BY <4>1 DEF Stored
      <4> QED BY <1>0, <4>1, <4>2, TypeFacts
    <3> QED BY <3>1, <3>2
  <2>2. ASSUME NEW v \in Active' PROVE Claimed(v)' \in Blocks
    <3>1. Claimed(v)' = Claimed(v)
      BY DEF Claimed
    <3> QED BY <1>0, <3>1, TypeFacts
  <2> QED BY <2>1, <2>2 DEF Blocks
<1>8. ASSUME NEW v \in Active, v # w, NEW i \in prod[v].off .. prod[v].off + prod[v].len - 1
      PROVE  log'[i] = log[i]
  <2>1. /\ prod[v].off + prod[v].len <= o \/ o + n <= prod[v].off
        /\ prod[v].off + prod[v].len <= Space
    BY <1>0, <1>8, BlocksApart
  <2>2. v \in Workers /\ prod[v].off \in 0 .. Space - 1 /\ prod[v].len \in 1 .. Space
    BY <1>0, TypeFacts
  <2>3. i \in Offsets /\ (i < o \/ o + n <= i)
    <3>1. i \in Int /\ prod[v].off <= i /\ i < prod[v].off + prod[v].len
      BY <1>8, <2>2
    <3> HIDE DEF o, n
    <3>2. PICK x \in 0 .. Space - 1, y \in 1 .. Space : x = prod[v].off /\ y = prod[v].len
      BY <2>2
    <3>3. x <= i /\ i < x + y /\ x + y <= Space /\ (x + y <= o \/ o + n <= x)
      BY <2>1, <3>1, <3>2
    <3>4. i \in 0 .. Space - 1
      BY <3>1, <3>2, <3>3, Constants
    <3>5. i < o \/ o + n <= i
      BY <1>1, <3>1, <3>2, <3>3, Constants, SMTT(30)
    <3> QED BY <3>4, <3>5, Constants
  <2> QED BY <2>3
<1> QED BY <1>2, <1>6, <1>7, <1>8

(***************************************************************************)
(* A step of w from one of its places in try_produce to the next.          *)
(***************************************************************************)
LEMMA StepChanges ==
    ASSUME IInv, NEW w \in Workers, NEW from \in PCs \ {"idle"}, NEW to \in PCs \ {"idle"},
           Step(w, from, to)
    PROVE  /\ w \in Active /\ prod[w].pc = from /\ prod'[w].pc = to /\ Active' = Active
           /\ prod'[w].off = prod[w].off /\ prod'[w].len = prod[w].len
           /\ prod'[w].elem = prod[w].elem
           /\ \A v \in Workers : v # w => prod'[v] = prod[v]
           /\ log' \in [Offsets -> Cachelines] => Types'
           /\ UNCHANGED <<pmem_written, up, ring, seen_off, acquired, completed, consumed>>
           /\ UNCHANGED consumeVars
<1>0. Types
  BY DEF IInv
<1>1. /\ prod[w].pc = from /\ prod' = [prod EXCEPT ![w].pc = to]
      /\ UNCHANGED <<pmem_written, up, ring, seen_off, acquired, completed, consumed>>
      /\ UNCHANGED consumeVars
  BY DEF Step, historyVars
<1> DEFINE P == [pc : PCs, off : Offsets, len : ElementLengths \cup {0}, elem : Elements \cup {Junk}]
<1>2. prod \in [Workers -> P]
  BY <1>0 DEF Types
<1>3. prod' \in [Workers -> P]
  <2>1. prod[w] \in P
    BY <1>2
  <2>2. [prod[w] EXCEPT !.pc = to] \in P
    BY <2>1
  <2> HIDE DEF P
  <2> QED BY <1>1, <1>2, <2>2
<1> HIDE DEF P
<1>4. \A v \in Workers : v # w => prod'[v] = prod[v]
  BY <1>1, <1>2
<1>5. prod'[w] = [prod[w] EXCEPT !.pc = to]
  BY <1>1, <1>2
<1>6. /\ prod'[w].pc = to /\ prod'[w].off = prod[w].off /\ prod'[w].len = prod[w].len
      /\ prod'[w].elem = prod[w].elem
  BY <1>2, <1>5 DEF P
<1>7. w \in Active /\ Active' = Active
  BY <1>1, <1>4, <1>6 DEF Active
<1>8. \A v \in Active' : prod'[v].len # 0 /\ prod'[v].elem # Junk
  <2> SUFFICES ASSUME NEW v \in Active PROVE prod'[v].len # 0 /\ prod'[v].elem # Junk
    BY <1>7
  <2>1. v \in Workers /\ prod[v].len # 0 /\ prod[v].elem # Junk
    BY <1>0 DEF Types, Active
  <2> QED BY <1>4, <1>6, <2>1
<1>9. log' \in [Offsets -> Cachelines] => Types'
  BY <1>0, <1>1, <1>3, <1>8 DEF Types, consumeVars, P
<1> QED BY <1>1, <1>4, <1>6, <1>7, <1>9

LEMMA StoreFrame ==
    ASSUME IInv, NEW w \in Workers, NEW from \in PCs \ {"idle"}, NEW to \in PCs \ {"idle"},
           Step(w, from, to), log' \in [Offsets -> Cachelines], LinesInv', Blocks' \subseteq Blocks,
           \A c \in Offsets :
              c < prod[w].off \/ prod[w].off + prod[w].len <= c => log'[c] = log[c],
           \A v \in Active : v # w =>
              \A i \in prod[v].off .. prod[v].off + prod[v].len - 1 : log'[i] = log[i],
           StoresInv(w)', CompletedInv'
    PROVE  IInv'
<1>0. /\ w \in Active /\ Active' = Active /\ Types'
      /\ prod'[w].off = prod[w].off /\ prod'[w].len = prod[w].len /\ prod'[w].elem = prod[w].elem
      /\ \A v \in Workers : v # w => prod'[v] = prod[v]
      /\ UNCHANGED <<pmem_written, up, ring, seen_off, acquired, completed, consumed>>
      /\ UNCHANGED consumeVars
  BY StepChanges
<1>1. \A v \in Active : v \in Workers
  BY DEF Active
<1>2. \A v \in Active' : prod'[v].off = prod[v].off /\ prod'[v].len = prod[v].len
                         /\ prod'[v].elem = prod[v].elem
  BY <1>0, <1>1
<1>3. BlocksInv' /\ OrderInv'
  BY <1>0, <1>2, QuietFrame
<1>4. ASSUME NEW c \in Offsets, log'[c] # log[c]
      PROVE  \E v \in Active : prod[v].off <= c /\ c < prod[v].off + prod[v].len
  <2>1. prod[w].off \in 0 .. Space - 1 /\ prod[w].len \in 0 .. Space /\ c \in 0 .. Space - 1
    BY TypeFacts, Constants DEF IInv
  <2>2. ~(c < prod[w].off) /\ ~(prod[w].off + prod[w].len <= c)
    BY <1>4
  <2> QED BY <1>0, <2>1, <2>2
<1>5. ConsumeInv'
  BY <1>0, <1>2, <1>4, ConsumeFrame
<1>6. ASSUME NEW v \in Workers
      PROVE  StoresInv(v)' /\ SeenInv(v)'
  <2>1. StoresInv(v) /\ SeenInv(v)
    BY DEF IInv
  <2>2. StoresInv(v)'
    <3>1. CASE v = w
      BY <3>1
    <3>2. CASE v # w /\ v \in Active
      <4>1. prod'[v] = prod[v]
        BY <1>0, <3>2
      <4>2. prod[v].off \in 0 .. Space - 1 /\ prod[v].len \in 1 .. Space
        BY <3>2, TypeFacts DEF IInv
      <4>3. \A i \in prod[v].off .. prod[v].off + prod[v].len - 1 : log'[i] = log[i]
        BY <3>2
      <4>4. log'[prod[v].off] = log[prod[v].off]
        BY <4>2, <4>3
      <4>5. \A i \in prod[v].off + 1 .. prod[v].off + prod[v].len - 1 : log'[i] = log[i]
        BY <4>2, <4>3
      <4> QED BY <1>0, <2>1, <4>1, <4>4, <4>5 DEF StoresInv, FirstBlock
    <3>3. CASE v \notin Active
      <4>1. v # w /\ prod[v].pc = "idle"
        BY <1>0, <3>3 DEF Active
      <4>2. prod'[v].pc = "idle"
        BY <1>0, <4>1
      <4> QED BY <4>2 DEF StoresInv, Active
    <3> QED BY <3>1, <3>2, <3>3
  <2>3. SeenInv(v)'
    <3>1. prod'[v].off = prod[v].off
      BY <1>0
    <3> QED BY <1>0, <2>1, <3>1 DEF SeenInv
  <2> QED BY <2>2, <2>3
<1> QED BY <1>0, <1>3, <1>5, <1>6 DEF IInv

LEMMA CleanKept ==
    ASSUME IInv, UNCHANGED <<completed, consumed>>,
           \A c \in Firsts : ~log[c].dirty => c \in Firsts' /\ log'[c] = log[c]
    PROVE  CompletedInv'
<1> SUFFICES ASSUME EmptyElements = {}, NEW e \in completed \ ToSet(consumed)
             PROVE  \E c \in Firsts' : log'[c].elem = e /\ ~log'[c].dirty
  BY DEF CompletedInv
<1>1. PICK c \in Firsts : log[c].elem = e /\ ~log[c].dirty
  BY DEF IInv, CompletedInv
<1> QED BY <1>1

LEMMA DistinctPlaces ==
    /\ {"acquired", "first", "rest", "drained", "stored", "threw"} = PCs \ {"idle"}
    /\ "acquired" \in PCs \ {"idle"} /\ "first" \in PCs \ {"idle"} /\ "rest" \in PCs \ {"idle"}
    /\ "drained" \in PCs \ {"idle"} /\ "stored" \in PCs \ {"idle"} /\ "threw" \in PCs \ {"idle"}
  BY DEF PCs

LEMMA NewLines ==
    ASSUME NEW a \in Elements, NEW l \in ElementLengths
    PROVE  /\ First(a, l, TRUE) \in Cachelines /\ First(a, l, TRUE).kind = "first"
           /\ First(a, l, TRUE).len = l /\ First(a, l, TRUE).elem = a
           /\ First(a, l, TRUE).dirty = TRUE
           /\ First(a, l, FALSE) \in Cachelines /\ First(a, l, FALSE).kind = "first"
           /\ First(a, l, FALSE).len = l /\ First(a, l, FALSE).elem = a
           /\ First(a, l, FALSE).dirty = FALSE
           /\ Rest(a) \in Cachelines /\ Rest(a).kind = "rest"
           /\ Zeroed \in Cachelines /\ Zeroed.kind = "zeroed"
<1>1. \A d \in BOOLEAN : First(a, l, d) \in Cachelines
  BY DEF Cachelines
<1>2. First(a, l, TRUE) \in Cachelines /\ First(a, l, FALSE) \in Cachelines
  BY <1>1, Zenon
<1>3. Rest(a) \in Cachelines /\ Zeroed \in Cachelines
  BY DEF Cachelines
<1>4. /\ First(a, l, TRUE).kind = "first" /\ First(a, l, TRUE).len = l
      /\ First(a, l, TRUE).elem = a /\ First(a, l, TRUE).dirty = TRUE
      /\ First(a, l, FALSE).kind = "first" /\ First(a, l, FALSE).len = l
      /\ First(a, l, FALSE).elem = a /\ First(a, l, FALSE).dirty = FALSE
  BY DEF First
<1>5. Rest(a).kind = "rest" /\ Zeroed.kind = "zeroed"
  BY DEF Rest, Zeroed
<1> QED BY <1>2, <1>3, <1>4, <1>5

LEMMA StoreFirstStep ==
    ASSUME IInv, NEW w \in Workers, store_first(w)
    PROVE  IInv'
<1> DEFINE o == prod[w].off
           n == prod[w].len
           e == prod[w].elem
<1>1. Step(w, "acquired", "first") /\ log' = [log EXCEPT ![o] = FirstBlock(w, TRUE)]
  BY DEF store_first
<1>2. /\ w \in Active /\ prod[w].pc = "acquired" /\ prod'[w].pc = "first" /\ Active' = Active
      /\ prod'[w].off = o /\ prod'[w].len = n /\ prod'[w].elem = e
      /\ \A v \in Workers : v # w => prod'[v] = prod[v]
      /\ UNCHANGED <<completed, consumed>>
  BY <1>1, StepChanges, DistinctPlaces
<1>3. Types /\ StoresInv(w)
  BY DEF IInv
<1>4. /\ o \in Offsets /\ o \in 0 .. Space - 1 /\ n \in 1 .. Space /\ n \in ElementLengths
      /\ e \in Elements /\ o + n <= Space
  BY <1>2, <1>3, TypeFacts, BlocksApart DEF IInv
<1>5. FirstBlock(w, TRUE) = First(e, n, TRUE)
  BY DEF FirstBlock
<1>6. /\ First(e, n, TRUE) \in Cachelines
      /\ First(e, n, TRUE).kind = "first" /\ First(e, n, TRUE).len = n
      /\ First(e, n, TRUE).elem = e /\ First(e, n, TRUE).dirty = TRUE
  <2>1. PICK y \in Elements, l \in ElementLengths : y = e /\ l = n
    BY <1>4
  <2>2. First(y, l, TRUE) \in Cachelines
    BY NewLines
  <2>3. /\ First(y, l, TRUE).kind = "first" /\ First(y, l, TRUE).len = l
        /\ First(y, l, TRUE).elem = y /\ First(y, l, TRUE).dirty = TRUE
    BY DEF First
  <2> HIDE DEF e, n
  <2> QED BY <2>1, <2>2, <2>3
<1>7. /\ log' \in [Offsets -> Cachelines] /\ log'[o] = First(e, n, TRUE)
      /\ \A c \in Offsets : c # o => log'[c] = log[c]
  BY <1>1, <1>3, <1>4, <1>5, <1>6 DEF Types
<1>8. log[o] = Zeroed /\ \A i \in o + 1 .. o + n - 1 : log[i] = Zeroed
  BY <1>2, <1>3 DEF StoresInv
<1>9. \A i \in o + 1 .. o + n - 1 : i \in Offsets /\ i # o
  BY <1>4, Constants
<1>10. \A i \in o + 1 .. o + n - 1 : log'[i] = Zeroed /\ log'[i].kind = "zeroed"
  BY <1>7, <1>8, <1>9 DEF Zeroed
<1>11. \A c \in Offsets : c < o \/ o + n <= c => log'[c] = log[c]
  BY <1>4, <1>7, Constants
<1>12. \A v \in Active : /\ prod'[v].off = prod[v].off /\ prod'[v].len = prod[v].len
                         /\ prod'[v].elem = prod[v].elem
  BY <1>2 DEF Active
<1> HIDE DEF o, n, e
<1>13. /\ LinesInv' /\ Blocks' \subseteq Blocks
       /\ \A c \in Firsts : c # o => c \in Firsts' /\ log'[c] = log[c]
       /\ \A v \in Active : v # w =>
             \A i \in prod[v].off .. prod[v].off + prod[v].len - 1 : log'[i] = log[i]
  <2>1. log'[o].kind = "first" /\ log'[o].len = n /\ log'[o].elem = e /\ log'[o].dirty
    BY <1>6, <1>7
  <2>2. \A i \in o + 1 .. o + n - 1 : log'[i].kind # "first" /\ log'[i].kind # "rest"
    BY <1>10
  <2> QED BY <1>2, <1>7, <1>10, <1>11, <1>12, <2>1, <2>2, StoreLines, ZenonT(60) DEF o, n, e
<1>14. o \notin Firsts
  BY <1>8 DEF Firsts, Zeroed
<1>15. CompletedInv'
  BY <1>2, <1>13, <1>14, CleanKept
<1>16. StoresInv(w)'
  <2>1. FirstBlock(w, TRUE)' = First(e, n, TRUE)
    BY <1>2 DEF FirstBlock
  <2>2. w \in Active' /\ prod'[w].elem \in EmptyElements => prod'[w].len = 1
    BY <1>2, <1>3 DEF StoresInv, n, e
  <2> QED BY <1>2, <1>7, <1>10, <2>1, <2>2 DEF StoresInv
<1> QED BY <1>1, <1>7, <1>11, <1>13, <1>15, <1>16, StoreFrame, DistinctPlaces DEF o, n

LEMMA StoreRestStep ==
    ASSUME IInv, NEW w \in Workers, store_rest(w)
    PROVE  IInv'
<1> DEFINE o == prod[w].off
           n == prod[w].len
           e == prod[w].elem
<1>1. /\ Step(w, "first", "rest")
      /\ log' = [c \in Offsets |-> IF c \in o + 1 .. o + n - 1 THEN Rest(e) ELSE log[c]]
  BY DEF store_rest
<1>2. /\ w \in Active /\ prod[w].pc = "first" /\ prod'[w].pc = "rest" /\ Active' = Active
      /\ prod'[w].off = o /\ prod'[w].len = n /\ prod'[w].elem = e
      /\ \A v \in Workers : v # w => prod'[v] = prod[v]
      /\ UNCHANGED <<completed, consumed>>
  BY <1>1, StepChanges, DistinctPlaces
<1>3. Types /\ StoresInv(w)
  BY DEF IInv
<1>4. /\ o \in Offsets /\ o \in 0 .. Space - 1 /\ n \in 1 .. Space /\ n \in ElementLengths
      /\ e \in Elements /\ o + n <= Space
  BY <1>2, <1>3, TypeFacts, BlocksApart DEF IInv
<1>5. Rest(e) \in Cachelines /\ Rest(e).kind = "rest"
  BY <1>4 DEF Cachelines, Rest
<1>6. log' \in [Offsets -> Cachelines]
  BY <1>1, <1>3, <1>5 DEF Types
<1>7. \A i \in o + 1 .. o + n - 1 : i \in Offsets
  BY <1>4, Constants
<1>8. \A i \in o + 1 .. o + n - 1 : log'[i] = Rest(e) /\ log'[i].kind = "rest"
  BY <1>1, <1>5, <1>7
<1>9. \A c \in Offsets : c \notin o + 1 .. o + n - 1 => log'[c] = log[c]
  BY <1>1
<1>10. log'[o] = First(e, n, TRUE) /\ log[o] = First(e, n, TRUE)
  <2>1. log[o] = First(e, n, TRUE)
    BY <1>2, <1>3 DEF StoresInv, FirstBlock
  <2>2. o \notin o + 1 .. o + n - 1
    BY <1>4
  <2> QED BY <1>4, <1>9, <2>1, <2>2
<1>11. \A c \in Offsets : c < o \/ o + n <= c => log'[c] = log[c]
  <2> SUFFICES ASSUME NEW c \in Offsets, c < o \/ o + n <= c PROVE c \notin o + 1 .. o + n - 1
    BY <1>9
  <2>1. c \in Int
    BY Constants
  <2> HIDE DEF o, n
  <2> QED BY <1>4, <2>1
<1>12. \A v \in Active : /\ prod'[v].off = prod[v].off /\ prod'[v].len = prod[v].len
                         /\ prod'[v].elem = prod[v].elem
  BY <1>2 DEF Active
<1>13. \A i \in o + 1 .. o + n - 1 : log[i] = Zeroed
  BY <1>2, <1>3 DEF StoresInv
<1> HIDE DEF o, n, e
<1>14. log'[o].kind = "first" /\ log'[o].len = n /\ log'[o].elem = e /\ log'[o].dirty
  BY <1>10 DEF First
<1>15. /\ LinesInv' /\ Blocks' \subseteq Blocks
       /\ \A c \in Firsts : c # o => c \in Firsts' /\ log'[c] = log[c]
       /\ \A v \in Active : v # w =>
             \A i \in prod[v].off .. prod[v].off + prod[v].len - 1 : log'[i] = log[i]
  <2>1. \A i \in o + 1 .. o + n - 1 : log'[i].kind # "first"
    BY <1>8
  <2> QED BY <1>2, <1>6, <1>8, <1>11, <1>12, <1>14, <2>1, StoreLines DEF o, n, e
<1>16. CompletedInv'
  <2>1. log[o].dirty
    BY <1>10 DEF First
  <2> QED BY <1>2, <1>15, <2>1, CleanKept
<1>17. StoresInv(w)'
  <2>1. FirstBlock(w, TRUE)' = First(e, n, TRUE)
    BY <1>2 DEF FirstBlock
  <2>2. w \in Active' /\ prod'[w].elem \in EmptyElements => prod'[w].len = 1
    BY <1>2, <1>3 DEF StoresInv, n, e
  <2> QED BY <1>2, <1>8, <1>10, <2>1, <2>2 DEF StoresInv
<1> QED BY <1>1, <1>6, <1>11, <1>15, <1>16, <1>17, StoreFrame, DistinctPlaces DEF o, n

LEMMA StoreCleanStep ==
    ASSUME IInv, NEW w \in Workers, store_clean(w)
    PROVE  IInv'
<1> DEFINE o == prod[w].off
           n == prod[w].len
           e == prod[w].elem
           x == FirstBlock(w, FALSE)
<1>1. Step(w, "drained", "stored") /\ log' = [log EXCEPT ![o] = x]
  BY DEF store_clean
<1>2. /\ w \in Active /\ prod[w].pc = "drained" /\ prod'[w].pc = "stored" /\ Active' = Active
      /\ prod'[w].off = o /\ prod'[w].len = n /\ prod'[w].elem = e
      /\ \A v \in Workers : v # w => prod'[v] = prod[v]
      /\ UNCHANGED <<completed, consumed>>
  BY <1>1, StepChanges, DistinctPlaces
<1>3. Types /\ StoresInv(w)
  BY DEF IInv
<1>4. /\ o \in Offsets /\ o \in 0 .. Space - 1 /\ n \in 1 .. Space /\ n \in ElementLengths
      /\ e \in Elements /\ o + n <= Space
  BY <1>2, <1>3, TypeFacts, BlocksApart DEF IInv
<1>5. /\ x \in Cachelines
      /\ \/ x = Zeroed /\ x.kind = "zeroed" /\ n = 1
         \/ x = First(e, n, FALSE) /\ x.kind = "first" /\ x.len = n /\ x.elem = e
  <2>1. CASE e \in EmptyElements
    <3>1. n = 1
      BY <1>2, <1>3, <2>1 DEF StoresInv
    <3>2. x = Zeroed
      BY <2>1 DEF FirstBlock
    <3>3. Zeroed \in Cachelines /\ Zeroed.kind = "zeroed"
      BY <1>4, NewLines
    <3> HIDE DEF x
    <3> QED BY <3>1, <3>2, <3>3
  <2>2. CASE e \notin EmptyElements
    <3>1. x = First(e, n, FALSE)
      BY <2>2 DEF FirstBlock
    <3>2. /\ First(e, n, FALSE) \in Cachelines /\ First(e, n, FALSE).kind = "first"
          /\ First(e, n, FALSE).len = n /\ First(e, n, FALSE).elem = e
      <4>1. PICK y \in Elements, l \in ElementLengths : y = e /\ l = n
        BY <1>4
      <4>2. First(y, l, FALSE) \in Cachelines
        BY NewLines
      <4>3. /\ First(y, l, FALSE).kind = "first" /\ First(y, l, FALSE).len = l
            /\ First(y, l, FALSE).elem = y
        BY DEF First
      <4> HIDE DEF e, n, x
      <4> QED BY <4>1, <4>2, <4>3
    <3> HIDE DEF x
    <3> QED BY <3>1, <3>2
  <2> QED BY <2>1, <2>2
<1>6. x' = x
  BY <1>2 DEF FirstBlock
<1> HIDE DEF x
<1>7. /\ log' \in [Offsets -> Cachelines] /\ log'[o] = x
      /\ \A c \in Offsets : c # o => log'[c] = log[c]
  BY <1>1, <1>3, <1>4, <1>5 DEF Types
<1>8. \A i \in o + 1 .. o + n - 1 : i \in Offsets /\ i # o
  BY <1>4, Constants
<1>9. \A i \in o + 1 .. o + n - 1 : log'[i] = Rest(e)
  BY <1>2, <1>3, <1>7, <1>8 DEF StoresInv
<1>10. \A c \in Offsets : c < o \/ o + n <= c => log'[c] = log[c]
  BY <1>4, <1>7, Constants
<1>11. \A v \in Active : /\ prod'[v].off = prod[v].off /\ prod'[v].len = prod[v].len
                         /\ prod'[v].elem = prod[v].elem
  BY <1>2 DEF Active
<1>12. log[o] = First(e, n, TRUE)
  BY <1>2, <1>3 DEF StoresInv, FirstBlock
<1> HIDE DEF o, n, e
<1>13. /\ LinesInv' /\ Blocks' \subseteq Blocks
       /\ \A c \in Firsts : c # o => c \in Firsts' /\ log'[c] = log[c]
       /\ \A v \in Active : v # w =>
             \A i \in prod[v].off .. prod[v].off + prod[v].len - 1 : log'[i] = log[i]
  <2>1. \A i \in o + 1 .. o + n - 1 : log'[i].kind # "first"
    BY <1>9 DEF Rest
  <2>2. (\E i \in o + 1 .. o + n - 1 : log'[i].kind = "rest") => log'[o].kind = "first"
    <3>1. CASE n = 1
      <4>1. o + 1 .. o + n - 1 = {}
        BY <1>4, <3>1
      <4> QED BY <4>1
    <3>2. CASE n # 1
      BY <1>5, <1>7, <3>2
    <3> QED BY <3>1, <3>2
  <2>3. log'[o].kind # "rest"
    BY <1>5, <1>7
  <2>4. log'[o].kind = "first" => log'[o].len = n /\ log'[o].elem = e
    BY <1>5, <1>7
  <2> QED BY <1>2, <1>7, <1>9, <1>10, <1>11, <2>1, <2>2, <2>3, <2>4, StoreLines DEF o, n, e
<1>14. CompletedInv'
  <2>1. log[o].dirty
    BY <1>12 DEF First
  <2> QED BY <1>2, <1>13, <2>1, CleanKept
<1>15. StoresInv(w)'
  <2>1. w \in Active' /\ prod'[w].elem \in EmptyElements => prod'[w].len = 1
    BY <1>2, <1>3 DEF StoresInv, n, e
  <2> QED BY <1>2, <1>6, <1>7, <1>9, <2>1 DEF StoresInv, x
<1> QED BY <1>1, <1>7, <1>10, <1>13, <1>14, <1>15, StoreFrame, DistinctPlaces DEF o, n

(***************************************************************************)
(* The drain, and an exception of on_produce.                              *)
(***************************************************************************)
LEMMA SameLogStep ==
    ASSUME IInv, NEW w \in Workers, store_drain(w) \/ on_produce_throws(w)
    PROVE  IInv'
<1>1. PICK from \in PCs \ {"idle"}, to \in PCs \ {"idle"} :
         /\ Step(w, from, to) /\ log' = log
         /\ \/ from = "rest" /\ to = "drained"
            \/ from = "stored" /\ to = "threw"
  BY DistinctPlaces DEF store_drain, on_produce_throws
<1>2. /\ w \in Active /\ prod[w].pc = from /\ prod'[w].pc = to /\ Active' = Active
      /\ prod'[w].off = prod[w].off /\ prod'[w].len = prod[w].len /\ prod'[w].elem = prod[w].elem
      /\ \A v \in Workers : v # w => prod'[v] = prod[v]
      /\ UNCHANGED <<completed, consumed>>
  BY <1>1, StepChanges
<1>3. Types /\ StoresInv(w) /\ LinesInv
  BY DEF IInv
<1>4. log' \in [Offsets -> Cachelines]
  BY <1>1, <1>3 DEF Types
<1>5. Firsts' = Firsts
  BY <1>1 DEF Firsts
<1>6. LinesInv'
  BY <1>1, <1>3, <1>5 DEF LinesInv
<1>7. Blocks' \subseteq Blocks
  <2>1. \A c \in Firsts : Stored(c)' = Stored(c)
    BY <1>1 DEF Stored
  <2>2. \A v \in Active : Claimed(v)' = Claimed(v)
    BY <1>2 DEF Claimed, Active
  <2> QED BY <1>2, <1>5, <2>1, <2>2 DEF Blocks
<1>8. CompletedInv'
  BY <1>1, <1>2, <1>5, CleanKept
<1>9. StoresInv(w)'
  <2>1. FirstBlock(w, TRUE)' = FirstBlock(w, TRUE) /\ FirstBlock(w, FALSE)' = FirstBlock(w, FALSE)
    BY <1>2 DEF FirstBlock
  <2> QED BY <1>1, <1>2, <1>3, <2>1 DEF StoresInv
<1> QED BY <1>1, <1>4, <1>6, <1>7, <1>8, <1>9, StoreFrame

(***************************************************************************)
(* The end of a call: the worker shows no offset any more, and what it     *)
(* stored stays.                                                           *)
(***************************************************************************)
LEMMA ProduceStep ==
    ASSUME IInv, NEW w \in Workers, produce_cachelines(w) \/ replace_worker(w)
    PROVE  IInv'
<1>1. /\ prod[w].pc \in {"stored", "threw"}
      /\ seen_off' = [seen_off EXCEPT ![w] = RBUF_OFF_MAX]
      /\ prod' = [prod EXCEPT ![w] = Idle]
      /\ UNCHANGED <<log, pmem_written, up, ring, acquired, consumed>>
      /\ UNCHANGED consumeVars
      /\ completed' = completed
         \/ (prod[w].pc = "stored" /\ completed' = completed \cup {prod[w].elem})
  BY DEF produce_cachelines, replace_worker, persistentVars, historyVars
<1>0. Types /\ StoresInv(w) /\ LinesInv /\ BlocksInv
  BY DEF IInv
<1>2. w \in Active
  BY <1>1 DEF Active
<1>3. /\ prod'[w] = Idle /\ Idle.pc = "idle" /\ seen_off'[w] = RBUF_OFF_MAX
      /\ \A v \in Workers : v # w => prod'[v] = prod[v] /\ seen_off'[v] = seen_off[v]
  BY <1>0, <1>1 DEF Types, Idle
<1>4. Active' = Active \ {w}
  BY <1>3 DEF Active
<1>5. \A v \in Active' : v \in Active /\ v \in Workers /\ v # w /\ prod'[v] = prod[v]
  BY <1>3, <1>4 DEF Active
<1>6. prod[w].elem \in Elements /\ prod[w].len \in ElementLengths /\ prod[w].off \in Offsets
  BY <1>0, <1>2, TypeFacts
<1>7. Types'
  <2> DEFINE P == [pc : PCs, off : Offsets, len : ElementLengths \cup {0}, elem : Elements \cup {Junk}]
  <2>1. Idle \in P
    BY Constants DEF Idle, PCs
  <2>2. prod \in [Workers -> P]
    BY <1>0 DEF Types
  <2> HIDE DEF P
  <2>3. prod' \in [Workers -> P]
    BY <1>1, <2>1, <2>2
  <2>4. seen_off' \in [Workers -> Offsets \cup {RBUF_OFF_MAX}]
    BY <1>0, <1>1 DEF Types
  <2>5. \A v \in Active' : prod'[v].len # 0 /\ prod'[v].elem # Junk
    BY <1>0, <1>5 DEF Types
  <2>6. completed' \subseteq Elements
    BY <1>0, <1>1, <1>6 DEF Types
  <2> QED BY <1>0, <1>1, <2>3, <2>4, <2>5, <2>6 DEF Types, P, consumeVars
<1>8. Firsts' = Firsts /\ LinesInv'
  BY <1>0, <1>1 DEF LinesInv, Firsts
<1>9. Blocks' \subseteq Blocks
  <2>1. \A c \in Firsts : Stored(c)' = Stored(c)
    BY <1>1 DEF Stored
  <2>2. \A v \in Active' : Claimed(v)' = Claimed(v)
    BY <1>5 DEF Claimed
  <2> QED BY <1>5, <1>8, <2>1, <2>2 DEF Blocks
<1>10. BlocksInv' /\ OrderInv'
  BY <1>1, <1>5, <1>9, QuietFrame
<1>11. ConsumeInv'
  BY <1>1, <1>5, <1>9, ConsumeFrame
<1>12. ASSUME NEW v \in Workers PROVE StoresInv(v)' /\ SeenInv(v)'
  <2>1. CASE v = w
    <3>1. v \notin Active' /\ prod'[v].pc = "idle" /\ seen_off'[v] = RBUF_OFF_MAX
      BY <1>3, <1>4, <2>1
    <3> QED BY <3>1 DEF StoresInv, SeenInv
  <2>2. CASE v # w
    <3>1. prod'[v] = prod[v] /\ seen_off'[v] = seen_off[v] /\ (v \in Active' <=> v \in Active)
      BY <1>3, <1>4, <2>2
    <3>2. StoresInv(v) /\ SeenInv(v)
      BY DEF IInv
    <3>3. StoresInv(v)'
      BY <1>1, <3>1, <3>2 DEF StoresInv, FirstBlock
    <3>4. SeenInv(v)'
      BY <1>1, <3>1, <3>2 DEF SeenInv
    <3> QED BY <3>3, <3>4
  <2> QED BY <2>1, <2>2
<1>13. CompletedInv'
  <2> SUFFICES ASSUME EmptyElements = {}, NEW e \in completed' \ ToSet(consumed)
               PROVE  \E c \in Firsts : log[c].elem = e /\ ~log[c].dirty
    BY <1>1, <1>8 DEF CompletedInv
  <2>1. CASE e \in completed
    BY <2>1 DEF IInv, CompletedInv
  <2>2. CASE e \notin completed
    <3>1. prod[w].pc = "stored" /\ e = prod[w].elem
      BY <1>1, <2>2
    <3>2. log[prod[w].off] = First(e, prod[w].len, FALSE)
      BY <1>0, <3>1 DEF StoresInv, FirstBlock
    <3>3. log[prod[w].off].kind = "first" /\ log[prod[w].off].elem = e /\ ~log[prod[w].off].dirty
      BY <3>2 DEF First
    <3> QED BY <1>6, <3>3 DEF Firsts
  <2> QED BY <2>1, <2>2
<1> QED BY <1>7, <1>8, <1>10, <1>11, <1>12, <1>13 DEF IInv

(***************************************************************************)
(* Cachelines outside the blocks are zeroed, so that is what a producer    *)
(* finds in the space that it acquires.                                    *)
(***************************************************************************)
LEMMA FreeIsZeroed ==
    ASSUME IInv, NEW b \in BlockSet, \A d \in Blocks : Apart(d, b),
           NEW i \in Offsets, b.off <= i, i < EndOf(b)
    PROVE  log[i] = Zeroed
<1>0. Types /\ LinesInv
  BY DEF IInv
<1>1. /\ b.off \in 0 .. Space - 1 /\ EndOf(b) \in Nat
      /\ i \in 0 .. Space - 1 /\ log[i] \in Cachelines
  BY <1>0, BlockBounds, TypeFacts, Constants
<1>2. ASSUME NEW c \in Firsts, c <= i, i < c + log[c].len PROVE FALSE
  <2>1. Apart(Stored(c), b) /\ c \in 0 .. Space - 1 /\ log[c].len \in 1 .. Space
    BY <1>0, TypeFacts
  <2>2. c + log[c].len <= b.off \/ EndOf(b) <= c
    BY <2>1 DEF Apart, Stored, EndOf
  <2>3. PICK l \in 1 .. Space : l = log[c].len
    BY <2>1
  <2> QED BY <1>1, <1>2, <2>1, <2>2, <2>3
<1>3. log[i].kind # "first"
  <2> SUFFICES ASSUME log[i].kind = "first" PROVE FALSE
    OBVIOUS
  <2>1. i \in Firsts
    BY DEF Firsts
  <2>2. log[i].len \in 1 .. Space
    BY <1>0, <2>1, TypeFacts
  <2> QED BY <1>1, <1>2, <2>1, <2>2
<1>4. log[i].kind # "rest"
  <2> SUFFICES ASSUME log[i].kind = "rest" PROVE FALSE
    OBVIOUS
  <2>1. PICK c \in Firsts : c < i /\ i < c + log[c].len
    BY <1>0 DEF LinesInv
  <2>2. c \in 0 .. Space - 1
    BY <1>0, TypeFacts
  <2> QED BY <1>1, <1>2, <2>1, <2>2
<1> QED BY <1>1, <1>3, <1>4, LineKinds

LEMMA AcquireStep ==
    ASSUME IInv, NEW w \in Workers, NEW n \in ElementLengths, Acquire_cachelines(w, n)
    PROVE  IInv'
<1> DEFINE e == acquired + 1
           q == Acquire(ring, n)
           a == AcquiredAt(ring, n)
           new == [off |-> a, len |-> n, elem |-> e]
           p == [pc |-> "acquired", off |-> a, len |-> n, elem |-> e]
<1>0. Types /\ BlocksInv /\ LinesInv /\ ConsumeInv /\ OrderInv
  BY DEF IInv
<1>1. /\ up /\ prod[w].pc = "idle" /\ acquired < MaxElements
      /\ e \in EmptyElements => n = 1
      /\ CanAcquire(ring, n)
      /\ ring' = q
      /\ seen_off' = [seen_off EXCEPT ![w] = ring.next]
      /\ acquired' = e
      /\ prod' = [prod EXCEPT ![w] = p]
      /\ UNCHANGED <<log, pmem_written, up, completed, consumed>>
      /\ UNCHANGED consumeVars
  BY DEF Acquire_cachelines, persistentVars
<1>2. /\ ring \in Rings /\ TheRing = ring /\ Fits(ring, Blocks) /\ TheRing' = q
      /\ Blocks \in SUBSET BlockSet /\ n \in Lengths /\ e \in Elements
      /\ acquired \in Nat /\ e \in Nat /\ acquired < e
  BY <1>0, <1>1, TypeFacts, Constants DEF Types, TheRing, BlocksInv
<1>3. \A b \in Blocks : b.elem < e /\ b.elem <= acquired /\ b.elem \in Nat
  <2>1. \A b \in Blocks : b.elem <= acquired /\ b.elem \in 1 .. MaxElements
    BY <1>0, <1>2, BlockBounds DEF OrderInv
  <2> QED BY <1>2, <2>1
<1>4. /\ q \in Rings /\ new \in BlockSet
      /\ Fits(q, Blocks \cup {new})
      /\ \A b \in Blocks : Apart(b, new)
      /\ EndOf(new) <= ring.written \/ Upper(ring) <= new.off
      /\ Upper(ring) <= Upper(q)
      /\ \/ a = ring.next
         \/ /\ a = 0 /\ q.end = ring.next
            /\ q.next < q.written /\ q.end < Space
      /\ ring.next < ring.written => q.next < q.written /\ q.end = ring.end
  <2>1. \A b \in Blocks : b.elem < e
    BY <1>3
  <2> HIDE DEF e
  <2> QED BY <1>1, <1>2, <2>1, AcquireFits
<1>5. /\ q.written = ring.written /\ a \in 0 .. Space - 1 /\ a \in Offsets
      /\ n \in 1 .. Space /\ a + n <= Space
      /\ ring.next \in Offsets
  <2>1. n \in 0 .. Space /\ n \in 1 .. Space /\ ring.next \in 0 .. Space - 1
    BY <1>2, RingBounds, Constants
  <2>2. q.written = ring.written /\ a = IF ring.next + n > Space THEN 0 ELSE ring.next
    BY <1>2, <2>1, AcquireIs
  <2> HIDE DEF a, q
  <2> QED BY <2>1, <2>2, Constants
<1>6. /\ new.off = a /\ new.len = n /\ new.elem = e /\ EndOf(new) = a + n
      /\ p.pc = "acquired" /\ p.off = a /\ p.len = n /\ p.elem = e /\ EndOf(p) = a + n
      /\ new = [off |-> p.off, len |-> p.len, elem |-> p.elem]
      /\ p \in [pc : PCs, off : Offsets, len : ElementLengths \cup {0}, elem : Elements \cup {Junk}]
  BY <1>2, <1>5 DEF EndOf, PCs
<1> HIDE DEF a, q, new, p, e
<1>7. /\ prod'[w] = p /\ seen_off'[w] = ring.next
      /\ \A v \in Workers : v # w => prod'[v] = prod[v] /\ seen_off'[v] = seen_off[v]
  BY <1>0, <1>1 DEF Types
<1>8. w \notin Active /\ Active' = Active \cup {w}
  BY <1>1, <1>6, <1>7 DEF Active
<1>9. \A v \in Active : v # w /\ v \in Workers /\ prod'[v] = prod[v]
  BY <1>7, <1>8 DEF Active
<1>10. Firsts' = Firsts /\ LinesInv'
  BY <1>0, <1>1 DEF LinesInv, Firsts
<1>11. Blocks' = Blocks \cup {new}
  <2>1. \A c \in Firsts : Stored(c)' = Stored(c)
    BY <1>1 DEF Stored
  <2>2. \A v \in Active : Claimed(v)' = Claimed(v)
    BY <1>9 DEF Claimed
  <2>3. Claimed(w)' = new
    BY <1>6, <1>7 DEF Claimed
  <2> QED BY <1>8, <1>10, <2>1, <2>2, <2>3 DEF Blocks
<1>12. Types'
  <2>1. prod' \in [Workers -> [pc : PCs, off : Offsets, len : ElementLengths \cup {0},
                               elem : Elements \cup {Junk}]]
    BY <1>0, <1>1, <1>6 DEF Types
  <2>2. seen_off' \in [Workers -> Offsets \cup {RBUF_OFF_MAX}]
    BY <1>0, <1>1, <1>5 DEF Types
  <2>3. p.len # 0 /\ p.elem # Junk
    BY <1>2, <1>5, <1>6, Constants
  <2>4. \A v \in Active' : prod'[v].len # 0 /\ prod'[v].elem # Junk
    BY <1>0, <1>7, <1>8, <1>9, <2>3 DEF Types
  <2>5. acquired' \in 0 .. MaxElements
    BY <1>1, <1>2, Constants
  <2> QED BY <1>0, <1>1, <1>4, <2>1, <2>2, <2>4, <2>5 DEF Types, consumeVars
<1>13. BlocksInv'
  <2>1. \A v \in Active : prod[v].elem # e
    <3> SUFFICES ASSUME NEW v \in Active PROVE prod[v].elem # e
      OBVIOUS
    <3>1. Claimed(v) \in Blocks /\ Claimed(v).elem = prod[v].elem
      BY <1>0, TypeFacts DEF Claimed
    <3>2. prod[v].elem < e /\ prod[v].elem \in Nat
      BY <1>3, <3>1
    <3> QED BY <1>2, <3>2
  <2>2. \A u, v \in Active' : u # v => prod'[u].elem # prod'[v].elem
    BY <1>0, <1>6, <1>7, <1>8, <1>9, <2>1 DEF BlocksInv
  <2>3. Fits(TheRing', Blocks')
    BY <1>2, <1>4, <1>11
  <2> QED BY <2>2, <2>3 DEF BlocksInv
<1>14. \A i \in a .. a + n - 1 : log[i] = Zeroed
  <2> SUFFICES ASSUME NEW i \in a .. a + n - 1 PROVE log[i] = Zeroed
    OBVIOUS
  <2>1. i \in Offsets /\ a <= i /\ i < a + n
    BY <1>5, Constants
  <2> QED BY <1>4, <1>6, <2>1, FreeIsZeroed
<1>15. ASSUME NEW v \in Workers PROVE StoresInv(v)'
  <2>1. CASE v = w
    <3>1. log[a] = Zeroed /\ \A i \in a + 1 .. a + n - 1 : log[i] = Zeroed
      BY <1>5, <1>14
    <3> QED BY <1>1, <1>6, <1>7, <2>1, <3>1, ZenonT(60) DEF StoresInv
  <2>2. CASE v # w
    <3>1. prod'[v] = prod[v] /\ (v \in Active' <=> v \in Active) /\ StoresInv(v)
      BY <1>7, <1>8, <2>2 DEF IInv
    <3> QED BY <1>1, <3>1 DEF StoresInv, FirstBlock
  <2> QED BY <2>1, <2>2
<1>16. ASSUME NEW v \in Workers PROVE SeenInv(v)'
  <2>1. CASE v = w
    <3>1. v \in Active' /\ prod'[v].off = a /\ seen_off'[v] = ring.next
      BY <1>6, <1>7, <1>8, <2>1
    <3> QED BY <1>1, <1>4, <3>1 DEF SeenInv
  <2>2. CASE v # w
    <3>1. prod'[v] = prod[v] /\ seen_off'[v] = seen_off[v]
          /\ (v \in Active' <=> v \in Active) /\ SeenInv(v)
      BY <1>7, <1>8, <2>2 DEF IInv
    <3> QED BY <1>1, <1>4, <3>1 DEF SeenInv
  <2> QED BY <2>1, <2>2
<1>17. ConsumeInv'
  <2>1. ASSUME consume_in_progress
        PROVE  /\ consume_offset = q.written /\ consume_len > 0 /\ ConsumeEnd <= Upper(q)
               /\ EndOf(new) <= consume_offset \/ ConsumeEnd <= new.off
    <3>1. consume_offset = ring.written /\ consume_len > 0 /\ ConsumeEnd <= Upper(ring)
      BY <1>0, <2>1 DEF ConsumeInv
    <3>2. consume_offset \in Int /\ consume_len \in Int /\ ConsumeEnd \in Int
      BY <1>0, Constants DEF Types, ConsumeEnd
    <3>3. Upper(ring) \in Int /\ Upper(q) \in Int
      BY <1>2, <1>4, RingBounds DEF Fits
    <3> QED BY <1>4, <1>5, <1>6, <3>1, <3>2, <3>3
  <2>2. ASSUME consume_in_progress, NEW b \in Blocks'
        PROVE  \/ EndOf(b) <= consume_offset \/ ConsumeEnd <= b.off
               \/ consume_offset <= b.off /\ EndOf(b) <= ConsumeEnd
    BY <1>0, <1>11, <2>1, <2>2 DEF ConsumeInv
  <2>3. ASSUME consume_in_progress, NEW v \in Active'
        PROVE  EndOf(prod'[v]) <= consume_offset \/ ConsumeEnd <= prod'[v].off
    <3>1. CASE v = w
      BY <1>6, <1>7, <2>1, <2>3, <3>1
    <3>2. CASE v \in Active
      BY <1>0, <1>9, <2>3, <3>2 DEF ConsumeInv
    <3> QED BY <1>8, <3>1, <3>2
  <2>4. UNCHANGED <<consume_in_progress, consume_offset, consume_len, call, iteration>>
        /\ ConsumeEnd' = ConsumeEnd
    BY <1>1 DEF consumeVars, ConsumeEnd
  <2> QED BY <1>0, <1>1, <2>1, <2>2, <2>3, <2>4 DEF ConsumeInv
<1>18. OrderInv'
  <2>0. consumed \in Seq(Elements) /\ \A i \in DOMAIN consumed : consumed[i] \in Nat
    <3>1. consumed \in Seq(Elements)
      BY <1>0 DEF OrderInv
    <3>2. \A i \in DOMAIN consumed : consumed[i] \in Elements
      BY <3>1
    <3> QED BY <3>1, <3>2, Constants
  <2>1. \A b \in Blocks' : b.elem <= acquired'
    BY <1>1, <1>2, <1>3, <1>6, <1>11
  <2>2. \A i \in DOMAIN consumed : consumed[i] <= acquired' /\ consumed[i] < e
    BY <1>0, <1>1, <1>2, <2>0 DEF OrderInv
  <2>3. \A i \in DOMAIN consumed, b \in Blocks' : consumed[i] < b.elem
    BY <1>0, <1>6, <1>11, <2>2 DEF OrderInv
  <2>4. ConsumedInOrder' /\ (consumed \in Seq(Elements))'
    BY <1>0, <1>1 DEF OrderInv, ConsumedInOrder
  <2> QED BY <1>1, <2>1, <2>2, <2>3, <2>4 DEF OrderInv
<1>19. CompletedInv'
  BY <1>1, <1>10, CleanKept
<1> QED BY <1>10, <1>12, <1>13, <1>15, <1>16, <1>17, <1>18, <1>19 DEF IInv

-----------------------------------------------------------------------------
(***************************************************************************)
(* The consumer.  Steps that leave the log and the producers alone.        *)
(***************************************************************************)
LEMMA LogFrame ==
    ASSUME IInv, UNCHANGED <<log, prod>>
    PROVE  /\ Firsts' = Firsts /\ Active' = Active /\ Blocks' = Blocks
           /\ LinesInv' /\ \A w \in Workers : StoresInv(w)'
<1>1. Firsts' = Firsts /\ Active' = Active
  BY DEF Firsts, Active
<1>2. \A c : Stored(c)' = Stored(c) /\ Claimed(c)' = Claimed(c)
  BY DEF Stored, Claimed
<1>3. Blocks' = Blocks
  BY <1>1, <1>2 DEF Blocks
<1>4. LinesInv'
  BY <1>1 DEF IInv, LinesInv
<1>5. \A w \in Workers : StoresInv(w)'
  BY <1>1 DEF IInv, StoresInv, FirstBlock
<1> QED BY <1>1, <1>3, <1>4, <1>5

LEMMA CallStep ==
    ASSUME IInv, try_consume_batch \/ consume_throws
    PROVE  IInv'
<1>1. /\ UNCHANGED <<log, pmem_written, up, ring, seen_off, prod, consume_in_progress,
                     consume_offset, consume_len, acquired, completed, consumed>>
      /\ call' = "none" \/ (up /\ call' = "begin")
      /\ iteration' = iteration \/ iteration' = 0
  BY DEF try_consume_batch, consume_throws, persistentVars, historyVars
<1>2. /\ Firsts' = Firsts /\ Active' = Active /\ Blocks' = Blocks
      /\ LinesInv' /\ \A w \in Workers : StoresInv(w)'
  BY <1>1, LogFrame
<1>3. Types'
  <2>1. iteration' \in 0 .. 1
    BY <1>1 DEF IInv, Types
  <2> QED BY <1>1, <1>2, <2>1 DEF IInv, Types
<1>4. BlocksInv' /\ OrderInv'
  BY <1>1, <1>2, QuietFrame
<1>5. \A w \in Workers : SeenInv(w)'
  BY <1>1, <1>2 DEF IInv, SeenInv
<1>6. ConsumeInv'
  <2>1. ConsumeEnd' = ConsumeEnd
    BY <1>1 DEF ConsumeEnd
  <2> QED BY <1>1, <1>2, <2>1 DEF IInv, ConsumeInv
<1>7. CompletedInv'
  BY <1>1, <1>2, CleanKept
<1> QED BY <1>2, <1>3, <1>4, <1>5, <1>6, <1>7 DEF IInv

(***************************************************************************)
(* The range that ringbuf_consume returns ends where a lap ends or where   *)
(* the block of a producer in flight begins, so it cuts no block.          *)
(***************************************************************************)
LEMMA ConsumableWhole ==
    ASSUME IInv, NEW r \in Rings, Fits(r, Blocks),
           \A w \in Active :
              \/ seen_off[w] = prod[w].off
              \/ prod[w].off = 0 /\ seen_off[w] = r.end /\ r.next < r.written /\ r.end < Space
    PROVE  LET n == Consumable(r, SeenOffs)
           IN  /\ n \in 0 .. Space /\ r.written + n <= Upper(r)
               /\ \A b \in Blocks :
                     \/ EndOf(b) <= r.written \/ r.written + n <= b.off
                     \/ r.written <= b.off /\ EndOf(b) <= r.written + n
               /\ \A w \in Active : EndOf(prod[w]) <= r.written \/ r.written + n <= prod[w].off
<1> DEFINE m == Consumable(r, SeenOffs)
<1>0. Types /\ BlocksInv /\ CutFits(r) /\ \A w \in Workers : SeenInv(w)
  BY DEF IInv, Fits
<1>1. SeenOffs \in SUBSET Nat
  <2>1. \A w \in Workers : seen_off[w] \in Nat
    BY <1>0, Constants DEF Types
  <2> QED BY <2>1 DEF SeenOffs
<1>2. /\ m \in 0 .. Space
      /\ r.written + m <= Upper(r)
      /\ \A s \in SeenOffs : r.written <= s => r.written + m <= s
      /\ r.written + m = Upper(r) \/ r.written + m \in SeenOffs
  BY <1>0, <1>1, ConsumableIs
<1>3. /\ r.next \in 0 .. Space - 1 /\ r.written \in 0 .. Space - 1 /\ r.end \in 0 .. Space + 1
      /\ Upper(r) \in 0 .. Space /\ Lower(r) \in 0 .. Space - 1 /\ Lower(r) <= r.written
      /\ CutOff(r.end) = IF r.end = RBUF_OFF_MAX THEN Space ELSE r.end
  BY <1>0, RingBounds
<1> HIDE DEF m
<1>4. ASSUME r.written + m # Upper(r)
      PROVE  \E w \in Active : prod[w].off = r.written + m
  <2>1. PICK w \in Workers : seen_off[w] = r.written + m
    BY <1>2, <1>4 DEF SeenOffs
  <2>2. seen_off[w] # RBUF_OFF_MAX
    BY <1>2, <1>3, <2>1, Constants
  <2>3. w \in Active
    BY <1>0, <2>2 DEF SeenInv
  <2>4. CASE seen_off[w] = prod[w].off
    BY <2>1, <2>3, <2>4
  <2>5. CASE seen_off[w] = r.end /\ r.next < r.written /\ r.end < Space
    BY <1>3, <1>4, <2>1, <2>5, Constants DEF Upper
  <2> QED BY <2>3, <2>4, <2>5
<1>5. ASSUME NEW b \in Blocks
      PROVE  \/ EndOf(b) <= r.written \/ r.written + m <= b.off
             \/ r.written <= b.off /\ EndOf(b) <= r.written + m
  <2>1. /\ b.off \in 0 .. Space - 1 /\ EndOf(b) \in Nat
        /\ Inside(r, b)
    BY <1>0, TypeFacts, BlockBounds DEF Fits
  <2>2. CASE r.written + m = Upper(r)
    BY <1>2, <1>3, <2>1, <2>2, Constants DEF Inside
  <2>3. CASE r.written + m # Upper(r)
    <3>1. PICK w \in Active : prod[w].off = r.written + m
      BY <1>4, <2>3
    <3>2. Claimed(w) \in Blocks /\ Claimed(w).off = prod[w].off
      BY <1>0, TypeFacts DEF Claimed
    <3>3. EndOf(Claimed(w)) \in Nat /\ Claimed(w).off < EndOf(Claimed(w))
      BY <1>0, <3>2, TypeFacts, BlockBounds
    <3>4. b = Claimed(w) \/ EndOf(b) <= Claimed(w).off \/ EndOf(Claimed(w)) <= b.off
      BY <3>2 DEF Fits, Apart
    <3>5. b.off >= r.written \/ EndOf(b) <= r.written
      BY <1>3, <2>1 DEF Inside
    <3> QED BY <1>2, <1>3, <2>1, <3>1, <3>2, <3>3, <3>4, <3>5
  <2> QED BY <2>2, <2>3
<1>6. ASSUME NEW w \in Active
      PROVE  EndOf(prod[w]) <= r.written \/ r.written + m <= prod[w].off
  <2>1. w \in Workers /\ prod[w].off \in 0 .. Space - 1 /\ prod[w].len \in 1 .. Space
        /\ Claimed(w) \in Blocks
    BY <1>0, TypeFacts
  <2>2. Claimed(w).off = prod[w].off /\ EndOf(Claimed(w)) = EndOf(prod[w])
    BY DEF Claimed, EndOf
  <2>3. r.written <= prod[w].off \/ EndOf(prod[w]) <= Lower(r)
    BY <2>1, <2>2 DEF Fits, Inside
  <2>4. EndOf(prod[w]) \in Nat
    BY <2>1 DEF EndOf
  <2>5. CASE EndOf(prod[w]) <= Lower(r)
    BY <1>3, <2>4, <2>5
  <2>6. CASE r.written <= prod[w].off
    <3>1. seen_off[w] = prod[w].off
      BY <1>3, <2>6
    <3>2. seen_off[w] \in SeenOffs
      BY <2>1 DEF SeenOffs
    <3> QED BY <1>2, <2>6, <3>1, <3>2
  <2> QED BY <2>3, <2>5, <2>6
<1> QED BY <1>2, <1>5, <1>6 DEF m

LEMMA ConsumeStep ==
    ASSUME IInv, consume_cachelines
    PROVE  IInv'
<1> DEFINE r == Wrap(ring, SeenOffs)
           n == Consumable(r, SeenOffs)
<1>0. Types /\ BlocksInv /\ ConsumeInv /\ \A w \in Workers : SeenInv(w)
  BY DEF IInv
<1>1. /\ call = "begin" /\ up
      /\ UNCHANGED <<log, pmem_written, up, seen_off, prod, iteration, acquired, completed, consumed>>
  BY <1>0 DEF consume_cachelines, persistentVars, historyVars, ConsumeInv
<1>2. /\ Firsts' = Firsts /\ Active' = Active /\ Blocks' = Blocks
      /\ LinesInv' /\ \A w \in Workers : StoresInv(w)'
  BY <1>1, LogFrame
<1>3. CompletedInv'
  BY <1>1, <1>2, CleanKept
<1>4. OrderInv'
  BY <1>1, <1>2 DEF IInv, OrderInv, ConsumedInOrder
<1>5. CASE consume_in_progress
  <2>1. call' = "tx" /\ UNCHANGED <<ring, consume_in_progress, consume_offset, consume_len>>
    BY <1>5 DEF consume_cachelines
  <2>2. Types'
    BY <1>0, <1>1, <1>2, <2>1 DEF Types
  <2>3. BlocksInv'
    BY <1>1, <1>2, <2>1, QuietFrame
  <2>4. \A w \in Workers : SeenInv(w)'
    BY <1>0, <1>1, <1>2, <2>1 DEF SeenInv
  <2>5. ConsumeInv'
    <3>1. ConsumeEnd' = ConsumeEnd
      BY <2>1 DEF ConsumeEnd
    <3> QED BY <1>0, <1>1, <1>2, <1>5, <2>1, <3>1 DEF ConsumeInv
  <2> QED BY <1>2, <1>3, <1>4, <2>2, <2>3, <2>4, <2>5 DEF IInv
<1>6. CASE ~consume_in_progress
  <2>1. /\ ring' = r
        /\ \/ n = 0 /\ call' = "none" /\ UNCHANGED <<consume_in_progress, consume_offset, consume_len>>
           \/ /\ n # 0 /\ call' = "tx" /\ consume_in_progress' = TRUE
              /\ consume_offset' = r.written /\ consume_len' = n
    BY <1>6 DEF consume_cachelines
  <2>2. ring \in Rings /\ TheRing = ring /\ Fits(ring, Blocks) /\ TheRing' = r
        /\ Blocks \in SUBSET BlockSet
    BY <1>0, <1>1, <2>1, TypeFacts DEF Types, TheRing, BlocksInv
  <2>3. SeenOffs \in SUBSET Nat
    <3>1. \A w \in Workers : seen_off[w] \in Nat
      BY <1>0, Constants DEF Types
    <3> QED BY <3>1 DEF SeenOffs
  <2>4. \/ r = ring
        \/ /\ ring.next < ring.written /\ ring.written = CutOff(ring.end)
           /\ \A s \in SeenOffs : s < ring.written \/ RBUF_OFF_MAX <= s
           /\ r \in Rings
           /\ r.next = ring.next /\ r.written = 0 /\ r.end = RBUF_OFF_MAX
    BY <2>2, <2>3, WrapIs
  <2> HIDE DEF r
  <2>5. r \in Rings /\ Fits(r, Blocks)
    BY <2>2, <2>4, WrapFits
  <2>6. ASSUME NEW w \in Active
        PROVE  \/ seen_off[w] = prod[w].off
               \/ prod[w].off = 0 /\ seen_off[w] = r.end /\ r.next < r.written /\ r.end < Space
    <3>1. w \in Workers
      BY DEF Active
    <3>2. SeenInv(w) /\ seen_off[w] \in SeenOffs
      BY <1>0, <3>1 DEF SeenOffs
    <3>3. ASSUME r # ring, seen_off[w] = ring.end, ring.end < Space PROVE FALSE
      <4>1. CutOff(ring.end) = ring.end /\ ring.end \in 0 .. Space + 1
        BY <2>2, <3>3, RingBounds, Constants
      <4> QED BY <2>4, <3>2, <3>3, <4>1, Constants
    <3> QED BY <3>2, <3>3 DEF SeenInv
  <2>7. /\ n \in 0 .. Space /\ r.written + n <= Upper(r)
        /\ \A b \in Blocks :
              \/ EndOf(b) <= r.written \/ r.written + n <= b.off
              \/ r.written <= b.off /\ EndOf(b) <= r.written + n
        /\ \A w \in Active : EndOf(prod[w]) <= r.written \/ r.written + n <= prod[w].off
    BY <2>5, <2>6, ConsumableWhole
  <2> HIDE DEF n
  <2>8. Types'
    <3>1. r.written \in Offsets
      BY <2>5 DEF Rings
    <3> QED BY <1>0, <1>1, <1>2, <2>1, <2>5, <2>7, <3>1 DEF Types
  <2>9. BlocksInv'
    BY <1>0, <1>1, <1>2, <2>2, <2>5 DEF BlocksInv
  <2>10. \A w \in Workers : SeenInv(w)'
    BY <1>0, <1>1, <1>2, <2>1, <2>6 DEF SeenInv
  <2>11. ConsumeInv'
    <3>1. CASE n = 0
      <4>1. call' = "none" /\ ~consume_in_progress'
        BY <1>6, <2>1, <3>1
      <4> QED BY <1>1, <4>1 DEF ConsumeInv
    <3>2. CASE n # 0
      <4>1. /\ call' = "tx" /\ consume_in_progress' /\ consume_offset' = r.written
            /\ consume_len' = n /\ ConsumeEnd' = r.written + n /\ n > 0
        BY <2>1, <2>7, <3>2 DEF ConsumeEnd
      <4> QED BY <1>1, <1>2, <2>1, <2>7, <4>1 DEF ConsumeInv
    <3> QED BY <3>1, <3>2
  <2> QED BY <1>2, <1>3, <1>4, <2>8, <2>9, <2>10, <2>11 DEF IInv
<1> QED BY <1>5, <1>6

(***************************************************************************)
(* While a range is being consumed it lies in the log, and every block is  *)
(* before it, in it or after it.                                           *)
(***************************************************************************)
LEMMA ConsumeRange ==
    ASSUME IInv, consume_in_progress
    PROVE  /\ up /\ ring \in Rings /\ TheRing = ring /\ Fits(ring, Blocks)
           /\ consume_offset \in 0 .. Space - 1 /\ consume_len \in 1 .. Space
           /\ ConsumeEnd = consume_offset + consume_len /\ ConsumeEnd \in 1 .. Space
           /\ consume_offset < ConsumeEnd /\ ConsumeEnd <= Upper(ring)
           /\ consume_offset = ring.written
           /\ Released(consume_offset, consume_len) \in Offsets
           /\ \A c \in Firsts :
                 \/ c + log[c].len <= consume_offset \/ ConsumeEnd <= c
                 \/ consume_offset <= c /\ c + log[c].len <= ConsumeEnd
           /\ \A w \in Active :
                 prod[w].off + prod[w].len <= consume_offset \/ ConsumeEnd <= prod[w].off
<1>0. Types /\ BlocksInv /\ ConsumeInv
  BY DEF IInv
<1>1. up /\ ring \in Rings /\ TheRing = ring /\ Fits(ring, Blocks)
  BY <1>0 DEF ConsumeInv, Types, TheRing, BlocksInv
<1>2. /\ consume_offset = ring.written /\ consume_len > 0 /\ ConsumeEnd <= Upper(ring)
      /\ \A b \in Blocks :
            \/ EndOf(b) <= consume_offset \/ ConsumeEnd <= b.off
            \/ consume_offset <= b.off /\ EndOf(b) <= ConsumeEnd
      /\ \A w \in Active : EndOf(prod[w]) <= consume_offset \/ ConsumeEnd <= prod[w].off
  BY <1>0 DEF ConsumeInv
<1>3. consume_offset \in 0 .. Space - 1 /\ consume_len \in 0 .. Space
  BY <1>0, Constants DEF Types
<1>4. Upper(ring) \in 0 .. Space
  BY <1>1, RingBounds DEF Fits
<1>5. ConsumeEnd = consume_offset + consume_len
  BY DEF ConsumeEnd
<1>6. consume_len \in 1 .. Space /\ ConsumeEnd \in 1 .. Space /\ consume_offset < ConsumeEnd
  BY <1>2, <1>3, <1>4, <1>5, Constants
<1>7. Released(consume_offset, consume_len) \in Offsets
  BY <1>3, <1>5, <1>6, Constants DEF Released
<1>8. ASSUME NEW c \in Firsts
      PROVE  \/ c + log[c].len <= consume_offset \/ ConsumeEnd <= c
             \/ consume_offset <= c /\ c + log[c].len <= ConsumeEnd
  <2>1. Stored(c) \in Blocks /\ Stored(c).off = c /\ EndOf(Stored(c)) = c + log[c].len
    BY <1>0, TypeFacts DEF Stored, EndOf
  <2> QED BY <1>2, <2>1
<1>9. \A w \in Active :
         prod[w].off + prod[w].len <= consume_offset \/ ConsumeEnd <= prod[w].off
  BY <1>2 DEF EndOf
<1> QED BY <1>1, <1>2, <1>3, <1>5, <1>6, <1>7, <1>8, <1>9

(***************************************************************************)
(* The callback gets exactly the clean elements of the range, in order.    *)
(***************************************************************************)
LEMMA TakenIs ==
    ASSUME IInv, call = "tx"
    PROVE  consume_in_progress /\ AllBetween(Taken, consume_offset, ConsumeEnd)
<1>0. Types /\ BlocksInv /\ LinesInv /\ log \in [Offsets -> Cachelines]
  BY DEF IInv, Types
<1>1. consume_in_progress
  BY DEF IInv, ConsumeInv
<1> DEFINE f == consume_offset
           t == ConsumeEnd
<1>2. /\ f \in 0 .. Space /\ t \in 0 .. Space /\ f < t /\ f <= t
      /\ \A c \in Firsts :
            c + log[c].len <= f \/ t <= c \/ (f <= c /\ c + log[c].len <= t)
  <2>1. f \in 0 .. Space - 1 /\ t \in 1 .. Space /\ f < t
        /\ \A c \in Firsts :
              c + log[c].len <= f \/ t <= c \/ (f <= c /\ c + log[c].len <= t)
    BY <1>1, ConsumeRange
  <2> HIDE DEF f, t
  <2> QED BY <2>1, Constants
<1>3. ring.written = f /\ Fits(ring, Blocks)
  BY <1>1, ConsumeRange
<1> HIDE DEF f, t
<1>4. \A c \in Firsts : c \in 0 .. Space - 1 /\ log[c].len \in 1 .. Space
  BY <1>0, TypeFacts
<1>5. NotWithin(f)
  <2> SUFFICES ASSUME NEW d \in Firsts, d < f, f < d + log[d].len PROVE FALSE
    BY DEF NotWithin
  <2>1. PICK l \in 1 .. Space : l = log[d].len
    BY <1>4
  <2>2. d \in 0 .. Space - 1 /\ (d + l <= f \/ t <= d \/ (f <= d /\ d + l <= t))
    BY <1>2, <1>4, <2>1
  <2> QED BY <1>2, <2>1, <2>2, Constants
<1>6. ASSUME NEW d \in Firsts, f <= d, d < t PROVE d + log[d].len <= t
  <2>1. PICK l \in 1 .. Space : l = log[d].len
    BY <1>4
  <2>2. d \in 0 .. Space - 1 /\ (d + l <= f \/ t <= d \/ (f <= d /\ d + l <= t))
    BY <1>2, <1>4, <2>1
  <2>3. d + l <= t
    BY <1>2, <1>6, <2>1, <2>2, Constants
  <2> QED BY <2>1, <2>3
<1>7. ASSUME NEW c \in Firsts, NEW d \in Firsts, f <= c, c < d, d < t
      PROVE  log[c].elem < log[d].elem
  <2>1. /\ Stored(c) \in Blocks /\ Stored(c).off = c /\ Stored(c).elem = log[c].elem
        /\ Stored(d) \in Blocks /\ Stored(d).off = d /\ Stored(d).elem = log[d].elem
    BY <1>0, TypeFacts DEF Stored
  <2>2. Before(ring, Stored(c), Stored(d))
    BY <1>3, <1>7, <2>1 DEF Before
  <2> QED BY <1>3, <2>1, <2>2 DEF Fits
<1>8. AllBetween(Batch(f, t), f, t)
  BY <1>0, <1>2, <1>5, <1>6, <1>7, BatchIsAllBetween
<1>9. Taken = Batch(f, t)
  BY DEF Taken, f, t, ConsumeEnd
<1> QED BY <1>1, <1>8, <1>9 DEF f, t

LEMMA ConcatIs ==
    ASSUME NEW S, NEW s \in Seq(S), NEW t \in Seq(S)
    PROVE  /\ s \o t \in Seq(S)
           /\ DOMAIN s = 1 .. Len(s) /\ Len(s) \in Nat /\ Len(t) \in Nat
           /\ DOMAIN (s \o t) = 1 .. Len(s) + Len(t)
           /\ \A i \in 1 .. Len(s) : (s \o t)[i] = s[i]
           /\ \A i \in 1 .. Len(s) + Len(t) : i > Len(s) =>
                 i - Len(s) \in 1 .. Len(t) /\ (s \o t)[i] = t[i - Len(s)]
           /\ \A i \in 1 .. Len(t) :
                 Len(s) + i \in 1 .. Len(s) + Len(t) /\ (s \o t)[Len(s) + i] = t[i]
<1>1. /\ s \o t \in Seq(S) /\ Len(s \o t) = Len(s) + Len(t)
      /\ \A i \in 1 .. Len(s) + Len(t) : (s \o t)[i] =
            IF i <= Len(s) THEN s[i] ELSE t[i - Len(s)]
  BY ConcatProperties
<1>2. DOMAIN s = 1 .. Len(s) /\ Len(s) \in Nat /\ Len(t) \in Nat
  BY LenProperties
<1>3. DOMAIN (s \o t) = 1 .. Len(s \o t)
  BY <1>1, LenProperties
<1>4. \A i \in 1 .. Len(s) : (s \o t)[i] = s[i]
  BY <1>1, <1>2
<1>5. \A i \in 1 .. Len(s) + Len(t) : i > Len(s) =>
         i - Len(s) \in 1 .. Len(t) /\ (s \o t)[i] = t[i - Len(s)]
  BY <1>1, <1>2
<1>6. ASSUME NEW i \in 1 .. Len(t)
      PROVE  Len(s) + i \in 1 .. Len(s) + Len(t) /\ (s \o t)[Len(s) + i] = t[i]
  <2>1. Len(s) + i \in 1 .. Len(s) + Len(t) /\ Len(s) + i > Len(s) /\ (Len(s) + i) - Len(s) = i
    BY <1>2
  <2> QED BY <1>5, <2>1
<1> QED BY <1>1, <1>2, <1>3, <1>4, <1>5, <1>6

(***************************************************************************)
(* Clearing the range takes out whole blocks, none of a producer.          *)
(***************************************************************************)
LEMMA ClearLines ==
    ASSUME IInv, consume_in_progress, UNCHANGED prod, log' = Cleared(consume_offset, consume_len)
    PROVE  /\ log' \in [Offsets -> Cachelines]
           /\ \A c \in consume_offset .. ConsumeEnd - 1 : log'[c] = Zeroed
           /\ \A c \in Firsts : c < consume_offset \/ ConsumeEnd <= c =>
                 c \in Firsts' /\ log'[c] = log[c]
           /\ LinesInv' /\ (\A w \in Workers : StoresInv(w)')
           /\ Active' = Active /\ Blocks' \subseteq Blocks
           /\ \A b \in Blocks' : b.off < consume_offset \/ ConsumeEnd <= b.off
<1> DEFINE f == consume_offset
           t == ConsumeEnd
<1>0. Types /\ BlocksInv /\ LinesInv
  BY DEF IInv
<1>1. /\ f \in 0 .. Space - 1 /\ t \in 1 .. Space /\ f < t
      /\ t = f + consume_len
      /\ \A c \in Firsts :
            c + log[c].len <= f \/ t <= c \/ (f <= c /\ c + log[c].len <= t)
      /\ \A w \in Active : prod[w].off + prod[w].len <= f \/ t <= prod[w].off
  BY ConsumeRange
<1>2. log' = [c \in Offsets |-> IF c \in f .. t - 1 THEN Zeroed ELSE log[c]]
  <2>1. log' = [c \in Offsets |-> IF c \in f .. f + consume_len - 1 THEN Zeroed ELSE log[c]]
    BY DEF Cleared
  <2> HIDE DEF f, t
  <2>2. f + consume_len = t
    BY <1>1
  <2>3. f .. f + consume_len - 1 = f .. t - 1
    <3>1. f \in Int /\ t \in Int /\ consume_len \in Int
      BY <1>0, <1>1, Constants DEF Types
    <3> QED BY <2>2, <3>1
  <2> QED BY <2>1, <2>3
<1> HIDE DEF f, t
<1>3. f \in Int /\ t \in Int
  BY <1>1
<1>4. log' \in [Offsets -> Cachelines]
  <2>1. Zeroed \in Cachelines
    BY DEF Cachelines
  <2> QED BY <1>0, <1>2, <2>1 DEF Types
<1>5. \A c \in f .. t - 1 : c \in Offsets /\ log'[c] = Zeroed
  <2>1. \A c \in f .. t - 1 : c \in Offsets
    BY <1>1, Constants
  <2> QED BY <1>2, <2>1
<1>6. \A c \in Offsets : c < f \/ t <= c => log'[c] = log[c]
  BY <1>1, <1>2, Constants
<1>7. ASSUME NEW c \in Firsts, c < f \/ t <= c
      PROVE  /\ c \in Firsts' /\ log'[c] = log[c] /\ log[c].len \in 1 .. Space
             /\ c \in 0 .. Space - 1 /\ c + log[c].len <= Space
             /\ c + log[c].len <= f \/ t <= c
  <2>1. c \in Offsets /\ c \in 0 .. Space - 1 /\ log[c].len \in 1 .. Space /\ log[c].kind = "first"
        /\ c + log[c].len <= Space
    BY <1>0, TypeFacts, BlocksApart DEF Firsts
  <2>2. log'[c] = log[c]
    BY <1>6, <1>7, <2>1
  <2>3. c + log[c].len <= f \/ t <= c
    BY <1>1, <1>7, <2>1
  <2> QED BY <2>1, <2>2, <2>3 DEF Firsts
<1>8. ASSUME NEW c \in Firsts'
      PROVE  c \in Firsts /\ (c < f \/ t <= c)
  <2>1. c \in Offsets /\ log'[c].kind = "first"
    BY DEF Firsts
  <2>2. c \notin f .. t - 1
    BY <1>5, <2>1 DEF Zeroed
  <2>3. c < f \/ t <= c
    BY <1>1, <2>1, <2>2, Constants
  <2> QED BY <1>6, <2>1, <2>3 DEF Firsts
<1>9. LinesInv'
  <2>1. ASSUME NEW c \in Firsts', NEW i, i \in c + 1 .. c + log'[c].len - 1
        PROVE  log'[i] = Rest(log'[c].elem) \/ (log'[c].dirty /\ log'[i] = Zeroed)
    <3>1. /\ c \in Firsts /\ log'[c] = log[c] /\ c \in 0 .. Space - 1 /\ log[c].len \in 1 .. Space
          /\ c + log[c].len <= Space /\ (c + log[c].len <= f \/ t <= c)
      BY <1>7, <1>8
    <3>2. i \in c + 1 .. c + log[c].len - 1
      BY <2>1, <3>1
    <3>3. PICK l \in 1 .. Space : l = log[c].len
      BY <3>1
    <3>4. i \in 0 .. Space - 1 /\ (i < f \/ t <= i)
      <4>1. i \in Int /\ c + 1 <= i /\ i <= c + l - 1
        BY <3>1, <3>2, <3>3
      <4>2. c + l <= Space /\ (c + l <= f \/ t <= c)
        BY <3>1, <3>3
      <4>3. c \in Int /\ 0 <= c
        BY <3>1
      <4> QED BY <1>3, <4>1, <4>2, <4>3, Constants
    <3>5. log'[i] = log[i]
      BY <1>6, <3>4, Constants
    <3> QED BY <1>0, <3>1, <3>2, <3>5 DEF LinesInv
  <2>2. ASSUME NEW i \in Offsets, log'[i].kind = "rest"
        PROVE  \E c \in Firsts' : c < i /\ i < c + log'[c].len
    <3>1. i \notin f .. t - 1
      BY <1>5, <2>2 DEF Zeroed
    <3>2. (i < f \/ t <= i) /\ i \in 0 .. Space - 1
      BY <1>1, <3>1, Constants
    <3>3. log[i].kind = "rest"
      BY <1>6, <2>2, <3>2
    <3>4. PICK c \in Firsts : c < i /\ i < c + log[c].len
      BY <1>0, <3>3 DEF LinesInv
    <3>5. c < f \/ t <= c
      <4>1. PICK l \in 1 .. Space : l = log[c].len
        BY <1>0, TypeFacts
      <4>2. c \in 0 .. Space - 1
        BY <1>0, TypeFacts
      <4>3. c + l <= f \/ t <= c \/ (f <= c /\ c + l <= t)
        BY <1>1, <4>1
      <4> QED BY <1>1, <3>2, <3>4, <4>1, <4>2, <4>3
    <3> QED BY <1>7, <3>4, <3>5
  <2> QED BY <2>1, <2>2 DEF LinesInv
<1>10. Active' = Active
  BY DEF Active
<1>11. ASSUME NEW w \in Workers PROVE StoresInv(w)'
  <2>0. StoresInv(w)
    BY DEF IInv
  <2>1. CASE w \in Active
    <3>1. /\ prod[w].off \in 0 .. Space - 1 /\ prod[w].len \in 1 .. Space
          /\ prod[w].off + prod[w].len <= Space
          /\ prod[w].off + prod[w].len <= f \/ t <= prod[w].off
      BY <1>0, <1>1, <2>1, TypeFacts, BlocksApart
    <3>2. PICK o \in 0 .. Space - 1, l \in 1 .. Space : o = prod[w].off /\ l = prod[w].len
      BY <3>1
    <3>3. \A i \in o .. o + l - 1 : i \in Offsets /\ (i < f \/ t <= i)
      <4>1. o + l <= Space /\ (o + l <= f \/ t <= o)
        BY <3>1, <3>2
      <4>2. Offsets = 0 .. Space - 1
        BY Constants
      <4> HIDE DEF f, t
      <4> QED BY <1>3, <4>1, <4>2, Constants
    <3>4. \A i \in o .. o + l - 1 : log'[i] = log[i]
      BY <1>6, <3>3
    <3>5. log'[prod[w].off] = log[prod[w].off]
      BY <3>2, <3>4
    <3>6. \A i \in prod[w].off + 1 .. prod[w].off + prod[w].len - 1 : log'[i] = log[i]
      BY <3>2, <3>4
    <3> QED BY <1>10, <2>0, <3>5, <3>6 DEF StoresInv, FirstBlock
  <2>2. CASE w \notin Active
    BY <2>2 DEF StoresInv, Active
  <2> QED BY <2>1, <2>2
<1>12. ASSUME NEW b \in Blocks'
       PROVE  b \in Blocks /\ (b.off < f \/ t <= b.off)
  <2>1. CASE \E c \in Firsts' : b = Stored(c)'
    <3>1. PICK c \in Firsts' : b = Stored(c)'
      BY <2>1
    <3>2. c \in Firsts /\ (c < f \/ t <= c) /\ log'[c] = log[c]
      BY <1>7, <1>8
    <3>3. b = Stored(c) /\ b.off = c
      BY <3>1, <3>2 DEF Stored
    <3> QED BY <1>0, <3>2, <3>3, TypeFacts
  <2>2. CASE \E w \in Active : b = Claimed(w)'
    <3>1. PICK w \in Active : b = Claimed(w)'
      BY <2>2
    <3>2. b = Claimed(w) /\ b.off = prod[w].off
      BY <3>1 DEF Claimed
    <3>3. /\ prod[w].off \in 0 .. Space - 1 /\ prod[w].len \in 1 .. Space
          /\ prod[w].off + prod[w].len <= f \/ t <= prod[w].off
      BY <1>0, <1>1, TypeFacts
    <3>4. prod[w].off < f \/ t <= prod[w].off
      BY <1>1, <3>3
    <3> QED BY <1>0, <3>2, <3>4, TypeFacts
  <2> QED BY <1>10, <2>1, <2>2 DEF Blocks
<1> QED BY <1>4, <1>5, <1>7, <1>9, <1>10, <1>11, <1>12 DEF f, t

(***************************************************************************)
(* The transaction of the consumer commits: elements are appended that     *)
(* come after those consumed before and before those that remain.          *)
(***************************************************************************)
LEMMA CommitStep ==
    ASSUME IInv, consume_commit
    PROVE  IInv'
<1> DEFINE f == consume_offset
           t == ConsumeEnd
           s == Taken
<1>0. Types /\ BlocksInv /\ ConsumeInv /\ OrderInv /\ CompletedInv
  BY DEF IInv
<1>1. /\ call = "tx" /\ call' = "release" /\ consumed' = consumed \o s
      /\ log' = Cleared(consume_offset, consume_len)
      /\ pmem_written' = Released(consume_offset, consume_len)
      /\ UNCHANGED <<up, ring, seen_off, prod, consume_in_progress, consume_offset, consume_len,
                     iteration, acquired, completed>>
  BY DEF consume_commit
<1>2. consume_in_progress /\ AllBetween(s, f, t)
  BY <1>1, TakenIs
<1>3. /\ up /\ ring \in Rings /\ TheRing = ring /\ Fits(ring, Blocks)
      /\ f \in 0 .. Space - 1 /\ t \in 1 .. Space /\ f < t /\ f = ring.written
      /\ pmem_written' \in Offsets
  BY <1>1, <1>2, ConsumeRange
<1>4. /\ log' \in [Offsets -> Cachelines]
      /\ \A c \in f .. t - 1 : log'[c] = Zeroed
      /\ \A c \in Firsts : c < f \/ t <= c => c \in Firsts' /\ log'[c] = log[c]
      /\ LinesInv' /\ (\A w \in Workers : StoresInv(w)')
      /\ Active' = Active /\ Blocks' \subseteq Blocks
      /\ \A b \in Blocks' : b.off < f \/ t <= b.off
  BY <1>1, <1>2, ClearLines
<1>5. TheRing' = ring /\ ConsumeEnd' = t
  BY <1>1, <1>3 DEF TheRing, ConsumeEnd
<1> HIDE DEF f, t, s
<1>6. Types'
  BY <1>0, <1>1, <1>3, <1>4 DEF Types
<1>7. BlocksInv'
  <2>1. Fits(TheRing', Blocks')
    BY <1>3, <1>4, <1>5, FewerFit
  <2> QED BY <1>0, <1>1, <1>4, <2>1 DEF BlocksInv
<1>8. \A w \in Workers : SeenInv(w)'
  BY <1>1, <1>4 DEF IInv, SeenInv
<1>9. ConsumeInv'
  BY <1>0, <1>1, <1>2, <1>3, <1>4, <1>5 DEF ConsumeInv, f, t
<1>10. ASSUME NEW i \in 1 .. Len(s)
       PROVE  /\ s[i] \in Nat /\ s[i] <= acquired
              /\ \A j \in DOMAIN consumed : consumed[j] < s[i]
              /\ \A b \in Blocks' : s[i] < b.elem
  <2>1. PICK d \in Firsts : f <= d /\ d < t /\ s[i] = log[d].elem
    BY <1>2 DEF AllBetween
  <2>2. /\ Stored(d) \in Blocks /\ Stored(d).elem = s[i] /\ Stored(d).off = d
        /\ d \in 0 .. Space - 1 /\ s[i] \in Elements
    BY <1>0, <2>1, TypeFacts DEF Stored
  <2>3. ASSUME NEW b \in Blocks' PROVE s[i] < b.elem
    <3>1. b \in Blocks /\ (b.off < f \/ t <= b.off) /\ b.off \in 0 .. Space - 1
      BY <1>0, <1>4, TypeFacts, BlockBounds
    <3>2. Before(ring, Stored(d), b)
      BY <1>3, <2>1, <2>2, <3>1 DEF Before
    <3> QED BY <1>3, <2>2, <3>1, <3>2 DEF Fits
  <2> QED BY <1>0, <2>2, <2>3, Constants DEF OrderInv
<1>11. /\ consumed \in Seq(Elements) /\ s \in Seq(Elements)
  BY <1>0, <1>2 DEF OrderInv, AllBetween
<1>12. /\ consumed' \in Seq(Elements) /\ DOMAIN consumed = 1 .. Len(consumed)
       /\ Len(consumed) \in Nat /\ Len(s) \in Nat
       /\ DOMAIN consumed' = 1 .. Len(consumed) + Len(s)
       /\ \A i \in 1 .. Len(consumed) : consumed'[i] = consumed[i]
       /\ \A i \in 1 .. Len(consumed) + Len(s) : i > Len(consumed) =>
             i - Len(consumed) \in 1 .. Len(s) /\ consumed'[i] = s[i - Len(consumed)]
       /\ \A i \in 1 .. Len(s) :
             Len(consumed) + i \in 1 .. Len(consumed) + Len(s)
             /\ consumed'[Len(consumed) + i] = s[i]
  BY <1>1, <1>11, ConcatIs
<1>13. ASSUME NEW i \in DOMAIN consumed'
       PROVE  \/ i \in DOMAIN consumed /\ consumed'[i] = consumed[i]
              \/ /\ i > Len(consumed) /\ i - Len(consumed) \in 1 .. Len(s)
                 /\ consumed'[i] = s[i - Len(consumed)]
  BY <1>12
<1>14. OrderInv'
  <2>1. \A b \in Blocks' : b.elem <= acquired'
    BY <1>0, <1>1, <1>4 DEF OrderInv
  <2>2. \A i \in DOMAIN consumed' : consumed'[i] <= acquired'
    BY <1>0, <1>1, <1>10, <1>13 DEF OrderInv
  <2>3. \A i \in DOMAIN consumed', b \in Blocks' : consumed'[i] < b.elem
    BY <1>0, <1>4, <1>10, <1>13 DEF OrderInv
  <2>4. ASSUME NEW i \in DOMAIN consumed', NEW j \in DOMAIN consumed', i < j
        PROVE  consumed'[i] < consumed'[j]
    <3>0. i \in Nat /\ j \in Nat
      BY <1>12
    <3>1. CASE j <= Len(consumed)
      <4>1. i \in DOMAIN consumed /\ j \in DOMAIN consumed
        BY <1>12, <2>4, <3>0, <3>1
      <4> QED BY <1>0, <1>12, <2>4, <4>1 DEF OrderInv, ConsumedInOrder
    <3>2. CASE i <= Len(consumed) /\ Len(consumed) < j
      <4>1. i \in DOMAIN consumed /\ consumed'[i] = consumed[i]
        BY <1>12, <3>0, <3>2
      <4>2. j - Len(consumed) \in 1 .. Len(s) /\ consumed'[j] = s[j - Len(consumed)]
        BY <1>12, <3>2
      <4> QED BY <1>10, <4>1, <4>2
    <3>3. CASE Len(consumed) < i
      <4>1. Len(consumed) < j
        BY <1>12, <2>4, <3>0, <3>3
      <4>2. /\ i - Len(consumed) \in 1 .. Len(s) /\ consumed'[i] = s[i - Len(consumed)]
            /\ j - Len(consumed) \in 1 .. Len(s) /\ consumed'[j] = s[j - Len(consumed)]
        BY <1>12, <3>3, <4>1
      <4>3. i - Len(consumed) < j - Len(consumed)
        BY <1>12, <2>4, <3>0
      <4> QED BY <1>2, <4>2, <4>3 DEF AllBetween
    <3> QED BY <1>12, <3>0, <3>1, <3>2, <3>3
  <2>5. ConsumedInOrder'
    BY <2>4 DEF ConsumedInOrder
  <2> QED BY <1>12, <2>1, <2>2, <2>3, <2>5 DEF OrderInv
<1>15. CompletedInv'
  <2> SUFFICES ASSUME EmptyElements = {}, NEW e \in completed, e \notin ToSet(consumed')
               PROVE  \E c \in Firsts' : log'[c].elem = e /\ ~log'[c].dirty
    BY <1>1 DEF CompletedInv
  <2>1. \A i \in DOMAIN consumed' : consumed'[i] # e
    BY DEF ToSet
  <2>2. e \notin ToSet(consumed)
    <3>1. ASSUME NEW i \in DOMAIN consumed PROVE consumed[i] # e
      <4>1. i \in DOMAIN consumed' /\ consumed'[i] = consumed[i]
        BY <1>12
      <4> QED BY <2>1, <4>1
    <3> QED BY <3>1 DEF ToSet
  <2>3. PICK c \in Firsts : log[c].elem = e /\ ~log[c].dirty
    BY <1>0, <2>2 DEF CompletedInv
  <2>4. ~(f <= c /\ c < t)
    <3> SUFFICES ASSUME f <= c /\ c < t PROVE FALSE
      OBVIOUS
    <3>1. PICK i \in 1 .. Len(s) : s[i] = e
      BY <1>2, <2>3 DEF AllBetween
    <3> QED BY <1>12, <2>1, <3>1
  <2>5. c \in 0 .. Space - 1
    BY <1>0, TypeFacts
  <2>6. c < f \/ t <= c
    BY <1>3, <2>4, <2>5
  <2> QED BY <1>4, <2>3, <2>6
<1> QED BY <1>4, <1>6, <1>7, <1>8, <1>9, <1>14, <1>15 DEF IInv

(***************************************************************************)
(* After the commit the range holds no block, so it can be released.       *)
(***************************************************************************)
LEMMA ReleasedRing ==
    ASSUME IInv, call = "release"
    PROVE  LET q == Release(ring, consume_len)
           IN  /\ up /\ q \in Rings /\ Fits(q, Blocks) /\ q.written = pmem_written
               /\ q.end = ring.end /\ q.next = ring.next
               /\ ring.next < ring.written /\ ring.end < Space => ring.next < q.written
<1>0. Types /\ BlocksInv /\ ConsumeInv
  BY DEF IInv
<1>1. /\ consume_in_progress /\ pmem_written = Released(consume_offset, consume_len)
      /\ \A c \in consume_offset .. ConsumeEnd - 1 : log[c] = Zeroed
  BY <1>0 DEF ConsumeInv
<1>2. /\ up /\ ring \in Rings /\ Fits(ring, Blocks)
      /\ consume_offset \in 0 .. Space - 1 /\ consume_len \in 1 .. Space
      /\ ConsumeEnd = consume_offset + consume_len /\ ConsumeEnd \in 1 .. Space
      /\ ConsumeEnd <= Upper(ring)
      /\ consume_offset = ring.written
      /\ \A c \in Firsts :
            \/ c + log[c].len <= consume_offset \/ ConsumeEnd <= c
            \/ consume_offset <= c /\ c + log[c].len <= ConsumeEnd
      /\ \A w \in Active :
            prod[w].off + prod[w].len <= consume_offset \/ ConsumeEnd <= prod[w].off
  BY <1>1, ConsumeRange
<1>3. ASSUME NEW c \in Firsts
      PROVE  c + log[c].len <= consume_offset \/ ConsumeEnd <= c
  <2>1. c \in 0 .. Space - 1 /\ log[c] # Zeroed
    BY <1>0, TypeFacts DEF Firsts, Zeroed
  <2>2. c \notin consume_offset .. ConsumeEnd - 1
    BY <1>1, <2>1
  <2>3. ~(consume_offset <= c) \/ ConsumeEnd <= c
    BY <1>2, <2>1, <2>2
  <2> QED BY <1>2, <2>3
<1>4. ASSUME NEW b \in Blocks
      PROVE  EndOf(b) <= ring.written \/ ring.written + consume_len <= b.off
  <2>1. CASE \E c \in Firsts : b = Stored(c)
    <3>1. PICK c \in Firsts : b = Stored(c)
      BY <2>1
    <3>2. EndOf(b) = c + log[c].len /\ b.off = c
      BY <3>1 DEF Stored, EndOf
    <3> QED BY <1>2, <1>3, <3>2
  <2>2. CASE \E w \in Active : b = Claimed(w)
    <3>1. PICK w \in Active : b = Claimed(w)
      BY <2>2
    <3>2. EndOf(b) = prod[w].off + prod[w].len /\ b.off = prod[w].off
      BY <3>1 DEF Claimed, EndOf
    <3> QED BY <1>2, <3>2
  <2> QED BY <2>1, <2>2 DEF Blocks
<1>5. Blocks \in SUBSET BlockSet /\ ring.written + consume_len <= Upper(ring)
  BY <1>0, <1>2, TypeFacts
<1> QED BY <1>1, <1>2, <1>4, <1>5, ReleaseFits

LEMMA ReleaseStep ==
    ASSUME IInv, release_cachelines
    PROVE  IInv'
<1> DEFINE q == Release(ring, consume_len)
<1>0. Types /\ BlocksInv /\ ConsumeInv
  BY DEF IInv
<1>1. /\ call = "release" /\ ring' = q /\ ~consume_in_progress' /\ consume_in_progress' = FALSE
      /\ iteration' = 1 - iteration /\ call' \in {"begin", "none"}
      /\ UNCHANGED <<log, pmem_written, up, seen_off, prod, consume_offset, consume_len,
                     acquired, completed, consumed>>
  BY DEF release_cachelines, persistentVars, historyVars
<1>2. /\ up /\ q \in Rings /\ Fits(q, Blocks)
      /\ q.end = ring.end /\ q.next = ring.next
      /\ ring.next < ring.written /\ ring.end < Space => ring.next < q.written
  BY <1>1, ReleasedRing
<1> HIDE DEF q
<1>3. /\ Firsts' = Firsts /\ Active' = Active /\ Blocks' = Blocks
      /\ LinesInv' /\ \A w \in Workers : StoresInv(w)'
  BY <1>1, LogFrame
<1>4. Types'
  <2>1. iteration' \in 0 .. 1
    BY <1>0, <1>1 DEF Types
  <2> QED BY <1>0, <1>1, <1>2, <1>3, <2>1 DEF Types
<1>5. BlocksInv'
  BY <1>0, <1>1, <1>2, <1>3 DEF BlocksInv, TheRing
<1>6. \A w \in Workers : SeenInv(w)'
  BY <1>1, <1>2, <1>3 DEF IInv, SeenInv
<1>7. ConsumeInv'
  BY <1>1, <1>2 DEF ConsumeInv
<1>8. OrderInv'
  BY <1>1, <1>3 DEF IInv, OrderInv, ConsumedInOrder
<1>9. CompletedInv'
  BY <1>1, <1>3, CleanKept
<1> QED BY <1>3, <1>4, <1>5, <1>6, <1>7, <1>8, <1>9 DEF IInv

-----------------------------------------------------------------------------
(***************************************************************************)
(* The end of a process and the start of the next one.                     *)
(***************************************************************************)
LEMMA NoProcess ==
    ASSUME IInv, NEW r \in Rings, Volatile(r), log' \in [Offsets -> Cachelines],
           up' \in BOOLEAN, UNCHANGED <<pmem_written, historyVars>>
    PROVE  /\ Types' /\ Active' = {} /\ ~consume_in_progress' /\ call' = "none"
           /\ \A w \in Workers : StoresInv(w)' /\ SeenInv(w)'
<1>0. Types
  BY DEF IInv
<1>1. /\ ring' = r /\ seen_off' = [w \in Workers |-> RBUF_OFF_MAX]
      /\ prod' = [w \in Workers |-> Idle] /\ consume_in_progress' = FALSE
      /\ consume_offset' = 0 /\ consume_len' = 0 /\ call' = "none" /\ iteration' = 0
  BY DEF Volatile
<1>2. \A w \in Workers : prod'[w] = Idle /\ prod'[w].pc = "idle" /\ seen_off'[w] = RBUF_OFF_MAX
  BY <1>1 DEF Idle
<1>3. Active' = {}
  BY <1>2 DEF Active
<1>4. Types'
  <2>1. Idle \in [pc : PCs, off : Offsets, len : ElementLengths \cup {0}, elem : Elements \cup {Junk}]
    BY Constants DEF Idle, PCs
  <2>2. prod' \in [Workers -> [pc : PCs, off : Offsets, len : ElementLengths \cup {0},
                               elem : Elements \cup {Junk}]]
    BY <1>1, <2>1
  <2>3. 0 \in Offsets /\ 0 \in 0 .. Space /\ 0 \in 0 .. 1
    BY Constants
  <2>4. seen_off' \in [Workers -> Offsets \cup {RBUF_OFF_MAX}]
    BY <1>1
  <2> QED BY <1>0, <1>1, <1>3, <2>2, <2>3, <2>4 DEF Types, historyVars
<1>5. \A w \in Workers : StoresInv(w)' /\ SeenInv(w)'
  BY <1>2, <1>3 DEF StoresInv, SeenInv
<1> QED BY <1>1, <1>3, <1>4, <1>5

(***************************************************************************)
(* A crash loses cachelines of dirty elements only; the elements that are  *)
(* left fit the offsets that the next process restores.                    *)
(***************************************************************************)
LEMMA CrashStep ==
    ASSUME ~StaleWrapRestart, IInv, Crash
    PROVE  IInv'
<1>0. Types /\ BlocksInv /\ LinesInv /\ ConsumeInv /\ OrderInv
  BY DEF IInv
<1>1. /\ up /\ ~Lagging /\ up' = FALSE /\ Volatile(NewRing)
      /\ UNCHANGED <<pmem_written, historyVars>>
      /\ UNCHANGED <<pmem_written, acquired, completed, consumed>>
  BY DEF Crash, historyVars
<1>2. PICK lost \in SUBSET Undrained :
         log' = [c \in Offsets |-> IF c \in lost THEN Zeroed ELSE log[c]]
  BY DEF Crash
<1>3. ASSUME NEW i \in lost
      PROVE  \E w \in Active :
                /\ i \in prod[w].off + 1 .. prod[w].off + prod[w].len - 1
                /\ log[i].kind = "rest" /\ log[prod[w].off] = First(prod[w].elem, prod[w].len, TRUE)
  <2>1. PICK w \in Workers : prod[w].pc = "rest"
                             /\ i \in prod[w].off + 1 .. prod[w].off + prod[w].len - 1
    BY DEF Undrained
  <2>2. StoresInv(w)
    BY DEF IInv
  <2>3. log[i] = Rest(prod[w].elem) /\ log[prod[w].off] = First(prod[w].elem, prod[w].len, TRUE)
    BY <2>1, <2>2 DEF StoresInv, FirstBlock
  <2>4. log[i].kind = "rest" /\ w \in Active
    BY <2>1, <2>3 DEF Rest, Active
  <2> QED BY <2>1, <2>3, <2>4
<1>4. /\ log' \in [Offsets -> Cachelines]
      /\ \A c \in Offsets : log'[c] = IF c \in lost THEN Zeroed ELSE log[c]
  <2>1. Zeroed \in Cachelines
    BY DEF Cachelines
  <2> QED BY <1>0, <1>2, <2>1 DEF Types
<1>5. Firsts' = Firsts /\ \A c \in Firsts : log'[c] = log[c]
  <2>1. ASSUME NEW c \in Firsts PROVE c \in Offsets /\ c \notin lost /\ log[c].kind = "first"
    <3>1. c \in Offsets /\ log[c].kind = "first"
      BY DEF Firsts
    <3> QED BY <1>3, <3>1
  <2>2. ASSUME NEW c \in Firsts' PROVE c \in Firsts
    <3>1. c \in Offsets /\ log'[c].kind = "first"
      BY DEF Firsts
    <3>2. c \notin lost
      BY <1>4, <3>1 DEF Zeroed
    <3> QED BY <1>4, <3>1, <3>2 DEF Firsts
  <2>3. ASSUME NEW c \in Firsts PROVE log'[c] = log[c] /\ c \in Firsts'
    <3>1. log'[c] = log[c]
      BY <1>4, <2>1
    <3> QED BY <2>1, <3>1 DEF Firsts
  <2> QED BY <2>2, <2>3
<1>6. LinesInv'
  <2>1. ASSUME NEW c \in Firsts', NEW i, i \in c + 1 .. c + log'[c].len - 1
        PROVE  log'[i] = Rest(log'[c].elem) \/ (log'[c].dirty /\ log'[i] = Zeroed)
    <3>1. c \in Firsts /\ log'[c] = log[c] /\ i \in c + 1 .. c + log[c].len - 1
      BY <1>5, <2>1
    <3>2. c \in 0 .. Space - 1 /\ log[c].len \in 1 .. Space /\ c + log[c].len <= Space
      BY <1>0, <3>1, TypeFacts, BlocksApart
    <3>3. PICK l \in 1 .. Space : l = log[c].len
      BY <3>2
    <3>4. i \in Int /\ c + 1 <= i /\ i <= c + l - 1 /\ c + l <= Space
      BY <3>1, <3>2, <3>3
    <3>5. i \in Offsets
      BY <3>2, <3>4, Constants
    <3>6. log[i] = Rest(log[c].elem) \/ (log[c].dirty /\ log[i] = Zeroed)
      BY <1>0, <3>1 DEF LinesInv
    <3>7. CASE i \notin lost
      BY <1>4, <3>1, <3>5, <3>6, <3>7
    <3>8. CASE i \in lost
      <4>1. PICK w \in Active :
               /\ i \in prod[w].off + 1 .. prod[w].off + prod[w].len - 1
               /\ log[prod[w].off] = First(prod[w].elem, prod[w].len, TRUE)
        BY <1>3, <3>8
      <4>2. PICK o \in 0 .. Space - 1, m \in 1 .. Space : o = prod[w].off /\ m = prod[w].len
        BY <1>0, TypeFacts
      <4>3. o + 1 <= i /\ i <= o + m - 1
        BY <4>1, <4>2
      <4>4. c + l <= o \/ o + m <= c \/ c = o
        BY <1>0, <3>1, <3>3, <4>2, BlocksApart
      <4>5. c = o
        BY <3>2, <3>4, <4>2, <4>3, <4>4
      <4>6. log[c].dirty
        BY <4>1, <4>2, <4>5 DEF First
      <4> QED BY <1>4, <3>1, <3>5, <3>8, <4>6
    <3> QED BY <3>7, <3>8
  <2>2. ASSUME NEW i \in Offsets, log'[i].kind = "rest"
        PROVE  \E c \in Firsts' : c < i /\ i < c + log'[c].len
    <3>1. log[i].kind = "rest"
      BY <1>4, <2>2 DEF Zeroed
    <3>2. PICK c \in Firsts : c < i /\ i < c + log[c].len
      BY <1>0, <3>1 DEF LinesInv
    <3> QED BY <1>5, <3>2
  <2> QED BY <2>1, <2>2 DEF LinesInv
<1>7. NewRing \in Rings /\ up' \in BOOLEAN
  <2>1. NewRing \in Rings
    BY Constants DEF NewRing, Rings
  <2>2. up' \in BOOLEAN
    BY <1>1
  <2> QED BY <2>1, <2>2
<1>8. /\ Types' /\ Active' = {} /\ ~consume_in_progress' /\ call' = "none"
      /\ \A w \in Workers : StoresInv(w)' /\ SeenInv(w)'
  BY <1>1, <1>4, <1>7, NoProcess
<1>9. Blocks' \subseteq Blocks
  <2>1. \A c \in Firsts : Stored(c)' = Stored(c)
    BY <1>5 DEF Stored
  <2> QED BY <1>5, <1>8, <2>1 DEF Blocks
<1>10. Fits(RestoredRing(pmem_written), Blocks)
  <2>0. Blocks \in SUBSET BlockSet
    BY <1>0, TypeFacts
  <2>1. CASE call = "release"
    <3>1. PICK q \in Rings : Fits(q, Blocks) /\ q.written = pmem_written
      BY <2>1, ReleasedRing
    <3> QED BY <2>0, <3>1, RestoreFits
  <2>2. CASE call # "release"
    <3>1. ring.written = pmem_written
      BY <1>1, <2>2 DEF Lagging
    <3>2. ring \in Rings /\ Fits(ring, Blocks)
      BY <1>0, <1>1 DEF Types, BlocksInv, TheRing
    <3> QED BY <2>0, <3>1, <3>2, RestoreFits
  <2> QED BY <2>1, <2>2
<1>11. BlocksInv'
  <2>1. TheRing' = RestoredRing(pmem_written)
    BY <1>1 DEF TheRing, RestoredRing
  <2>2. Fits(TheRing', Blocks')
    BY <1>9, <1>10, <2>1, FewerFit
  <2> QED BY <1>8, <2>2 DEF BlocksInv
<1>12. ConsumeInv'
  BY <1>1, <1>8 DEF ConsumeInv, Volatile
<1>13. OrderInv'
  BY <1>0, <1>1, <1>9 DEF OrderInv, ConsumedInOrder
<1>14. CompletedInv'
  BY <1>1, <1>5, CleanKept
<1> QED BY <1>6, <1>8, <1>11, <1>12, <1>13, <1>14 DEF IInv

LEMMA OpenStep ==
    ASSUME IInv, Open
    PROVE  IInv'
<1>0. Types /\ BlocksInv /\ LinesInv /\ ConsumeInv /\ OrderInv
  BY DEF IInv
<1>1. /\ ~up /\ up' = TRUE /\ Volatile(restore_offsets(pmem_written))
      /\ UNCHANGED <<pmem_written, historyVars>>
      /\ UNCHANGED <<log, acquired, completed, consumed>>
  BY DEF Open, persistentVars, historyVars
<1>2. /\ restore_offsets(pmem_written) = RestoredRing(pmem_written)
      /\ restore_offsets(pmem_written) \in Rings
  BY <1>0, RestoreOffsets DEF Types
<1>3. /\ Types' /\ Active' = {} /\ ~consume_in_progress' /\ call' = "none"
      /\ \A w \in Workers : StoresInv(w)' /\ SeenInv(w)'
  <2>1. log' \in [Offsets -> Cachelines] /\ up' \in BOOLEAN
    BY <1>0, <1>1 DEF Types
  <2> QED BY <1>1, <1>2, <2>1, NoProcess
<1>4. TheRing' = TheRing
  BY <1>1, <1>2 DEF TheRing, Volatile
<1>5. Firsts' = Firsts /\ LinesInv'
  BY <1>0, <1>1 DEF LinesInv, Firsts
<1>6. Blocks' \subseteq Blocks
  <2>1. \A c \in Firsts : Stored(c)' = Stored(c)
    BY <1>1 DEF Stored
  <2> QED BY <1>3, <1>5, <2>1 DEF Blocks
<1>7. BlocksInv'
  <2>1. Fits(TheRing, Blocks)
    BY <1>0 DEF BlocksInv
  <2>2. Fits(TheRing', Blocks')
    BY <1>4, <1>6, <2>1, FewerFit
  <2> QED BY <1>3, <2>2 DEF BlocksInv
<1>8. ConsumeInv'
  BY <1>1, <1>3 DEF ConsumeInv
<1>9. OrderInv'
  BY <1>0, <1>1, <1>6 DEF OrderInv, ConsumedInOrder
<1>10. CompletedInv'
  BY <1>1, <1>5, CleanKept
<1> QED BY <1>3, <1>5, <1>7, <1>8, <1>9, <1>10 DEF IInv

-----------------------------------------------------------------------------
(***************************************************************************)
(* The invariant.                                                          *)
(***************************************************************************)
LEMMA InitIInv ==
    ASSUME Init
    PROVE  IInv
<1>1. \A c \in Offsets : log[c] = Zeroed /\ log[c].kind = "zeroed"
  BY DEF Init, Zeroed
<1>2. \A w \in Workers : prod[w] = Idle /\ prod[w].pc = "idle" /\ seen_off[w] = RBUF_OFF_MAX
  BY DEF Init, Idle
<1>3. Firsts = {} /\ Active = {}
  BY <1>1, <1>2 DEF Firsts, Active
<1>4. Blocks = {}
  BY <1>3 DEF Blocks
<1>5. Types
  <2>1. Idle \in [pc : PCs, off : Offsets, len : ElementLengths \cup {0}, elem : Elements \cup {Junk}]
    BY Constants DEF Idle, PCs
  <2>2. prod \in [Workers -> [pc : PCs, off : Offsets, len : ElementLengths \cup {0},
                              elem : Elements \cup {Junk}]]
    BY <2>1 DEF Init
  <2>3. 0 \in Offsets /\ 0 \in 0 .. Space /\ 0 \in 0 .. 1 /\ 0 \in 0 .. MaxElements
    BY Constants
  <2>4. seen_off \in [Workers -> Offsets \cup {RBUF_OFF_MAX}]
    BY DEF Init
  <2>5. log \in [Offsets -> Cachelines]
    BY DEF Init, Cachelines
  <2>6. NewRing \in Rings
    BY Constants DEF NewRing, Rings
  <2> QED BY <1>3, <2>2, <2>3, <2>4, <2>5, <2>6 DEF Types, Init
<1>6. BlocksInv
  <2>1. TheRing = RestoredRing(0)
    BY DEF Init, TheRing
  <2>2. CutFits(RestoredRing(0))
    BY Constants DEF CutFits, RestoredRing
  <2> QED BY <1>3, <1>4, <2>1, <2>2 DEF BlocksInv, Fits
<1>7. LinesInv
  BY <1>1, <1>3 DEF LinesInv
<1>8. \A w \in Workers : StoresInv(w) /\ SeenInv(w)
  BY <1>2, <1>3 DEF StoresInv, SeenInv
<1>9. ConsumeInv
  BY <1>3 DEF ConsumeInv, Init
<1>10. OrderInv
  <2>1. consumed = << >> /\ DOMAIN consumed = {} /\ consumed \in Seq(Elements)
    BY DEF Init
  <2> QED BY <1>4, <2>1 DEF OrderInv, ConsumedInOrder
<1>11. CompletedInv
  BY DEF CompletedInv, Init
<1> QED BY <1>5, <1>6, <1>7, <1>8, <1>9, <1>10, <1>11 DEF IInv

LEMMA StutterIInv ==
    ASSUME IInv, UNCHANGED vars
    PROVE  IInv'
<1>1. /\ UNCHANGED <<log, pmem_written, up, ring, seen_off, prod, consume_in_progress,
                     consume_offset, consume_len, call, iteration, acquired, completed, consumed>>
  BY DEF vars, persistentVars, consumeVars, historyVars
<1>2. /\ Firsts' = Firsts /\ Active' = Active /\ Blocks' = Blocks
      /\ LinesInv' /\ \A w \in Workers : StoresInv(w)'
  BY <1>1, LogFrame
<1>3. Types'
  BY <1>1, <1>2 DEF IInv, Types
<1>4. BlocksInv' /\ OrderInv'
  BY <1>1, <1>2, QuietFrame
<1>5. \A w \in Workers : SeenInv(w)'
  BY <1>1, <1>2 DEF IInv, SeenInv
<1>6. ConsumeInv'
  BY <1>1, <1>2 DEF IInv, ConsumeInv, ConsumeEnd
<1>7. CompletedInv'
  BY <1>1, <1>2, CleanKept
<1> QED BY <1>2, <1>3, <1>4, <1>5, <1>6, <1>7 DEF IInv

LEMMA NextIInv ==
    ASSUME ~StaleWrapRestart, IInv, [Next]_vars
    PROVE  IInv'
<1>1. CASE Open
  BY <1>1, OpenStep
<1>2. CASE Crash
  BY <1>2, CrashStep
<1>3. ASSUME NEW w \in Workers, NEW n \in ElementLengths, Acquire_cachelines(w, n) PROVE IInv'
  BY <1>3, AcquireStep
<1>4. ASSUME NEW w \in Workers, ProducerStep(w) \/ on_produce_throws(w) PROVE IInv'
  <2>1. CASE store_first(w)
    BY <2>1, StoreFirstStep
  <2>2. CASE store_rest(w)
    BY <2>2, StoreRestStep
  <2>3. CASE store_drain(w) \/ on_produce_throws(w)
    BY <2>3, SameLogStep
  <2>4. CASE store_clean(w)
    BY <2>4, StoreCleanStep
  <2>5. CASE produce_cachelines(w) \/ replace_worker(w)
    BY <2>5, ProduceStep
  <2> QED BY <1>4, <2>1, <2>2, <2>3, <2>4, <2>5 DEF ProducerStep
<1>5. CASE ConsumerStep \/ consume_throws
  <2>1. CASE try_consume_batch \/ consume_throws
    BY <2>1, CallStep
  <2>2. CASE consume_cachelines
    BY <2>2, ConsumeStep
  <2>3. CASE consume_commit
    BY <2>3, CommitStep
  <2>4. CASE release_cachelines
    BY <2>4, ReleaseStep
  <2> QED BY <1>5, <2>1, <2>2, <2>3, <2>4 DEF ConsumerStep
<1>6. CASE UNCHANGED vars
  BY <1>6, StutterIInv
<1> QED BY <1>1, <1>2, <1>3, <1>4, <1>5, <1>6 DEF Next

-----------------------------------------------------------------------------
(***************************************************************************)
(* The queue's safety properties.  They are about the processes that do    *)
(* not end between a wrap-around of the consumer and its next commit: what *)
(* happens to the others is shown by the run in which NothingLost fails.   *)
(***************************************************************************)

(***************************************************************************)
(* The blocks, cachelines, producers, consumer and history of the queue    *)
(* keep the shape that IInv describes, whatever the interleaving of        *)
(* try_produce, try_consume_batch, crashes and restarts.                   *)
(***************************************************************************)
THEOREM QueueInvariant ==
    ASSUME ~StaleWrapRestart
    PROVE  Spec => []IInv
<1>1. Init => IInv
  BY InitIInv
<1>2. IInv /\ [Next]_vars => IInv'
  BY NextIInv
<1> QED BY <1>1, <1>2, PTL DEF Spec

(***************************************************************************)
(* The variables of mpsc_queue and of its persistent log keep their types; *)
(* no caller is ever given junk.                                           *)
(***************************************************************************)
THEOREM QueueTypes ==
    ASSUME ~StaleWrapRestart
    PROVE  Spec => []TypeOK
<1>1. ASSUME IInv PROVE TypeOK
  <2>0. Types /\ consumed \in Seq(Elements)
    BY <1>1 DEF IInv, OrderInv
  <2>1. consumed \in Seq(Elements \cup {Junk})
    <3>1. Len(consumed) \in Nat /\ consumed \in [1 .. Len(consumed) -> Elements]
      BY <2>0, LenProperties
    <3>2. consumed \in [1 .. Len(consumed) -> Elements \cup {Junk}]
      BY <3>1
    <3> QED BY <3>1, <3>2, SeqDef
  <2>2. ASSUME NEW w \in Workers
        PROVE  /\ prod[w].pc \in PCs /\ prod[w].off \in Offsets
               /\ prod[w].len \in ElementLengths \cup {0} /\ prod[w].elem \in Elements \cup {Junk}
    <3>1. prod[w] \in [pc : PCs, off : Offsets, len : ElementLengths \cup {0},
                       elem : Elements \cup {Junk}]
      BY <2>0 DEF Types
    <3> QED BY <3>1
  <2> QED BY <2>0, <2>1, <2>2 DEF Types, TypeOK, PCs, Rings
<1> QED BY <1>1, QueueInvariant, PTL

(***************************************************************************)
(* store_to_log writes only to cachelines that are zeroed: the space that  *)
(* ringbuf_acquire hands out was cleared by the consumer's transaction or  *)
(* never used, also after restore_offsets.                                 *)
(***************************************************************************)
THEOREM FindsZeroed ==
    ASSUME ~StaleWrapRestart
    PROVE  Spec => []ProducesIntoZeroed
<1>1. ASSUME IInv PROVE ProducesIntoZeroed
  <2> SUFFICES ASSUME NEW w \in Workers, prod[w].pc = "acquired",
                      NEW c \in prod[w].off .. prod[w].off + prod[w].len - 1
               PROVE  log[c] = Zeroed
    BY DEF ProducesIntoZeroed
  <2>1. StoresInv(w) /\ Types
    BY <1>1 DEF IInv
  <2>2. PICK o \in 0 .. Space - 1, l \in 0 .. Space : o = prod[w].off /\ l = prod[w].len
    BY <2>1, TypeFacts
  <2>3. c = o \/ c \in o + 1 .. o + l - 1
    BY <2>2
  <2> QED BY <2>1, <2>2, <2>3 DEF StoresInv
<1> QED BY <1>1, QueueInvariant, PTL

(***************************************************************************)
(* The iterator that the callback of try_consume_batch is given stops at   *)
(* whole elements only: not at the middle of one, and not at the remains   *)
(* of one whose try_produce a crash interrupted.                           *)
(***************************************************************************)
THEOREM WholeElements ==
    ASSUME ~StaleWrapRestart
    PROVE  Spec => []OnlyWholeElements
<1>1. ASSUME IInv PROVE OnlyWholeElements
  <2> SUFFICES ASSUME call = "tx" PROVE Junk \notin ToSet(Taken)
    BY DEF OnlyWholeElements
  <2>1. Taken \in Seq(Elements)
    BY <1>1, TakenIs DEF AllBetween
  <2>2. \A i \in DOMAIN Taken : Taken[i] \in Elements
    BY <2>1
  <2>3. Junk \notin Elements
    BY Constants
  <2> QED BY <2>2, <2>3 DEF ToSet
<1> QED BY <1>1, QueueInvariant, PTL

(***************************************************************************)
(* Committed callbacks of try_consume_batch see the elements in the order  *)
(* in which try_produce acquired their space, and none of them twice, also *)
(* across crashes and restarts.                                            *)
(***************************************************************************)
THEOREM InOrder ==
    ASSUME ~StaleWrapRestart
    PROVE  Spec => []ConsumedInOrder
<1>1. IInv => ConsumedInOrder
  BY DEF IInv, OrderInv
<1> QED BY <1>1, QueueInvariant, PTL

(***************************************************************************)
(* An element whose try_produce returned true was given to a committed     *)
(* callback or is whole in the log.  Elements without data are excluded:   *)
(* a size of 0 reads like a cacheline that was never written.              *)
(***************************************************************************)
THEOREM NoneLost ==
    ASSUME ~StaleWrapRestart, EmptyElements = {}
    PROVE  Spec => []NothingLost
<1>1. ASSUME IInv PROVE NothingLost
  <2> SUFFICES ASSUME NEW e \in completed \ ToSet(consumed)
               PROVE  \E c \in Offsets :
                         /\ log[c].kind = "first" /\ log[c].elem = e /\ ~log[c].dirty
                         /\ c + log[c].len <= Space /\ Intact(c)
    BY DEF NothingLost
  <2>0. Types /\ BlocksInv /\ LinesInv
    BY <1>1 DEF IInv
  <2>1. PICK c \in Firsts : log[c].elem = e /\ ~log[c].dirty
    BY <1>1 DEF IInv, CompletedInv
  <2>2. c \in Offsets /\ log[c].kind = "first"
    BY DEF Firsts
  <2>3. c + log[c].len <= Space
    BY <2>0, BlocksApart
  <2>4. Intact(c)
    BY <2>0, <2>1 DEF LinesInv, Intact
  <2> QED BY <2>1, <2>2, <2>3, <2>4
<1> QED BY <1>1, QueueInvariant, PTL

=============================================================================

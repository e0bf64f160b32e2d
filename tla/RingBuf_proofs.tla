--------------------------- MODULE RingBuf_proofs ---------------------------
(***************************************************************************)
(* Proofs of the ring buffer's safety properties, for every size of the    *)
(* buffer and every number of workers.                                     *)
(***************************************************************************)
EXTENDS RingBuf, SequenceTheorems, TLAPS

(***************************************************************************)
(* The words the producers hold.  A loaded word is stable and is not ahead *)
(* of 'next' within its lap; a producer that passed the checks may still   *)
(* rely on them as long as its compare-and-swap would succeed; the offset  *)
(* it loaded is the one it published.  At most one worker holds            *)
(* WRAP_LOCK_BIT, and 'next' is then the word it stored.                   *)
(***************************************************************************)
Trying == {"loaded", "checked"}
Owning == {"acquired", "set_end", "unlock", "filling"}

Holder(w) == pc[w] \in {"acquired", "set_end", "unlock"} /\ target[w].locked

SeenInv(w) ==
    /\ seen[w].off < Space /\ ~seen[w].locked
    /\ pc[w] \in Trying /\ seen[w].wraps = next.wraps =>
          ~next.locked /\ seen[w].off <= next.off
    /\ pc[w] = "checked" => target[w] = Target(seen[w], len[w])
    /\ pc[w] = "checked" /\ next = seen[w] => ~MustWait(seen[w], len[w], written)

PublishInv(w) ==
    /\ pc[w] # "idle" => registered[w]
    /\ w \in mark_pending => pc[w] \in Trying \cup {"refused"}
    /\ pc[w] \in Trying /\ w \notin mark_pending => seen_off[w] = Locked(seen[w].off)
    /\ registered[w] /\ ~seen_off[w].locked =>
          seen_off[w].off = RBUF_OFF_MAX \/ pc[w] \in {"set_end", "unlock", "filling"}

LockInv ==
    /\ \A w \in Workers : pc[w] \in {"set_end", "unlock"} => target[w].locked
    /\ \A w \in Workers : Holder(w) => next = target[w]
    /\ \A v, w \in Workers : Holder(v) /\ Holder(w) => v = w

WordInv ==
    /\ next.off < Space
    /\ \A w \in Workers : SeenInv(w)
    /\ \A w \in Workers : PublishInv(w)
    /\ LockInv

(***************************************************************************)
(* How the queue lies in the buffer.  Its first m entries are in the lap   *)
(* of the consumer: from written up to 'next', or, when the producers have *)
(* wrapped around, up to the cut e.  The others fill the buffer from its   *)
(* start up to 'next'.                                                     *)
(***************************************************************************)
Straight == written <= next.off
Top(e) == IF Straight THEN next.off ELSE e
EndOf(i) == queue[i].off + queue[i].len

TilingInv(e, m) ==
    /\ \A i \in 1 .. m : queue[i].off >= written /\ EndOf(i) <= Top(e)
    /\ \A i \in m + 1 .. Len(queue) : EndOf(i) <= next.off
    /\ \A i, j \in 1 .. Len(queue) :
          i < j /\ (j <= m \/ m < i) => EndOf(i) <= queue[j].off
    /\ \A i \in 1 .. Len(queue) - 1 : i # m => queue[i + 1].off = EndOf(i)
    /\ m = 0 => Top(e) = written
    /\ m # 0 => queue[1].off = written /\ EndOf(m) = Top(e)
    /\ m < Len(queue) => queue[m + 1].off = 0 /\ EndOf(Len(queue)) = next.off
    /\ m = Len(queue) => Straight \/ next.off = 0
    /\ Straight => m = Len(queue)

(***************************************************************************)
(* The cut is where the worker that wraps around found 'next' until it has *)
(* stored it in 'end', and where the consumer stands when it has cleared   *)
(* 'end' and not yet gone back to the start.                               *)
(***************************************************************************)
Cutting(w) == pc[w] \in {"acquired", "set_end"} /\ target[w].locked

CutInv(e) ==
    /\ ~Straight /\ e < Space => next.off > 0
    /\ Straight => end = RBUF_OFF_MAX
    /\ \A w \in Workers :
          Cutting(w) => ~Straight /\ e = seen[w].off /\ end = RBUF_OFF_MAX
    /\ cpc \in {"clear_end", "reset"} => ~Straight /\ ~next.locked /\ e = written
    /\ cpc = "reset" => end = RBUF_OFF_MAX
    /\ ~Straight /\ cpc # "reset" /\ (\A w \in Workers : ~Cutting(w)) => e = CutOff(end)

(***************************************************************************)
(* An entry that is not produced yet has its owner in flight, who has      *)
(* published where the entry lies.  The owner of the entry that wrapped    *)
(* around has published the cut; the consumer does not go back to the      *)
(* start before that entry is produced.                                    *)
(***************************************************************************)
OwnerInv(e, m) ==
    /\ \A i \in 1 .. Len(queue) : ~queue[i].done =>
          /\ pc[queue[i].worker] \in Owning
          /\ registered[queue[i].worker]
          /\ queue[i].worker \notin mark_pending
          /\ \/ seen_off[queue[i].worker].off = queue[i].off
             \/ /\ i = m + 1 /\ seen_off[queue[i].worker].off = e
                /\ cpc \notin {"clear_end", "reset"}
    /\ \A w \in Workers : pc[w] \in Owning =>
          \E i \in 1 .. Len(queue) : ~queue[i].done /\ queue[i].worker = w

(***************************************************************************)
(* What the consumer has gathered: 'next' and ready are boundaries between *)
(* entries, and ready is not beyond any visited worker's unfinished entry. *)
(***************************************************************************)
Boundary(e, m, x) == x = Top(e) \/ \E i \in 1 .. m : queue[i].off = x

InRange(x) == written <= x /\ (cnext > written => x < cnext)

ObserveInv(e, m) ==
    /\ cpc # "observe" => ready = RBUF_OFF_MAX /\ visiting = 0
    /\ cpc = "observe" =>
          /\ cnext # written /\ ready >= written
          /\ cnext < written => ~Straight /\ ~next.locked
          /\ cnext > written => Boundary(e, m, cnext)
          /\ ready = RBUF_OFF_MAX \/ Boundary(e, m, ready)
          /\ \A i \in 1 .. Len(queue) :
                /\ ~queue[i].done /\ queue[i].worker < visiting
                /\ InRange(seen_off[queue[i].worker].off)
                => ready <= seen_off[queue[i].worker].off

LayoutInv(e, m) ==
    /\ TilingInv(e, m)
    /\ CutInv(e)
    /\ OwnerInv(e, m)
    /\ ObserveInv(e, m)

IInv ==
    /\ TypeOK
    /\ WordInv
    /\ ConsumesProducedPrefix
    /\ \E e \in 0 .. Space, m \in 0 .. Len(queue) : LayoutInv(e, m)

-----------------------------------------------------------------------------
(***************************************************************************)
(* The operators the model is built from.                                  *)
(***************************************************************************)
LEMMA MinOfTwo ==
    ASSUME NEW a \in Int, NEW b \in Int
    PROVE  Min({a, b}) = IF a <= b THEN a ELSE b
<1>1. \E x \in {a, b} : \A y \in {a, b} : x <= y
  OBVIOUS
<1> DEFINE x == CHOOSE x \in {a, b} : \A y \in {a, b} : x <= y
<1>2. x \in {a, b} /\ \A y \in {a, b} : x <= y
  BY <1>1
<1>3. x = Min({a, b})
  BY DEF Min
<1> HIDE DEF x
<1> QED BY <1>2, <1>3

LEMMA NextLap ==
    ASSUME NEW n \in 0 .. WrapModulus - 1
    PROVE  WRAP_INCR(n) \in 0 .. WrapModulus - 1 /\ WRAP_INCR(n) # n
<1>1. WrapModulus \in Nat /\ WrapModulus > 1
  BY WrapModulusAssumption, LapsAssumption
<1>2. CASE n + 1 = WrapModulus
  <2>1. WrapModulus % WrapModulus = 0
    BY <1>1
  <2> QED BY <1>1, <1>2, <2>1 DEF WRAP_INCR
<1>3. CASE n + 1 < WrapModulus
  <2>1. (n + 1) % WrapModulus = n + 1
    BY <1>1, <1>3
  <2> QED BY <1>1, <1>3, <2>1 DEF WRAP_INCR
<1> QED BY <1>1, <1>2, <1>3

(***************************************************************************)
(* What a producer that need not wait aims at: the next word of the same   *)
(* lap, the start of the next lap exactly at the end of the buffer, or a   *)
(* range at its start, with the lock.                                      *)
(***************************************************************************)
LEMMA TargetCases ==
    ASSUME NEW s \in NextWords, NEW n \in Lengths, NEW x \in Offsets,
           s.off < Space, ~s.locked, ~MustWait(s, n, x)
    PROVE  LET t == Target(s, n)
           IN  /\ t \in NextWords /\ t.off < Space
               /\ \/ /\ s.off + n < Space /\ (s.off < x => s.off + n < x)
                     /\ t.off = s.off + n /\ t.wraps = s.wraps /\ ~t.locked
                  \/ /\ s.off + n = Space /\ x <= s.off /\ x > 0
                     /\ t.off = 0 /\ t.wraps # s.wraps /\ ~t.locked
                  \/ /\ s.off + n > Space /\ x <= s.off /\ n < x
                     /\ t.off = n /\ t.wraps # s.wraps /\ t.locked
<1>1. Space \in Nat /\ Space > 0 /\ WrapModulus \in Nat
  BY SpaceAssumption, WrapModulusAssumption
<1>2. /\ s.off \in 0 .. Space /\ s.wraps \in 0 .. WrapModulus - 1
      /\ n \in 1 .. Space /\ x \in 0 .. Space - 1
  BY DEF NextWords, Lengths, Offsets
<1>3. /\ WRAP_INCR(s.wraps) \in 0 .. WrapModulus - 1
      /\ WRAP_INCR(s.wraps) # s.wraps
  BY <1>2, NextLap
<1>4. CASE s.off + n < Space
  <2>1. Target(s, n) = [off |-> s.off + n, wraps |-> s.wraps, locked |-> FALSE]
    BY <1>1, <1>2, <1>4 DEF Target, Exceeds, WrapsAround
  <2>2. s.off < x => s.off + n < x
    BY <1>1, <1>2 DEF MustWait
  <2> QED BY <1>1, <1>2, <1>4, <2>1, <2>2 DEF NextWords
<1>5. CASE s.off + n = Space
  <2>1. Target(s, n) = [off |-> 0, wraps |-> WRAP_INCR(s.wraps), locked |-> FALSE]
    BY <1>1, <1>2, <1>5 DEF Target, Exceeds, WrapsAround
  <2>2. x <= s.off /\ x > 0
    BY <1>1, <1>2, <1>5 DEF MustWait, Exceeds, WrapsAround
  <2> QED BY <1>1, <1>2, <1>3, <1>5, <2>1, <2>2 DEF NextWords
<1>6. CASE s.off + n > Space
  <2>1. Target(s, n) = [off |-> n, wraps |-> WRAP_INCR(s.wraps), locked |-> TRUE]
    BY <1>1, <1>2, <1>6 DEF Target, Exceeds, WrapsAround
  <2>2. x <= s.off /\ n < x
    BY <1>1, <1>2, <1>6 DEF MustWait, Exceeds, WrapsAround
  <2> QED BY <1>1, <1>2, <1>3, <1>6, <2>1, <2>2 DEF NextWords
<1> QED BY <1>1, <1>2, <1>4, <1>5, <1>6

(***************************************************************************)
(* What a producer may rely on as the consumer advances.                   *)
(***************************************************************************)
LEMMA NeedNotWait ==
    ASSUME NEW s \in NextWords, NEW n \in Lengths, NEW x \in Offsets, NEW y \in Offsets,
           ~MustWait(s, n, x),
           \/ x <= s.off /\ x <= y /\ y <= s.off
           \/ s.off < x /\ (x <= y \/ y = 0)
    PROVE  ~MustWait(s, n, y)
<1>1. Space \in Nat /\ Space > 0
  BY SpaceAssumption
<1>2. s.off \in 0 .. Space /\ n \in 1 .. Space /\ x \in 0 .. Space - 1 /\ y \in 0 .. Space - 1
  BY DEF NextWords, Lengths, Offsets
<1> QED BY <1>1, <1>2 DEF MustWait, Exceeds, WrapsAround

-----------------------------------------------------------------------------
(***************************************************************************)
(* Facts every step uses.                                                  *)
(***************************************************************************)
LEMMA Constants ==
    /\ Space \in Nat /\ Space > 0 /\ NWorkers \in Nat /\ NWorkers > 0
    /\ WrapModulus \in Nat /\ WrapModulus > 1
    /\ RBUF_OFF_MAX = Space + 1 /\ RBUF_OFF_MAX \in Nat
  BY SpaceAssumption, NWorkersAssumption, WrapModulusAssumption, LapsAssumption
  DEF RBUF_OFF_MAX

LEMMA CutOffIs ==
    ASSUME NEW x \in Offsets \cup {RBUF_OFF_MAX}
    PROVE  CutOff(x) = IF x = RBUF_OFF_MAX THEN Space ELSE x
<1>1. x \in Int /\ Space \in Int
  BY Constants DEF Offsets
<1> QED BY <1>1, Constants, MinOfTwo DEF CutOff, Offsets

LEMMA Entries ==
    ASSUME TypeOK
    PROVE  /\ Len(queue) \in Nat /\ DOMAIN queue = 1 .. Len(queue)
           /\ \A i \in 1 .. Len(queue) :
                 /\ queue[i].worker \in Workers /\ queue[i].worker \in Nat
                 /\ queue[i].off \in Offsets /\ queue[i].off \in 0 .. Space - 1
                 /\ queue[i].len \in Lengths /\ queue[i].len \in 1 .. Space
                 /\ queue[i].done \in BOOLEAN
<1> DEFINE E == [worker : Workers, off : Offsets, len : Lengths, done : BOOLEAN]
<1>1. queue \in Seq(E)
  BY DEF TypeOK
<1> HIDE DEF E
<1>2. \A i \in 1 .. Len(queue) : queue[i] \in E
  BY <1>1, ElementOfSeq
<1>3. Len(queue) \in Nat /\ DOMAIN queue = 1 .. Len(queue)
  BY <1>1, LenProperties
<1>4. Workers \subseteq Nat
  BY Constants DEF Workers
<1>5. ASSUME NEW x \in E
      PROVE  /\ x.worker \in Workers /\ x.off \in Offsets
             /\ x.len \in Lengths /\ x.done \in BOOLEAN
  BY DEF E
<1>6. \A i \in 1 .. Len(queue) :
         /\ queue[i].worker \in Workers /\ queue[i].off \in Offsets
         /\ queue[i].len \in Lengths /\ queue[i].done \in BOOLEAN
  BY <1>2, <1>5
<1> QED BY <1>3, <1>4, <1>6 DEF Offsets, Lengths

LEMMA InitIInv ==
    Init => IInv
<1> SUFFICES ASSUME Init PROVE IInv
  OBVIOUS
<1> USE DEF Init
<1>1. TypeOK
  <2>1. ZeroWord \in NextWords
    BY Constants DEF ZeroWord, NextWords
  <2>2. /\ 0 \in Offsets /\ 1 \in Lengths
    BY Constants DEF Offsets, Lengths
  <2>3. Unlocked(0) \in [off : Offsets \cup {RBUF_OFF_MAX}, locked : BOOLEAN]
    BY <2>2 DEF Unlocked
  <2> QED BY <2>1, <2>2, <2>3, Constants DEF TypeOK
<1>2. WordInv
  BY Constants
  DEF WordInv, SeenInv, PublishInv, LockInv, Holder, Trying, ZeroWord, Unlocked, Workers
<1>3. ConsumesProducedPrefix
  BY DEF ConsumesProducedPrefix
<1>4. LayoutInv(0, 0)
  <2>1. Straight /\ Top(0) = 0 /\ Len(queue) = 0
    BY DEF Straight, Top, ZeroWord
  <2>2. TilingInv(0, 0)
    BY <2>1 DEF TilingInv
  <2>3. CutInv(0)
    BY <2>1 DEF CutInv, Cutting
  <2>4. OwnerInv(0, 0)
    BY <2>1 DEF OwnerInv, Owning
  <2>5. ObserveInv(0, 0)
    BY DEF ObserveInv
  <2> QED BY <2>2, <2>3, <2>4, <2>5 DEF LayoutInv
<1>5. 0 \in 0 .. Space /\ 0 \in 0 .. Len(queue)
  BY Constants
<1> QED BY <1>1, <1>2, <1>3, <1>4, <1>5 DEF IInv

(***************************************************************************)
(* A step of worker w leaves the others alone.                             *)
(***************************************************************************)
OthersKeep(w) ==
    \A v \in Workers \ {w} :
        /\ pc'[v] = pc[v] /\ len'[v] = len[v]
        /\ seen'[v] = seen[v] /\ target'[v] = target[v]
        /\ seen_off'[v] = seen_off[v] /\ registered'[v] = registered[v]
        /\ v \in mark_pending' <=> v \in mark_pending

LEMMA SeenFrame ==
    ASSUME NEW w \in Workers, SeenInv(w), next' = next, written' = written,
           pc'[w] = pc[w], len'[w] = len[w], seen'[w] = seen[w], target'[w] = target[w]
    PROVE  SeenInv(w)'
  BY DEF SeenInv

LEMMA PublishFrame ==
    ASSUME NEW w \in Workers, PublishInv(w), pc'[w] = pc[w], seen'[w] = seen[w],
           seen_off'[w] = seen_off[w], registered'[w] = registered[w],
           w \in mark_pending' <=> w \in mark_pending
    PROVE  PublishInv(w)'
  BY DEF PublishInv

LEMMA PrefixFrame ==
    ASSUME ConsumesProducedPrefix, queue' = queue, written' = written, clen' = clen,
           cpc' = "consuming" => cpc = "consuming"
    PROVE  ConsumesProducedPrefix'
  BY DEF ConsumesProducedPrefix, Tiles

LEMMA TilingFrame ==
    ASSUME NEW e, NEW m \in 0 .. Len(queue), Len(queue) \in Nat, TilingInv(e, m),
           Len(queue') = Len(queue),
           \A i \in 1 .. Len(queue) :
              queue'[i].off = queue[i].off /\ queue'[i].len = queue[i].len,
           written' = written, next'.off = next.off
    PROVE  TilingInv(e, m)' /\ Straight' = Straight /\ Top(e)' = Top(e)
<1>1. Straight' = Straight /\ Top(e)' = Top(e)
  BY DEF Straight, Top
<1>2. \A i \in 1 .. Len(queue) : EndOf(i)' = EndOf(i)
  BY DEF EndOf
<1> QED BY <1>1, <1>2 DEF TilingInv

(***************************************************************************)
(* The steps of a worker that has nothing in flight, up to its             *)
(* compare-and-swap, do not touch the queue.                               *)
(***************************************************************************)
LEMMA QuietStep ==
    ASSUME NEW w \in Workers, IInv, TypeOK', OthersKeep(w),
           UNCHANGED <<ringVars, consumerVars, queue>>,
           pc[w] \notin Owning, pc'[w] \notin Owning, SeenInv(w)', PublishInv(w)'
    PROVE  IInv'
<1>1. UNCHANGED <<next, end, written, cpc, cnext, ready, visiting, clen, queue>>
  BY DEF ringVars, consumerVars
<1>2. WordInv'
  <2>1. \A v \in Workers : SeenInv(v)'
    <3> TAKE v \in Workers
    <3>1. CASE v = w
      BY <3>1
    <3>2. CASE v # w
      BY <3>2, <1>1, SeenFrame DEF IInv, WordInv, OthersKeep
    <3> QED BY <3>1, <3>2
  <2>2. \A v \in Workers : PublishInv(v)'
    <3> TAKE v \in Workers
    <3>1. CASE v = w
      BY <3>1
    <3>2. CASE v # w
      BY <3>2, PublishFrame DEF IInv, WordInv, OthersKeep
    <3> QED BY <3>1, <3>2
  <2>3. \A v \in Workers : Holder(v)' => v # w /\ Holder(v)
    BY DEF Holder, OthersKeep, Owning
  <2>4. \A v \in Workers : pc'[v] \in {"set_end", "unlock"} =>
           pc[v] = pc'[v] /\ target'[v] = target[v]
    BY DEF OthersKeep, Owning
  <2>5. LockInv'
    BY <1>1, <2>3, <2>4 DEF IInv, WordInv, LockInv, Holder, OthersKeep
  <2> QED BY <1>1, <2>1, <2>2, <2>5 DEF IInv, WordInv
<1>3. ConsumesProducedPrefix'
  BY <1>1, PrefixFrame DEF IInv
<1>4. PICK e \in 0 .. Space, m \in 0 .. Len(queue) : LayoutInv(e, m)
  BY DEF IInv
<1>5. LayoutInv(e, m)'
  <2>1. TilingInv(e, m)' /\ Straight' = Straight /\ Top(e)' = Top(e)
    BY <1>1, <1>4, Entries, TilingFrame DEF LayoutInv, IInv
  <2>2. \A v \in Workers : Cutting(v)' <=> Cutting(v)
    BY DEF Cutting, OthersKeep, Owning
  <2>3. \A v \in Workers : Cutting(v) => seen'[v] = seen[v]
    BY DEF Cutting, OthersKeep, Owning
  <2>4. CutInv(e)'
    BY <1>1, <1>4, <2>1, <2>2, <2>3 DEF LayoutInv, CutInv
  <2>5. \A i \in 1 .. Len(queue) : ~queue[i].done => queue[i].worker \in Workers \ {w}
    BY <1>4, Entries DEF LayoutInv, OwnerInv, IInv
  <2>6. OwnerInv(e, m)'
    BY <1>1, <1>4, <2>5 DEF LayoutInv, OwnerInv, OthersKeep
  <2>7. ObserveInv(e, m)'
    BY <1>1, <1>4, <2>1, <2>5 DEF LayoutInv, ObserveInv, OthersKeep, Boundary, InRange
  <2> QED BY <2>1, <2>4, <2>6, <2>7 DEF LayoutInv
<1> QED BY <1>1, <1>2, <1>3, <1>4, <1>5 DEF IInv

LEMMA SmallValues ==
    /\ ZeroWord \in NextWords /\ ZeroWord.off = 0 /\ ~ZeroWord.locked
    /\ 1 \in Lengths /\ 0 \in Offsets
    /\ Unlocked(RBUF_OFF_MAX) \in [off : Offsets \cup {RBUF_OFF_MAX}, locked : BOOLEAN]
    /\ Unlocked(RBUF_OFF_MAX).off = RBUF_OFF_MAX /\ ~Unlocked(RBUF_OFF_MAX).locked
  BY Constants DEF ZeroWord, NextWords, Lengths, Offsets, Unlocked

LEMMA RegisterStep ==
    ASSUME NEW w \in Workers, IInv, ringbuf_register(w)
    PROVE  IInv'
<1>1. /\ TypeOK /\ SeenInv(w) /\ PublishInv(w) /\ pc[w] = "idle"
  BY DEF IInv, WordInv, PublishInv, ringbuf_register
<1>2. TypeOK'
  BY <1>1, SmallValues
  DEF TypeOK, ringbuf_register, ringVars, localVars, consumerVars
<1>3. OthersKeep(w)
  BY <1>1 DEF OthersKeep, TypeOK, ringbuf_register, localVars
<1>4. SeenInv(w)'
  BY <1>1, SeenFrame DEF ringbuf_register, localVars, ringVars
<1>5. PublishInv(w)'
  BY <1>1, SmallValues DEF PublishInv, ringbuf_register, localVars, TypeOK, Trying
<1>6. pc[w] \notin Owning /\ pc'[w] \notin Owning
  BY <1>1 DEF Owning, ringbuf_register, localVars
<1> QED
  BY <1>2, <1>3, <1>4, <1>5, <1>6, QuietStep DEF ringbuf_register

LEMMA UnregisterStep ==
    ASSUME NEW w \in Workers, IInv, ringbuf_unregister(w)
    PROVE  IInv'
<1>1. /\ TypeOK /\ SeenInv(w) /\ PublishInv(w) /\ pc[w] = "idle"
  BY DEF IInv, WordInv, ringbuf_unregister
<1>2. TypeOK'
  BY <1>1 DEF TypeOK, ringbuf_unregister, ringVars, localVars, consumerVars
<1>3. OthersKeep(w)
  BY <1>1 DEF OthersKeep, TypeOK, ringbuf_unregister, localVars
<1>4. SeenInv(w)'
  BY <1>1, SeenFrame DEF ringbuf_unregister, localVars, ringVars
<1>5. PublishInv(w)'
  BY <1>1 DEF PublishInv, ringbuf_unregister, localVars, TypeOK, Trying
<1>6. pc[w] \notin Owning /\ pc'[w] \notin Owning
  BY <1>1 DEF Owning, ringbuf_unregister, localVars
<1> QED
  BY <1>2, <1>3, <1>4, <1>5, <1>6, QuietStep DEF ringbuf_unregister

LEMMA LoadStep ==
    ASSUME NEW w \in Workers, NEW n \in Lengths, IInv, acquire_load(w, n)
    PROVE  IInv'
<1>1. /\ TypeOK /\ SeenInv(w) /\ PublishInv(w) /\ pc[w] \in {"idle", "retry"}
      /\ next.off < Space
  BY DEF IInv, WordInv, acquire_load
<1>2. TypeOK'
  BY <1>1 DEF TypeOK, acquire_load, ringVars, consumerVars
<1>3. OthersKeep(w)
  BY <1>1 DEF OthersKeep, TypeOK, acquire_load
<1>4. SeenInv(w)'
  <2>1. pc'[w] = "loaded" /\ seen'[w] = next /\ next' = next /\ ~next.locked
    BY <1>1 DEF acquire_load, TypeOK, ringVars
  <2>2. next.off \in Int
    BY <1>1 DEF TypeOK, NextWords
  <2> QED BY <1>1, <2>1, <2>2 DEF SeenInv
<1>5. PublishInv(w)'
  BY <1>1 DEF PublishInv, acquire_load, TypeOK, Trying
<1>6. pc[w] \notin Owning /\ pc'[w] \notin Owning
  BY <1>1 DEF Owning, acquire_load, TypeOK
<1> QED
  BY <1>2, <1>3, <1>4, <1>5, <1>6, QuietStep DEF acquire_load

LEMMA MarkStep ==
    ASSUME NEW w \in Workers, IInv, mark_seen(w)
    PROVE  IInv'
<1>1. /\ TypeOK /\ SeenInv(w) /\ PublishInv(w)
      /\ pc[w] \in Trying \cup {"refused"}
  BY DEF IInv, WordInv, PublishInv, mark_seen
<1>2. /\ Locked(seen[w].off) \in [off : Offsets \cup {RBUF_OFF_MAX}, locked : BOOLEAN]
      /\ Locked(seen[w].off).locked
  BY <1>1, Constants DEF Locked, Offsets, SeenInv, TypeOK, NextWords
<1>3. TypeOK'
  BY <1>1, <1>2 DEF TypeOK, mark_seen, ringVars, localVars, consumerVars
<1>4. OthersKeep(w)
  BY <1>1 DEF OthersKeep, TypeOK, mark_seen, localVars
<1>5. SeenInv(w)'
  BY <1>1, SeenFrame DEF mark_seen, localVars, ringVars
<1>6. PublishInv(w)'
  BY <1>1, <1>2 DEF PublishInv, mark_seen, localVars, TypeOK, Trying
<1>7. pc[w] \notin Owning /\ pc'[w] \notin Owning
  BY <1>1 DEF Owning, Trying, mark_seen, localVars
<1> QED
  BY <1>3, <1>4, <1>5, <1>6, <1>7, QuietStep DEF mark_seen

LEMMA CheckStep ==
    ASSUME NEW w \in Workers, IInv, acquire_check(w)
    PROVE  IInv'
<1>1. /\ TypeOK /\ SeenInv(w) /\ PublishInv(w) /\ pc[w] = "loaded"
      /\ seen[w] \in NextWords /\ len[w] \in Lengths /\ written \in Offsets
      /\ seen[w].off < Space /\ ~seen[w].locked
  BY DEF IInv, WordInv, acquire_check, TypeOK, SeenInv
<1>2. CASE MustWait(seen[w], len[w], written)
  <2>1. TypeOK'
    BY <1>1, <1>2, SmallValues
    DEF TypeOK, acquire_check, ringVars, workerVars, consumerVars
  <2>2. OthersKeep(w)
    BY <1>1, <1>2 DEF OthersKeep, TypeOK, acquire_check, workerVars
  <2>3. SeenInv(w)'
    BY <1>1, <1>2 DEF SeenInv, TypeOK, acquire_check, Trying
  <2>4. PublishInv(w)'
    BY <1>1, <1>2 DEF PublishInv, acquire_check, workerVars, TypeOK, Trying
  <2>5. pc[w] \notin Owning /\ pc'[w] \notin Owning
    BY <1>1, <1>2 DEF Owning, acquire_check, TypeOK
  <2> QED
    BY <2>1, <2>2, <2>3, <2>4, <2>5, QuietStep DEF acquire_check
<1>3. CASE ~MustWait(seen[w], len[w], written)
  <2>1. Target(seen[w], len[w]) \in NextWords
    BY <1>1, <1>3, TargetCases
  <2>2. TypeOK'
    BY <1>1, <1>3, <2>1
    DEF TypeOK, acquire_check, ringVars, workerVars, consumerVars
  <2>3. OthersKeep(w)
    BY <1>1, <1>3 DEF OthersKeep, TypeOK, acquire_check, workerVars
  <2>4. SeenInv(w)'
    BY <1>1, <1>3 DEF SeenInv, TypeOK, acquire_check, Trying, ringVars
  <2>5. PublishInv(w)'
    BY <1>1, <1>3 DEF PublishInv, acquire_check, workerVars, TypeOK, Trying
  <2>6. pc[w] \notin Owning /\ pc'[w] \notin Owning
    BY <1>1, <1>3 DEF Owning, acquire_check, TypeOK
  <2> QED
    BY <2>2, <2>3, <2>4, <2>5, <2>6, QuietStep DEF acquire_check
<1> QED BY <1>2, <1>3

LEMMA RefuseStep ==
    ASSUME NEW w \in Workers, IInv, acquire_refuse(w)
    PROVE  IInv'
<1>1. /\ TypeOK /\ PublishInv(w) /\ pc[w] = "refused"
  BY DEF IInv, WordInv, acquire_refuse
<1>2. TypeOK'
  BY <1>1, SmallValues DEF TypeOK, acquire_refuse, Forget, ringVars, consumerVars
<1>3. OthersKeep(w)
  BY <1>1 DEF OthersKeep, TypeOK, acquire_refuse, Forget
<1>4. SeenInv(w)'
  BY <1>1, SmallValues, Constants DEF SeenInv, TypeOK, acquire_refuse, Forget, Trying
<1>5. PublishInv(w)'
  BY <1>1, SmallValues DEF PublishInv, acquire_refuse, TypeOK, Trying
<1>6. pc[w] \notin Owning /\ pc'[w] \notin Owning
  BY <1>1 DEF Owning, acquire_refuse, TypeOK
<1> QED
  BY <1>2, <1>3, <1>4, <1>5, <1>6, QuietStep DEF acquire_refuse

LEMMA CasFailStep ==
    ASSUME NEW w \in Workers, IInv, acquire_cas_fail(w)
    PROVE  IInv'
<1>1. /\ TypeOK /\ PublishInv(w) /\ pc[w] = "checked"
  BY DEF IInv, WordInv, acquire_cas_fail
<1>2. TypeOK'
  BY <1>1, SmallValues DEF TypeOK, acquire_cas_fail, ringVars, workerVars, consumerVars
<1>3. OthersKeep(w)
  BY <1>1 DEF OthersKeep, TypeOK, acquire_cas_fail, workerVars
<1>4. SeenInv(w)'
  BY <1>1, SmallValues, Constants DEF SeenInv, TypeOK, acquire_cas_fail, Trying
<1>5. PublishInv(w)'
  BY <1>1 DEF PublishInv, acquire_cas_fail, workerVars, TypeOK, Trying
<1>6. pc[w] \notin Owning /\ pc'[w] \notin Owning
  BY <1>1 DEF Owning, acquire_cas_fail, TypeOK
<1> QED
  BY <1>2, <1>3, <1>4, <1>5, <1>6, QuietStep DEF acquire_cas_fail

(***************************************************************************)
(* The steps of a worker that has acquired a range and stays in flight.    *)
(***************************************************************************)
LEMMA OwnerKeeps ==
    ASSUME NEW w \in Workers, IInv, OthersKeep(w),
           NEW e \in 0 .. Space, NEW m \in 0 .. Len(queue), LayoutInv(e, m),
           UNCHANGED <<written, consumerVars, queue, registered, mark_pending>>,
           next'.off = next.off, next'.locked => next.locked,
           pc[w] \in Owning, pc'[w] \in Owning, seen_off'[w].off = seen_off[w].off
    PROVE  /\ ConsumesProducedPrefix'
           /\ TilingInv(e, m)' /\ Straight' = Straight
           /\ OwnerInv(e, m)' /\ ObserveInv(e, m)'
<1>1. UNCHANGED <<cpc, cnext, ready, visiting, clen>>
  BY DEF consumerVars
<1>2. ConsumesProducedPrefix'
  BY <1>1, PrefixFrame DEF IInv
<1>3. TilingInv(e, m)' /\ Straight' = Straight /\ Top(e)' = Top(e)
  BY Entries, TilingFrame DEF LayoutInv, IInv
<1>4. \A v \in Workers : /\ pc'[v] \in Owning <=> pc[v] \in Owning
                         /\ seen_off'[v].off = seen_off[v].off
  BY DEF OthersKeep
<1>5. \A i \in 1 .. Len(queue) : queue[i].worker \in Workers
  BY Entries DEF IInv
<1>6. OwnerInv(e, m)'
  BY <1>1, <1>4, <1>5 DEF LayoutInv, OwnerInv
<1>7. ObserveInv(e, m)'
  BY <1>1, <1>3, <1>4, <1>5 DEF LayoutInv, ObserveInv, Boundary, InRange
<1> QED BY <1>2, <1>3, <1>6, <1>7

LEMMA StabilizeStep ==
    ASSUME NEW w \in Workers, IInv, acquire_stabilize(w)
    PROVE  IInv'
<1>1. /\ TypeOK /\ WordInv /\ SeenInv(w) /\ PublishInv(w) /\ pc[w] = "acquired"
      /\ UNCHANGED <<next, end, written, registered, mark_pending, queue, cpc>>
      /\ UNCHANGED consumerVars
  BY DEF IInv, WordInv, acquire_stabilize, ringVars, consumerVars
<1>2. TypeOK' /\ OthersKeep(w) /\ seen_off'[w].off = seen_off[w].off
  <2>1. seen_off[w] \in [off : Offsets \cup {RBUF_OFF_MAX}, locked : BOOLEAN]
    BY <1>1 DEF TypeOK
  <2>2. /\ seen_off' \in [Workers -> [off : Offsets \cup {RBUF_OFF_MAX}, locked : BOOLEAN]]
        /\ seen_off'[w].off = seen_off[w].off
    BY <1>1, <2>1 DEF TypeOK, acquire_stabilize
  <2>3. CASE target[w].locked
    BY <1>1, <2>2, <2>3 DEF TypeOK, OthersKeep, acquire_stabilize, consumerVars
  <2>4. CASE ~target[w].locked
    BY <1>1, <2>2, <2>4, SmallValues
    DEF TypeOK, OthersKeep, acquire_stabilize, Forget, consumerVars
  <2> QED BY <2>3, <2>4
<1>3. /\ target[w].locked => /\ pc'[w] = "set_end" /\ target' = target /\ seen' = seen
      /\ ~target[w].locked => pc'[w] = "filling" /\ seen'[w] = ZeroWord
  BY <1>1 DEF TypeOK, acquire_stabilize, Forget
<1>4. WordInv'
  <2>1. \A v \in Workers : SeenInv(v)'
    <3> TAKE v \in Workers
    <3>1. CASE v = w
      BY <1>1, <1>3, <3>1, SmallValues, Constants DEF SeenInv, Trying
    <3>2. CASE v # w
      BY <1>1, <1>2, <3>2, SeenFrame DEF WordInv, OthersKeep
    <3> QED BY <3>1, <3>2
  <2>2. \A v \in Workers : PublishInv(v)'
    <3> TAKE v \in Workers
    <3>1. CASE v = w
      BY <1>1, <1>3, <3>1 DEF PublishInv, Trying
    <3>2. CASE v # w
      BY <1>1, <1>2, <3>2, PublishFrame DEF WordInv, OthersKeep
    <3> QED BY <3>1, <3>2
  <2>3. \A v \in Workers : Holder(v)' => Holder(v) /\ target'[v] = target[v]
    BY <1>1, <1>2, <1>3 DEF Holder, OthersKeep
  <2>4. LockInv'
    BY <1>1, <1>2, <1>3, <2>3 DEF WordInv, LockInv, OthersKeep
  <2> QED BY <1>1, <2>1, <2>2, <2>4 DEF WordInv
<1>5. PICK e \in 0 .. Space, m \in 0 .. Len(queue) : LayoutInv(e, m)
  BY DEF IInv
<1>6. /\ ConsumesProducedPrefix' /\ TilingInv(e, m)' /\ Straight' = Straight
      /\ OwnerInv(e, m)' /\ ObserveInv(e, m)'
  BY <1>1, <1>2, <1>3, <1>5, OwnerKeeps DEF Owning
<1>7. CutInv(e)'
  <2>1. \A v \in Workers : /\ Cutting(v)' <=> Cutting(v)
                           /\ Cutting(v) => seen'[v] = seen[v]
    BY <1>1, <1>2, <1>3 DEF Cutting, OthersKeep
  <2> QED BY <1>1, <1>5, <1>6, <2>1 DEF LayoutInv, CutInv
<1> QED BY <1>1, <1>2, <1>4, <1>5, <1>6, <1>7 DEF IInv, LayoutInv

LEMMA SetEndStep ==
    ASSUME NEW w \in Workers, IInv, acquire_set_end(w)
    PROVE  IInv'
<1>1. /\ TypeOK /\ WordInv /\ SeenInv(w) /\ PublishInv(w) /\ pc[w] = "set_end"
      /\ UNCHANGED <<next, written, seen, target, registered, mark_pending, seen_off,
                     len, queue, cpc>>
      /\ UNCHANGED consumerVars
      /\ end' = seen[w].off
  BY DEF IInv, WordInv, acquire_set_end, workerVars, consumerVars
<1>2. seen[w].off \in Offsets
  BY <1>1, Constants DEF SeenInv, TypeOK, NextWords, Offsets
<1>3. TypeOK' /\ OthersKeep(w) /\ pc'[w] = "unlock"
  BY <1>1, <1>2 DEF TypeOK, OthersKeep, acquire_set_end, consumerVars
<1>4. target[w].locked /\ Holder(w) /\ next.locked
  BY <1>1 DEF WordInv, LockInv, Holder
<1>5. WordInv'
  <2>1. \A v \in Workers : SeenInv(v)'
    <3> TAKE v \in Workers
    <3>1. CASE v = w
      BY <1>1, <1>3, <3>1 DEF SeenInv, Trying
    <3>2. CASE v # w
      BY <1>1, <1>3, <3>2, SeenFrame DEF WordInv, OthersKeep
    <3> QED BY <3>1, <3>2
  <2>2. \A v \in Workers : PublishInv(v)'
    <3> TAKE v \in Workers
    <3>1. CASE v = w
      BY <1>1, <1>3, <3>1 DEF PublishInv, Trying
    <3>2. CASE v # w
      BY <1>1, <1>3, <3>2, PublishFrame DEF WordInv, OthersKeep
    <3> QED BY <3>1, <3>2
  <2>3. \A v \in Workers : Holder(v)' <=> Holder(v)
    BY <1>1, <1>3, <1>4 DEF Holder, OthersKeep
  <2>4. LockInv'
    BY <1>1, <1>3, <1>4, <2>3 DEF WordInv, LockInv, OthersKeep
  <2> QED BY <1>1, <2>1, <2>2, <2>4 DEF WordInv
<1>6. PICK e \in 0 .. Space, m \in 0 .. Len(queue) : LayoutInv(e, m)
  BY DEF IInv
<1>7. /\ ConsumesProducedPrefix' /\ TilingInv(e, m)' /\ Straight' = Straight
      /\ OwnerInv(e, m)' /\ ObserveInv(e, m)'
  BY <1>1, <1>3, <1>6, OwnerKeeps DEF Owning
<1>8. CutInv(e)'
  <2>1. \A v \in Workers : ~Cutting(v)'
    BY <1>1, <1>3, <1>4 DEF Cutting, Holder, OthersKeep, WordInv, LockInv
  <2>2. ~Straight /\ e = seen[w].off /\ cpc \notin {"clear_end", "reset"}
    BY <1>1, <1>4, <1>6 DEF LayoutInv, CutInv, Cutting
  <2>3. CutOff(end') = e
    BY <1>1, <1>2, <2>2, Constants, CutOffIs DEF Offsets
  <2> QED BY <1>1, <1>6, <1>7, <2>1, <2>2, <2>3 DEF LayoutInv, CutInv
<1> QED BY <1>1, <1>3, <1>5, <1>6, <1>7, <1>8 DEF IInv, LayoutInv

LEMMA UnlockStep ==
    ASSUME NEW w \in Workers, IInv, acquire_unlock(w)
    PROVE  IInv'
<1>1. /\ TypeOK /\ WordInv /\ SeenInv(w) /\ PublishInv(w) /\ pc[w] = "unlock"
      /\ UNCHANGED <<end, written, registered, mark_pending, seen_off, queue, cpc>>
      /\ UNCHANGED consumerVars
  BY DEF IInv, WordInv, acquire_unlock, workerVars, consumerVars
<1>2. target[w].locked /\ Holder(w) /\ next = target[w] /\ next.locked
  BY <1>1 DEF WordInv, LockInv, Holder
<1>3. /\ next' \in NextWords /\ next'.off = next.off /\ next'.wraps = next.wraps
      /\ ~next'.locked
  BY <1>1, <1>2 DEF acquire_unlock, TypeOK, NextWords
<1>4. /\ TypeOK' /\ OthersKeep(w) /\ pc'[w] = "filling" /\ seen'[w] = ZeroWord
  BY <1>1, <1>3, SmallValues DEF TypeOK, OthersKeep, acquire_unlock, Forget, consumerVars
<1>5. \A v \in Workers : ~Holder(v)'
  BY <1>1, <1>2, <1>4 DEF Holder, OthersKeep, WordInv, LockInv
<1>6. WordInv'
  <2>1. \A v \in Workers : SeenInv(v)'
    <3> TAKE v \in Workers
    <3>1. CASE v = w
      BY <1>1, <1>4, <3>1, SmallValues, Constants DEF SeenInv, Trying
    <3>2. CASE v # w
      <4>1. SeenInv(v) /\ ~(pc[v] \in Trying /\ seen[v].wraps = next.wraps)
        BY <1>1, <1>2 DEF WordInv, SeenInv
      <4>2. ~(pc[v] \in Trying /\ seen[v] = next')
        BY <1>3, <4>1
      <4> QED BY <1>1, <1>3, <1>4, <3>2, <4>1, <4>2 DEF SeenInv, OthersKeep, Trying
    <3> QED BY <3>1, <3>2
  <2>2. \A v \in Workers : PublishInv(v)'
    <3> TAKE v \in Workers
    <3>1. CASE v = w
      BY <1>1, <1>4, <3>1 DEF PublishInv, Trying
    <3>2. CASE v # w
      BY <1>1, <1>4, <3>2, PublishFrame DEF WordInv, OthersKeep
    <3> QED BY <3>1, <3>2
  <2>3. LockInv'
    BY <1>1, <1>2, <1>4, <1>5 DEF WordInv, LockInv, Holder, OthersKeep
  <2> QED BY <1>1, <1>3, <2>1, <2>2, <2>3 DEF WordInv
<1>7. PICK e \in 0 .. Space, m \in 0 .. Len(queue) : LayoutInv(e, m)
  BY DEF IInv
<1>8. /\ ConsumesProducedPrefix' /\ TilingInv(e, m)' /\ Straight' = Straight
      /\ OwnerInv(e, m)' /\ ObserveInv(e, m)'
  BY <1>1, <1>3, <1>4, <1>7, OwnerKeeps DEF Owning
<1>9. CutInv(e)'
  <2>1. \A v \in Workers : ~Cutting(v)' /\ ~Cutting(v)
    BY <1>1, <1>2, <1>5 DEF Cutting, Holder, WordInv, LockInv
  <2>2. cpc \notin {"clear_end", "reset"}
    BY <1>2, <1>7 DEF LayoutInv, CutInv
  <2> QED BY <1>1, <1>3, <1>7, <1>8, <2>1, <2>2 DEF LayoutInv, CutInv
<1> QED BY <1>1, <1>4, <1>6, <1>7, <1>8, <1>9 DEF IInv, LayoutInv

LEMMA ProduceStep ==
    ASSUME NEW w \in Workers, IInv, ringbuf_produce(w)
    PROVE  IInv'
<1>1. /\ TypeOK /\ WordInv /\ SeenInv(w) /\ PublishInv(w) /\ pc[w] = "filling"
      /\ UNCHANGED <<next, end, written, seen, target, registered, mark_pending,
                     len, cpc, cnext, ready, visiting, clen>>
  BY DEF IInv, WordInv, ringbuf_produce, ringVars, consumerVars
<1>2. /\ Len(queue) \in Nat /\ DOMAIN queue = 1 .. Len(queue)
      /\ \A i \in 1 .. Len(queue) : queue[i].worker \in Workers
  BY <1>1, Entries
<1>3. /\ queue' \in Seq([worker : Workers, off : Offsets, len : Lengths, done : BOOLEAN])
      /\ Len(queue') = Len(queue)
      /\ \A i \in 1 .. Len(queue) :
            /\ queue'[i].off = queue[i].off /\ queue'[i].len = queue[i].len
            /\ queue'[i].worker = queue[i].worker
            /\ queue'[i].done <=> queue[i].done \/ queue[i].worker = w
  <2> DEFINE E == [worker : Workers, off : Offsets, len : Lengths, done : BOOLEAN]
             f(x) == IF x.worker = w THEN [x EXCEPT !.done = TRUE] ELSE x
  <2>1. queue \in Seq(E)
    BY <1>1 DEF TypeOK
  <2>2. ASSUME NEW x \in E
        PROVE  /\ f(x) \in E /\ f(x).off = x.off /\ f(x).len = x.len
               /\ f(x).worker = x.worker /\ (f(x).done <=> x.done \/ x.worker = w)
    OBVIOUS
  <2>3. queue' = [i \in 1 .. Len(queue) |-> f(queue[i])]
    BY <1>2 DEF ringbuf_produce
  <2> HIDE DEF E, f
  <2>4. \A i \in 1 .. Len(queue) : queue[i] \in E
    BY <2>1, ElementOfSeq
  <2>5. queue' \in Seq(E) /\ Len(queue') = Len(queue)
    BY <1>2, <2>2, <2>3, <2>4
  <2>6. \A i \in 1 .. Len(queue) : queue'[i] = f(queue[i])
    BY <2>3
  <2>7. \A i \in 1 .. Len(queue) :
            /\ queue'[i].off = queue[i].off /\ queue'[i].len = queue[i].len
            /\ queue'[i].worker = queue[i].worker
            /\ queue'[i].done <=> queue[i].done \/ queue[i].worker = w
    BY <2>2, <2>4, <2>6
  <2> QED BY <2>5, <2>7 DEF E
<1>4. /\ TypeOK' /\ OthersKeep(w) /\ pc'[w] = "idle"
      /\ seen_off'[w] = Unlocked(RBUF_OFF_MAX)
  BY <1>1, <1>3, SmallValues DEF TypeOK, OthersKeep, ringbuf_produce
<1>5. WordInv'
  <2>1. \A v \in Workers : SeenInv(v)'
    <3> TAKE v \in Workers
    <3>1. CASE v = w
      BY <1>1, <1>4, <3>1 DEF SeenInv, Trying
    <3>2. CASE v # w
      BY <1>1, <1>4, <3>2, SeenFrame DEF WordInv, OthersKeep
    <3> QED BY <3>1, <3>2
  <2>2. \A v \in Workers : PublishInv(v)'
    <3> TAKE v \in Workers
    <3>1. CASE v = w
      BY <1>1, <1>4, <3>1, SmallValues DEF PublishInv, Trying
    <3>2. CASE v # w
      BY <1>1, <1>4, <3>2, PublishFrame DEF WordInv, OthersKeep
    <3> QED BY <3>1, <3>2
  <2>3. \A v \in Workers : Holder(v)' => Holder(v)
    BY <1>1, <1>4 DEF Holder, OthersKeep
  <2>4. LockInv'
    BY <1>1, <1>4, <2>3 DEF WordInv, LockInv, OthersKeep
  <2> QED BY <1>1, <2>1, <2>2, <2>4 DEF WordInv
<1>6. PICK e \in 0 .. Space, m \in 0 .. Len(queue) : LayoutInv(e, m)
  BY DEF IInv
<1>7. TilingInv(e, m)' /\ Straight' = Straight /\ Top(e)' = Top(e)
  BY <1>1, <1>2, <1>3, <1>6, TilingFrame DEF LayoutInv
<1>8. ConsumesProducedPrefix'
  <2> SUFFICES ASSUME cpc = "consuming" PROVE ConsumesProducedPrefix'
    BY <1>1 DEF ConsumesProducedPrefix
  <2>1. PICK k \in 1 .. Len(queue) : Tiles(k) /\ \A i \in 1 .. k : queue[i].done
    BY DEF IInv, ConsumesProducedPrefix
  <2>2. /\ 1 \in 1 .. Len(queue) /\ k \in 1 .. Len(queue)
        /\ \A i \in 1 .. k : i \in 1 .. Len(queue)
        /\ \A i \in 1 .. k - 1 : i \in 1 .. Len(queue) /\ i + 1 \in 1 .. Len(queue)
    BY <1>2
  <2>3. Tiles(k)'
    BY <1>1, <1>3, <2>1, <2>2 DEF Tiles
  <2>4. \A i \in 1 .. k : queue'[i].done
    BY <1>3, <2>1, <2>2
  <2> QED BY <1>3, <2>1, <2>3, <2>4 DEF ConsumesProducedPrefix
<1>9. CutInv(e)'
  <2>1. \A v \in Workers : Cutting(v)' <=> Cutting(v)
    BY <1>1, <1>4 DEF Cutting, OthersKeep
  <2> QED BY <1>1, <1>6, <1>7, <2>1 DEF LayoutInv, CutInv
<1>10. \A i \in 1 .. Len(queue) : ~queue'[i].done =>
          ~queue[i].done /\ queue'[i].worker = queue[i].worker
          /\ queue[i].worker \in Workers \ {w}
  BY <1>2, <1>3
<1>11. OwnerInv(e, m)'
  <2>1. ASSUME NEW i \in 1 .. Len(queue), ~queue'[i].done
        PROVE  /\ pc'[queue'[i].worker] \in Owning
               /\ registered'[queue'[i].worker]
               /\ queue'[i].worker \notin mark_pending'
               /\ \/ seen_off'[queue'[i].worker].off = queue'[i].off
                  \/ /\ i = m + 1 /\ seen_off'[queue'[i].worker].off = e
                     /\ cpc' \notin {"clear_end", "reset"}
    BY <1>1, <1>3, <1>4, <1>6, <1>10, <2>1 DEF LayoutInv, OwnerInv, OthersKeep
  <2>2. ASSUME NEW v \in Workers, pc'[v] \in Owning
        PROVE  \E i \in 1 .. Len(queue) : ~queue'[i].done /\ queue'[i].worker = v
    <3>1. v # w /\ pc[v] \in Owning
      BY <1>4, <2>2 DEF OthersKeep, Owning
    <3>2. PICK i \in 1 .. Len(queue) : ~queue[i].done /\ queue[i].worker = v
      BY <1>6, <3>1 DEF LayoutInv, OwnerInv
    <3> QED BY <1>3, <3>1, <3>2
  <2> QED BY <1>3, <2>1, <2>2 DEF OwnerInv
<1>12. ObserveInv(e, m)'
  <2>1. \A x : Boundary(e, m, x) => Boundary(e, m, x)'
    BY <1>2, <1>3, <1>7 DEF Boundary
  <2>2. ASSUME cpc = "observe", NEW i \in 1 .. Len(queue), ~queue'[i].done,
               queue'[i].worker < visiting, InRange(seen_off[queue[i].worker].off)
        PROVE  ready <= seen_off[queue[i].worker].off
    BY <1>6, <1>10, <2>2 DEF LayoutInv, ObserveInv
  <2>3. \A i \in 1 .. Len(queue) : ~queue'[i].done =>
           seen_off'[queue'[i].worker] = seen_off[queue[i].worker]
    BY <1>4, <1>10 DEF OthersKeep
  <2>4. \A x : InRange(x)' <=> InRange(x)
    BY <1>1 DEF InRange
  <2> QED BY <1>1, <1>3, <1>6, <1>7, <2>1, <2>2, <2>3, <2>4 DEF LayoutInv, ObserveInv
<1> QED BY <1>3, <1>4, <1>5, <1>6, <1>7, <1>8, <1>9, <1>11, <1>12 DEF IInv, LayoutInv

-----------------------------------------------------------------------------
(***************************************************************************)
(* The compare-and-swap.  Its word is still the one the worker checked, so *)
(* the checks still hold; what it appends lies at 'next' or, when it       *)
(* exceeds the buffer, at the start.                                       *)
(***************************************************************************)
LEMMA CasFacts ==
    ASSUME NEW w \in Workers, IInv, acquire_cas(w)
    PROVE  /\ TypeOK /\ WordInv /\ pc[w] = "checked" /\ w \notin mark_pending
           /\ next = seen[w] /\ ~next.locked /\ next' = target[w] /\ len[w] \in Lengths
           /\ registered[w] /\ seen_off[w] = Locked(next.off)
           /\ UNCHANGED <<end, written, seen, target, registered, mark_pending, seen_off,
                          cpc, cnext, ready, visiting, clen>>
           /\ OthersKeep(w) /\ pc'[w] = "acquired"
           /\ next.off \in 0 .. Space - 1 /\ written \in 0 .. Space - 1
           /\ len[w] \in 1 .. Space /\ next' \in NextWords /\ next'.off \in 0 .. Space - 1
           /\ \/ /\ next.off + len[w] < Space
                 /\ next.off < written => next.off + len[w] < written
                 /\ next'.off = next.off + len[w]
                 /\ next'.wraps = next.wraps /\ ~next'.locked
              \/ /\ next.off + len[w] = Space /\ written <= next.off /\ written > 0
                 /\ next'.off = 0 /\ next'.wraps # next.wraps /\ ~next'.locked
              \/ /\ next.off + len[w] > Space /\ written <= next.off /\ len[w] < written
                 /\ next'.off = len[w] /\ next'.wraps # next.wraps /\ next'.locked
<1>1. /\ TypeOK /\ WordInv /\ SeenInv(w) /\ PublishInv(w) /\ pc[w] = "checked"
      /\ w \notin mark_pending /\ next = seen[w] /\ next' = target[w]
      /\ UNCHANGED <<end, written, seen, target, registered, mark_pending, seen_off,
                     cpc, cnext, ready, visiting, clen>>
  BY DEF IInv, WordInv, acquire_cas, workerVars, consumerVars
<1>2. /\ next \in NextWords /\ len[w] \in Lengths /\ written \in Offsets
      /\ next.off < Space /\ ~next.locked
      /\ target[w] = Target(next, len[w]) /\ ~MustWait(next, len[w], written)
  BY <1>1 DEF TypeOK, SeenInv, Trying
<1>3. registered[w] /\ seen_off[w] = Locked(next.off)
  BY <1>1 DEF PublishInv, Trying
<1>4. OthersKeep(w) /\ pc'[w] = "acquired"
  BY <1>1 DEF OthersKeep, acquire_cas, TypeOK
<1>5. /\ next.off \in 0 .. Space - 1 /\ written \in 0 .. Space - 1
      /\ len[w] \in 1 .. Space
  BY <1>2, Constants DEF NextWords, Offsets, Lengths
<1>6. LET t == next'
      IN  /\ t \in NextWords /\ t.off < Space
          /\ \/ /\ next.off + len[w] < Space
                /\ next.off < written => next.off + len[w] < written
                /\ t.off = next.off + len[w]
                /\ t.wraps = next.wraps /\ ~t.locked
             \/ /\ next.off + len[w] = Space /\ written <= next.off /\ written > 0
                /\ t.off = 0 /\ t.wraps # next.wraps /\ ~t.locked
             \/ /\ next.off + len[w] > Space /\ written <= next.off /\ len[w] < written
                /\ t.off = len[w] /\ t.wraps # next.wraps /\ t.locked
  BY <1>1, <1>2, TargetCases
<1>7. next'.off \in 0 .. Space - 1
  BY <1>6, Constants DEF NextWords
<1> QED BY <1>1, <1>2, <1>3, <1>4, <1>5, <1>6, <1>7

LEMMA CasQueue ==
    ASSUME NEW w \in Workers, IInv, acquire_cas(w)
    PROVE  /\ queue' \in Seq([worker : Workers, off : Offsets, len : Lengths,
                              done : BOOLEAN])
           /\ Len(queue) \in Nat /\ Len(queue') = Len(queue) + 1
           /\ \A i \in 1 .. Len(queue) : queue'[i] = queue[i]
           /\ LET n == queue'[Len(queue) + 1]
              IN  /\ n.worker = w /\ n.len = len[w] /\ ~n.done
                  /\ n.off = IF next'.locked THEN 0 ELSE next.off
<1> DEFINE E == [worker : Workers, off : Offsets, len : Lengths, done : BOOLEAN]
           n == [worker |-> w, off |-> AcquiredOff(w), len |-> len[w], done |-> FALSE]
<1>1. AcquiredOff(w) = IF next'.locked THEN 0 ELSE next.off
  BY CasFacts DEF AcquiredOff
<1>2. AcquiredOff(w) \in Offsets
  BY <1>1, CasFacts, Constants DEF Offsets
<1>3. n \in E
  BY <1>2, CasFacts
<1>4. queue \in Seq(E) /\ queue' = Append(queue, n)
  BY CasFacts DEF TypeOK, acquire_cas
<1>5. /\ n.worker = w /\ n.len = len[w] /\ ~n.done /\ n.off = AcquiredOff(w)
  OBVIOUS
<1> HIDE DEF E, n
<1>6. /\ queue' \in Seq(E) /\ Len(queue) \in Nat /\ Len(queue') = Len(queue) + 1
      /\ \A i \in 1 .. Len(queue) : queue'[i] = queue[i]
      /\ queue'[Len(queue) + 1] = n
  BY <1>3, <1>4
<1> QED BY <1>1, <1>5, <1>6 DEF E

LEMMA CasWord ==
    ASSUME NEW w \in Workers, IInv, acquire_cas(w)
    PROVE  TypeOK' /\ WordInv'
<1>1. TypeOK'
  <2>1. len' \in [Workers -> Lengths] /\ pc' = [pc EXCEPT ![w] = "acquired"]
    BY CasFacts, SmallValues DEF acquire_cas, TypeOK
  <2>2. /\ TypeOK /\ next' \in NextWords
        /\ UNCHANGED <<end, written, seen, target, registered, mark_pending, seen_off,
                       cpc, cnext, ready, visiting, clen>>
    BY CasFacts
  <2>3. queue' \in Seq([worker : Workers, off : Offsets, len : Lengths, done : BOOLEAN])
    BY CasQueue
  <2> QED BY <2>1, <2>2, <2>3 DEF TypeOK
<1>2. \A v \in Workers : SeenInv(v)'
  <2> TAKE v \in Workers
  <2>1. CASE v = w
    BY <2>1, CasFacts DEF SeenInv, WordInv, Trying
  <2>2. CASE v # w
    <3>1. /\ pc'[v] = pc[v] /\ len'[v] = len[v] /\ seen'[v] = seen[v]
          /\ target'[v] = target[v] /\ SeenInv(v) /\ seen[v].off \in Int
      BY <2>2, CasFacts DEF OthersKeep, WordInv, TypeOK, NextWords
    <3>2. CASE next'.wraps = next.wraps
      <4>1. next'.off > next.off /\ ~next'.locked
        BY <3>2, CasFacts
      <4>2. pc[v] \in Trying /\ seen[v].wraps = next'.wraps => seen[v].off < next'.off
        BY <3>1, <3>2, <4>1, CasFacts DEF SeenInv
      <4> QED BY <3>1, <4>1, <4>2, CasFacts DEF SeenInv, Trying
    <3>3. CASE next'.wraps # next.wraps
      <4>1. pc[v] \in Trying => seen[v].wraps # next'.wraps
        BY <2>2, <3>3, CasFacts DEF acquire_cas, NoFullLap, Trying
      <4> QED BY <3>1, <4>1 DEF SeenInv, Trying
    <3> QED BY <3>2, <3>3
  <2> QED BY <2>1, <2>2
<1>3. \A v \in Workers : PublishInv(v)'
  <2> TAKE v \in Workers
  <2>1. CASE v = w
    BY <2>1, CasFacts DEF PublishInv, Trying, Locked
  <2>2. CASE v # w
    BY <2>2, CasFacts, PublishFrame DEF WordInv, OthersKeep
  <2> QED BY <2>1, <2>2
<1>4. LockInv'
  <2>1. \A v \in Workers : ~Holder(v)
    BY CasFacts DEF WordInv, LockInv, Holder
  <2>2. \A v \in Workers : Holder(v)' => v = w
    BY <2>1, CasFacts DEF Holder, OthersKeep
  <2>3. \A v \in Workers : pc'[v] \in {"set_end", "unlock"} => target'[v].locked
    BY CasFacts DEF WordInv, LockInv, OthersKeep
  <2> QED BY <2>2, <2>3, CasFacts DEF LockInv
<1>5. next'.off < Space
  BY CasFacts, Constants
<1> QED BY <1>1, <1>2, <1>3, <1>4, <1>5 DEF WordInv

LEMMA CasPrefix ==
    ASSUME NEW w \in Workers, IInv, acquire_cas(w)
    PROVE  ConsumesProducedPrefix'
<1> SUFFICES ASSUME cpc = "consuming" PROVE ConsumesProducedPrefix'
  BY CasFacts DEF ConsumesProducedPrefix
<1>1. PICK k \in 1 .. Len(queue) : Tiles(k) /\ \A i \in 1 .. k : queue[i].done
  BY DEF IInv, ConsumesProducedPrefix
<1>2. /\ 1 \in 1 .. Len(queue) /\ k \in 1 .. Len(queue) + 1
      /\ \A i \in 1 .. k : i \in 1 .. Len(queue)
      /\ \A i \in 1 .. k - 1 : i \in 1 .. Len(queue) /\ i + 1 \in 1 .. Len(queue)
  BY CasQueue
<1>3. \A i \in 1 .. Len(queue) : queue'[i] = queue[i]
  BY CasQueue
<1>4. Tiles(k)' /\ \A i \in 1 .. k : queue'[i].done
  BY <1>1, <1>2, <1>3, CasFacts DEF Tiles
<1> QED BY <1>2, <1>4, CasQueue DEF ConsumesProducedPrefix

(***************************************************************************)
(* The owners and the consumer's observations after the compare-and-swap,  *)
(* for the new cut f and the new number n of entries in the first lap.     *)
(***************************************************************************)
LEMMA CasOwner ==
    ASSUME NEW w \in Workers, IInv, acquire_cas(w),
           NEW e \in 0 .. Space, NEW m \in 0 .. Len(queue), LayoutInv(e, m),
           NEW f, NEW n,
           \/ f = e /\ n = m /\ ~next'.locked
           \/ Straight /\ n = Len(queue) + 1 /\ ~next'.locked
           \/ Straight /\ n = Len(queue) /\ f = next.off /\ next'.locked
    PROVE  OwnerInv(f, n)'
<1>1. /\ Len(queue) \in Nat /\ Len(queue') = Len(queue) + 1
      /\ \A i \in 1 .. Len(queue) : queue'[i] = queue[i]
      /\ queue'[Len(queue) + 1].worker = w /\ ~queue'[Len(queue) + 1].done
      /\ queue'[Len(queue) + 1].off = IF next'.locked THEN 0 ELSE next.off
  BY CasQueue
<1>2. /\ pc[w] = "checked" /\ w \notin mark_pending /\ registered[w]
      /\ seen_off[w].off = next.off
      /\ UNCHANGED <<registered, mark_pending, seen_off, cpc>>
      /\ pc'[w] = "acquired" /\ \A v \in Workers \ {w} : pc'[v] = pc[v]
  BY CasFacts DEF Locked, OthersKeep
<1>3. Straight => m = Len(queue) /\ cpc \notin {"clear_end", "reset"}
  BY DEF LayoutInv, TilingInv, CutInv
<1>4. ASSUME NEW i \in 1 .. Len(queue), ~queue[i].done
      PROVE  /\ queue[i].worker \in Workers \ {w}
             /\ pc[queue[i].worker] \in Owning
             /\ registered[queue[i].worker]
             /\ queue[i].worker \notin mark_pending
             /\ \/ seen_off[queue[i].worker].off = queue[i].off
                \/ /\ i = n + 1 /\ seen_off[queue[i].worker].off = f
                   /\ cpc \notin {"clear_end", "reset"}
  <2>1. queue[i].worker \in Workers
    BY Entries DEF IInv
  <2>2. /\ pc[queue[i].worker] \in Owning
        /\ registered[queue[i].worker]
        /\ queue[i].worker \notin mark_pending
        /\ \/ seen_off[queue[i].worker].off = queue[i].off
           \/ /\ i = m + 1 /\ seen_off[queue[i].worker].off = e
              /\ cpc \notin {"clear_end", "reset"}
    BY <1>4 DEF LayoutInv, OwnerInv
  <2>3. Straight => i # m + 1
    BY <1>1, <1>3
  <2> QED BY <1>2, <2>1, <2>2, <2>3 DEF Owning
<1>5. ASSUME NEW i \in 1 .. Len(queue'), ~queue'[i].done
      PROVE  /\ pc'[queue'[i].worker] \in Owning
             /\ registered'[queue'[i].worker]
             /\ queue'[i].worker \notin mark_pending'
             /\ \/ seen_off'[queue'[i].worker].off = queue'[i].off
                \/ /\ i = n + 1 /\ seen_off'[queue'[i].worker].off = f
                   /\ cpc' \notin {"clear_end", "reset"}
  <2>1. CASE i \in 1 .. Len(queue)
    <3>1. queue'[i] = queue[i] /\ ~queue[i].done
      BY <1>1, <1>5, <2>1
    <3> QED BY <1>2, <1>4, <2>1, <3>1
  <2>2. CASE i = Len(queue) + 1
    BY <1>1, <1>2, <1>3, <2>2 DEF Owning
  <2> QED BY <1>1, <2>1, <2>2
<1>6. ASSUME NEW v \in Workers, pc'[v] \in Owning
      PROVE  \E i \in 1 .. Len(queue') : ~queue'[i].done /\ queue'[i].worker = v
  <2>1. CASE v = w
    <3>1. Len(queue) + 1 \in 1 .. Len(queue')
      BY <1>1
    <3> QED BY <1>1, <2>1, <3>1
  <2>2. CASE v # w
    <3>1. PICK i \in 1 .. Len(queue) : ~queue[i].done /\ queue[i].worker = v
      BY <1>2, <1>6, <2>2 DEF LayoutInv, OwnerInv
    <3>2. i \in 1 .. Len(queue')
      BY <1>1
    <3> QED BY <1>1, <3>1, <3>2
  <2> QED BY <2>1, <2>2
<1> QED BY <1>5, <1>6 DEF OwnerInv

LEMMA CasObserve ==
    ASSUME NEW w \in Workers, IInv, acquire_cas(w),
           NEW e \in 0 .. Space, NEW m \in 0 .. Len(queue), LayoutInv(e, m),
           NEW f, NEW n,
           \A x : Boundary(e, m, x) => Boundary(f, n, x)',
           ~Straight => ~Straight' /\ ~next'.locked
    PROVE  ObserveInv(f, n)'
<1>1. /\ Len(queue) \in Nat /\ Len(queue') = Len(queue) + 1
      /\ \A i \in 1 .. Len(queue) : queue'[i] = queue[i]
      /\ queue'[Len(queue) + 1].worker = w
  BY CasQueue
<1>2. /\ seen_off[w].off = next.off
      /\ UNCHANGED <<written, seen_off, cpc, cnext, ready, visiting>>
      /\ next.off \in Int /\ written \in Int /\ cnext \in Int
  BY CasFacts DEF Locked, TypeOK
<1> SUFFICES ASSUME cpc = "observe" PROVE ObserveInv(f, n)'
  BY <1>2 DEF LayoutInv, ObserveInv
<1>3. \A x : InRange(x)' <=> InRange(x)
  BY <1>2 DEF InRange
<1>4. ~InRange(next.off)
  <2>1. CASE Straight
    <3>1. cnext > written /\ Boundary(e, m, cnext) /\ Top(e) = next.off
      BY <1>2, <2>1 DEF LayoutInv, ObserveInv, Top
    <3>2. ASSUME NEW i \in 1 .. m
          PROVE  queue[i].off <= next.off
      <4>1. EndOf(i) <= next.off
        BY <3>1 DEF LayoutInv, TilingInv
      <4>2. i \in 1 .. Len(queue)
        BY <1>1
      <4>3. queue[i].off \in Nat /\ queue[i].len \in Nat
        BY <4>2, Entries, Constants DEF IInv
      <4> QED BY <1>2, <4>1, <4>3 DEF EndOf
    <3>3. cnext <= next.off
      BY <1>2, <3>1, <3>2 DEF Boundary
    <3> QED BY <1>2, <3>1, <3>3 DEF InRange
  <2>2. CASE ~Straight
    BY <1>2, <2>2 DEF Straight, InRange
  <2> QED BY <2>1, <2>2
<1>5. ASSUME NEW i \in 1 .. Len(queue'), ~queue'[i].done, queue'[i].worker < visiting,
             InRange(seen_off[queue'[i].worker].off)
      PROVE  ready <= seen_off[queue'[i].worker].off
  <2>1. CASE i \in 1 .. Len(queue)
    BY <1>1, <1>5, <2>1 DEF LayoutInv, ObserveInv
  <2>2. CASE i = Len(queue) + 1
    BY <1>1, <1>2, <1>4, <1>5, <2>2
  <2> QED BY <1>1, <2>1, <2>2
<1>6. /\ cnext # written /\ ready >= written
      /\ cnext < written => ~Straight' /\ ~next'.locked
      /\ cnext > written => Boundary(f, n, cnext)'
      /\ ready = RBUF_OFF_MAX \/ Boundary(f, n, ready)'
  BY <1>2 DEF LayoutInv, ObserveInv, Boundary
<1> QED BY <1>2, <1>3, <1>5, <1>6 DEF ObserveInv

LEMMA CasEnds ==
    ASSUME NEW w \in Workers, IInv, acquire_cas(w), NEW q \in Nat, q = Len(queue)
    PROVE  /\ Len(queue') = q + 1
           /\ \A i \in 1 .. q :
                 /\ queue'[i].off = queue[i].off /\ EndOf(i)' = EndOf(i)
                 /\ queue[i].off \in Nat /\ EndOf(i) \in Nat /\ queue[i].off < EndOf(i)
           /\ EndOf(q + 1)' = queue'[q + 1].off + len[w]
           /\ queue'[q + 1].off = IF next'.locked THEN 0 ELSE next.off
<1>1. \A i \in 1 .. q : queue[i].off \in Nat /\ queue[i].len \in Nat \ {0}
  BY Entries, Constants DEF IInv
<1>2. /\ Len(queue') = q + 1
      /\ \A i \in 1 .. q : queue'[i] = queue[i]
      /\ queue'[q + 1].len = len[w]
      /\ queue'[q + 1].off = IF next'.locked THEN 0 ELSE next.off
  BY CasQueue
<1> QED BY <1>1, <1>2 DEF EndOf

(***************************************************************************)
(* Within the lap, the producers being in the lap of the consumer.         *)
(***************************************************************************)
LEMMA CasStraight ==
    ASSUME NEW w \in Workers, IInv, acquire_cas(w),
           NEW e \in 0 .. Space, NEW m \in 0 .. Len(queue), LayoutInv(e, m),
           NEW q \in Nat, q = Len(queue), Straight, next'.off = next.off + len[w], ~next'.locked
    PROVE  LayoutInv(e, q + 1)'
<1>1. /\ Len(queue') = q + 1 /\ m = q
      /\ next.off \in Nat /\ written \in Nat /\ len[w] \in Nat \ {0}
      /\ UNCHANGED <<end, written, seen, target, cpc>>
  BY CasEnds, CasFacts, Constants DEF LayoutInv, TilingInv
<1>2. Straight' /\ Top(e) = next.off /\ Top(e)' = next.off + len[w]
  BY <1>1 DEF Straight, Top
<1>3. queue'[q + 1].off = next.off /\ EndOf(q + 1)' = next.off + len[w]
  BY CasEnds
<1>4. \A i \in 1 .. q :
         /\ queue'[i].off = queue[i].off /\ EndOf(i)' = EndOf(i)
         /\ queue[i].off \in Nat /\ EndOf(i) \in Nat
  BY CasEnds
<1>5. /\ \A i \in 1 .. q : queue[i].off >= written /\ EndOf(i) <= next.off
      /\ \A i, j \in 1 .. q : i < j => EndOf(i) <= queue[j].off
      /\ \A i \in 1 .. q - 1 : queue[i + 1].off = EndOf(i)
      /\ q = 0 => written = next.off
      /\ q # 0 => queue[1].off = written /\ EndOf(q) = next.off
  BY <1>1, <1>2 DEF LayoutInv, TilingInv
<1>6. TilingInv(e, q + 1)'
  <2>1. ASSUME NEW i \in 1 .. q + 1
        PROVE  queue'[i].off >= written /\ EndOf(i)' <= next.off + len[w]
    <3>1. CASE i \in 1 .. q
      <4>1. /\ queue'[i].off = queue[i].off /\ EndOf(i)' = EndOf(i)
            /\ EndOf(i) \in Nat
        BY <1>4, <3>1
      <4>2. queue[i].off >= written /\ EndOf(i) <= next.off
        BY <1>5, <3>1
      <4> QED BY <1>1, <4>1, <4>2
    <3>2. CASE i = q + 1
      BY <1>1, <1>3, <3>2 DEF Straight
    <3> QED BY <3>1, <3>2
  <2>2. ASSUME NEW i \in 1 .. q + 1, NEW j \in 1 .. q + 1, i < j
        PROVE  EndOf(i)' <= queue'[j].off
    <3>1. i \in 1 .. q
      BY <1>1, <2>2
    <3>2. CASE j \in 1 .. q
      BY <1>4, <1>5, <2>2, <3>1, <3>2
    <3>3. CASE j = q + 1
      BY <1>3, <1>4, <1>5, <3>1, <3>3
    <3> QED BY <1>1, <3>2, <3>3
  <2>3. ASSUME NEW i \in 1 .. q
        PROVE  queue'[i + 1].off = EndOf(i)'
    <3>1. CASE i = q
      BY <1>1, <1>3, <1>4, <1>5, <3>1
    <3>2. CASE i # q
      <4>1. i \in 1 .. q - 1 /\ i + 1 \in 1 .. q
        BY <1>1, <3>2
      <4> QED BY <1>4, <1>5, <4>1
    <3> QED BY <3>1, <3>2
  <2>4. queue'[1].off = written
    <3>1. CASE q = 0
      BY <1>3, <1>5, <3>1
    <3>2. CASE q # 0
      <4>1. 1 \in 1 .. q
        BY <1>1, <3>2
      <4> QED BY <1>4, <1>5, <3>2, <4>1
    <3> QED BY <3>1, <3>2
  <2> QED BY <1>1, <1>2, <1>3, <2>1, <2>2, <2>3, <2>4 DEF TilingInv
<1>7. CutInv(e)'
  <2>1. \A v \in Workers : ~Cutting(v)'
    <3>1. \A v \in Workers : ~Cutting(v)
      BY DEF LayoutInv, CutInv
    <3>2. ~target'[w].locked
      BY CasFacts
    <3> QED BY <3>1, <3>2, CasFacts DEF Cutting, OthersKeep
  <2>2. end = RBUF_OFF_MAX /\ cpc \notin {"clear_end", "reset"}
    BY DEF LayoutInv, CutInv
  <2> QED BY <1>1, <1>2, <2>1, <2>2 DEF CutInv
<1>8. \A x : Boundary(e, m, x) => Boundary(e, q + 1, x)'
  <2> TAKE x
  <2>1. CASE x = Top(e)
    <3>1. q + 1 \in 1 .. q + 1
      BY <1>1
    <3> QED BY <1>2, <1>3, <2>1, <3>1 DEF Boundary
  <2>2. ASSUME NEW i \in 1 .. m, queue[i].off = x
        PROVE  Boundary(e, q + 1, x)'
    <3>1. i \in 1 .. q /\ i \in 1 .. q + 1
      BY <1>1
    <3> QED BY <1>4, <2>2, <3>1 DEF Boundary
  <2> QED BY <2>1, <2>2 DEF Boundary
<1>9. OwnerInv(e, q + 1)' /\ ObserveInv(e, q + 1)'
  BY <1>8, CasOwner, CasObserve
<1> QED BY <1>6, <1>7, <1>9 DEF LayoutInv

(***************************************************************************)
(* Within the lap, the producers being one lap ahead of the consumer.      *)
(***************************************************************************)
LEMMA CasAhead ==
    ASSUME NEW w \in Workers, IInv, acquire_cas(w),
           NEW e \in 0 .. Space, NEW m \in 0 .. Len(queue), LayoutInv(e, m),
           NEW q \in Nat, q = Len(queue), ~Straight,
           next'.off = next.off + len[w], next'.off < written, ~next'.locked
    PROVE  LayoutInv(e, m)'
<1>1. /\ Len(queue') = q + 1 /\ m \in 0 .. q
      /\ next.off \in Nat /\ written \in Nat /\ len[w] \in Nat \ {0}
      /\ UNCHANGED <<end, written, seen, target, cpc>>
  BY CasEnds, CasFacts, Constants
<1>2. ~Straight' /\ Top(e) = e /\ Top(e)' = e
  BY <1>1 DEF Straight, Top
<1>3. queue'[q + 1].off = next.off /\ EndOf(q + 1)' = next.off + len[w]
  BY CasEnds
<1>4. \A i \in 1 .. q :
         /\ queue'[i].off = queue[i].off /\ EndOf(i)' = EndOf(i)
         /\ queue[i].off \in Nat /\ EndOf(i) \in Nat
  BY CasEnds
<1>5. /\ \A i \in 1 .. m : queue[i].off >= written /\ EndOf(i) <= e
      /\ \A i \in m + 1 .. q : EndOf(i) <= next.off
      /\ \A i, j \in 1 .. q : i < j /\ (j <= m \/ m < i) => EndOf(i) <= queue[j].off
      /\ \A i \in 1 .. q - 1 : i # m => queue[i + 1].off = EndOf(i)
      /\ m = 0 => written = e
      /\ m # 0 => queue[1].off = written /\ EndOf(m) = e
      /\ m < q => queue[m + 1].off = 0 /\ EndOf(q) = next.off
      /\ m = q => next.off = 0
  BY <1>2 DEF LayoutInv, TilingInv
<1>6. TilingInv(e, m)'
  <2>1. ASSUME NEW i \in 1 .. m
        PROVE  queue'[i].off >= written /\ EndOf(i)' <= e
    <3>1. i \in 1 .. q
      BY <1>1
    <3>2. queue'[i].off = queue[i].off /\ EndOf(i)' = EndOf(i)
      BY <1>4, <3>1
    <3> QED BY <1>5, <3>2
  <2>2. ASSUME NEW i \in m + 1 .. q + 1
        PROVE  EndOf(i)' <= next.off + len[w]
    <3>1. CASE i \in m + 1 .. q
      BY <1>1, <1>4, <1>5, <3>1
    <3>2. CASE i = q + 1
      BY <1>1, <1>3, <3>2
    <3> QED BY <1>1, <3>1, <3>2
  <2>3. ASSUME NEW i \in 1 .. q + 1, NEW j \in 1 .. q + 1, i < j, j <= m \/ m < i
        PROVE  EndOf(i)' <= queue'[j].off
    <3>1. i \in 1 .. q
      BY <2>3
    <3>2. CASE j \in 1 .. q
      BY <1>4, <1>5, <2>3, <3>1, <3>2
    <3>3. CASE j = q + 1
      BY <1>1, <1>3, <1>4, <1>5, <2>3, <3>1, <3>3
    <3> QED BY <3>2, <3>3
  <2>4. ASSUME NEW i \in 1 .. q, i # m
        PROVE  queue'[i + 1].off = EndOf(i)'
    <3>1. CASE i = q
      BY <1>1, <1>3, <1>4, <1>5, <2>4, <3>1
    <3>2. CASE i # q
      <4>1. i \in 1 .. q - 1 /\ i + 1 \in 1 .. q
        BY <3>2
      <4> QED BY <1>4, <1>5, <2>4, <4>1
    <3> QED BY <3>1, <3>2
  <2>5. m # 0 => queue'[1].off = written /\ EndOf(m)' = e
    <3> SUFFICES ASSUME m # 0 PROVE queue'[1].off = written /\ EndOf(m)' = e
      OBVIOUS
    <3>1. 1 \in 1 .. q /\ m \in 1 .. q
      BY <1>1
    <3>2. queue'[1].off = queue[1].off /\ EndOf(m)' = EndOf(m)
      BY <1>4, <3>1
    <3> QED BY <1>5, <3>2
  <2>6. queue'[m + 1].off = 0
    <3>1. CASE m = q
      BY <1>3, <1>5, <3>1
    <3>2. CASE m < q
      BY <1>1, <1>4, <1>5, <3>2
    <3> QED BY <1>1, <3>1, <3>2
  <2> QED BY <1>1, <1>2, <1>3, <1>5, <2>1, <2>2, <2>3, <2>4, <2>5, <2>6 DEF TilingInv
<1>7. CutInv(e)'
  <2>1. \A v \in Workers : ~Cutting(v)' /\ ~Cutting(v)
    <3>1. \A v \in Workers : ~Cutting(v)
      BY CasFacts DEF Cutting, WordInv, LockInv, Holder
    <3>2. ~target'[w].locked
      BY CasFacts
    <3> QED BY <3>1, <3>2, CasFacts DEF Cutting, OthersKeep
  <2>2. next'.off > 0
    BY <1>1
  <2> QED BY <1>1, <1>2, <2>1, <2>2 DEF LayoutInv, CutInv
<1>8. \A x : Boundary(e, m, x) => Boundary(e, m, x)'
  <2>1. \A i \in 1 .. m : queue'[i].off = queue[i].off
    BY <1>1, <1>4
  <2> QED BY <1>2, <2>1 DEF Boundary
<1>9. OwnerInv(e, m)' /\ ObserveInv(e, m)'
  BY <1>2, <1>8, CasOwner, CasObserve
<1> QED BY <1>6, <1>7, <1>9 DEF LayoutInv

(***************************************************************************)
(* Up to the end of the buffer exactly: the cut is the end.                *)
(***************************************************************************)
LEMMA CasExact ==
    ASSUME NEW w \in Workers, IInv, acquire_cas(w),
           NEW e \in 0 .. Space, NEW m \in 0 .. Len(queue), LayoutInv(e, m),
           NEW q \in Nat, q = Len(queue), Straight, written > 0,
           next.off + len[w] = Space, next'.off = 0, ~next'.locked
    PROVE  LayoutInv(Space, q + 1)'
<1>1. /\ Len(queue') = q + 1 /\ m = q /\ Space \in Nat
      /\ next.off \in Nat /\ written \in Nat /\ len[w] \in Nat \ {0}
      /\ UNCHANGED <<end, written, seen, target, cpc>>
  BY CasEnds, CasFacts, Constants DEF LayoutInv, TilingInv
<1>2. ~Straight' /\ Top(e) = next.off /\ Top(Space)' = Space
  BY <1>1 DEF Straight, Top
<1>3. queue'[q + 1].off = next.off /\ EndOf(q + 1)' = Space
  BY CasEnds
<1>4. \A i \in 1 .. q :
         /\ queue'[i].off = queue[i].off /\ EndOf(i)' = EndOf(i)
         /\ queue[i].off \in Nat /\ EndOf(i) \in Nat
  BY CasEnds
<1>5. /\ \A i \in 1 .. q : queue[i].off >= written /\ EndOf(i) <= next.off
      /\ \A i, j \in 1 .. q : i < j => EndOf(i) <= queue[j].off
      /\ \A i \in 1 .. q - 1 : queue[i + 1].off = EndOf(i)
      /\ q = 0 => written = next.off
      /\ q # 0 => queue[1].off = written /\ EndOf(q) = next.off
  BY <1>1, <1>2 DEF LayoutInv, TilingInv
<1>6. TilingInv(Space, q + 1)'
  <2>1. ASSUME NEW i \in 1 .. q + 1
        PROVE  queue'[i].off >= written /\ EndOf(i)' <= Space
    <3>1. CASE i \in 1 .. q
      <4>1. /\ queue'[i].off = queue[i].off /\ EndOf(i)' = EndOf(i)
            /\ EndOf(i) \in Nat
        BY <1>4, <3>1
      <4>2. queue[i].off >= written /\ EndOf(i) <= next.off
        BY <1>5, <3>1
      <4> QED BY <1>1, <4>1, <4>2
    <3>2. CASE i = q + 1
      BY <1>1, <1>3, <3>2 DEF Straight
    <3> QED BY <3>1, <3>2
  <2>2. ASSUME NEW i \in 1 .. q + 1, NEW j \in 1 .. q + 1, i < j
        PROVE  EndOf(i)' <= queue'[j].off
    <3>1. i \in 1 .. q
      BY <1>1, <2>2
    <3>2. CASE j \in 1 .. q
      BY <1>4, <1>5, <2>2, <3>1, <3>2
    <3>3. CASE j = q + 1
      BY <1>3, <1>4, <1>5, <3>1, <3>3
    <3> QED BY <1>1, <3>2, <3>3
  <2>3. ASSUME NEW i \in 1 .. q
        PROVE  queue'[i + 1].off = EndOf(i)'
    <3>1. CASE i = q
      BY <1>1, <1>3, <1>4, <1>5, <3>1
    <3>2. CASE i # q
      <4>1. i \in 1 .. q - 1 /\ i + 1 \in 1 .. q
        BY <1>1, <3>2
      <4> QED BY <1>4, <1>5, <4>1
    <3> QED BY <3>1, <3>2
  <2>4. queue'[1].off = written
    <3>1. CASE q = 0
      BY <1>3, <1>5, <3>1
    <3>2. CASE q # 0
      <4>1. 1 \in 1 .. q
        BY <1>1, <3>2
      <4> QED BY <1>4, <1>5, <3>2, <4>1
    <3> QED BY <3>1, <3>2
  <2> QED BY <1>1, <1>2, <1>3, <2>1, <2>2, <2>3, <2>4 DEF TilingInv
<1>7. CutInv(Space)'
  <2>1. \A v \in Workers : ~Cutting(v)'
    <3>1. \A v \in Workers : ~Cutting(v)
      BY DEF LayoutInv, CutInv
    <3>2. ~target'[w].locked
      BY CasFacts
    <3> QED BY <3>1, <3>2, CasFacts DEF Cutting, OthersKeep
  <2>2. end = RBUF_OFF_MAX /\ cpc \notin {"clear_end", "reset"}
    BY DEF LayoutInv, CutInv
  <2>3. CutOff(end) = Space
    BY <2>2, CutOffIs
  <2> QED BY <1>1, <1>2, <2>1, <2>2, <2>3 DEF CutInv
<1>8. \A x : Boundary(e, m, x) => Boundary(Space, q + 1, x)'
  <2> TAKE x
  <2>1. CASE x = Top(e)
    <3>1. q + 1 \in 1 .. q + 1
      BY <1>1
    <3> QED BY <1>2, <1>3, <2>1, <3>1 DEF Boundary
  <2>2. ASSUME NEW i \in 1 .. m, queue[i].off = x
        PROVE  Boundary(Space, q + 1, x)'
    <3>1. i \in 1 .. q /\ i \in 1 .. q + 1
      BY <1>1
    <3> QED BY <1>4, <2>2, <3>1 DEF Boundary
  <2> QED BY <2>1, <2>2 DEF Boundary
<1>9. OwnerInv(Space, q + 1)' /\ ObserveInv(Space, q + 1)'
  BY <1>8, CasOwner, CasObserve
<1> QED BY <1>6, <1>7, <1>9 DEF LayoutInv

(***************************************************************************)
(* Beyond the end of the buffer: the cut is where 'next' was, and the      *)
(* range lies at the start.                                                *)
(***************************************************************************)
LEMMA CasExceeds ==
    ASSUME NEW w \in Workers, IInv, acquire_cas(w),
           NEW e \in 0 .. Space, NEW m \in 0 .. Len(queue), LayoutInv(e, m),
           NEW q \in Nat, q = Len(queue), Straight, len[w] < written,
           next'.off = len[w], next'.locked, NEW f, f = next.off
    PROVE  LayoutInv(f, q)'
<1>1. /\ Len(queue') = q + 1 /\ m = q /\ Space \in Nat
      /\ next.off \in Nat /\ written \in Nat /\ len[w] \in Nat \ {0}
      /\ UNCHANGED <<end, written, seen, target, cpc>>
  BY CasEnds, CasFacts, Constants DEF LayoutInv, TilingInv
<1>2. ~Straight' /\ Top(e) = f /\ Top(f)' = f
  BY <1>1 DEF Straight, Top
<1>3. queue'[q + 1].off = 0 /\ EndOf(q + 1)' = len[w]
  BY <1>1, CasEnds
<1>4. \A i \in 1 .. q :
         /\ queue'[i].off = queue[i].off /\ EndOf(i)' = EndOf(i)
         /\ queue[i].off \in Nat /\ EndOf(i) \in Nat
  BY CasEnds
<1>5. /\ \A i \in 1 .. q : queue[i].off >= written /\ EndOf(i) <= f
      /\ \A i, j \in 1 .. q : i < j => EndOf(i) <= queue[j].off
      /\ \A i \in 1 .. q - 1 : queue[i + 1].off = EndOf(i)
      /\ q = 0 => written = f
      /\ q # 0 => queue[1].off = written /\ EndOf(q) = f
  BY <1>1, <1>2 DEF LayoutInv, TilingInv
<1>6. TilingInv(f, q)'
  <2>1. ASSUME NEW i \in 1 .. q
        PROVE  queue'[i].off >= written /\ EndOf(i)' <= f
    BY <1>4, <1>5
  <2>2. ASSUME NEW i \in q + 1 .. q + 1
        PROVE  EndOf(i)' <= len[w]
    <3>1. i = q + 1
      OBVIOUS
    <3> QED BY <1>1, <1>3, <3>1
  <2>3. ASSUME NEW i \in 1 .. q + 1, NEW j \in 1 .. q + 1, i < j, j <= q \/ q < i
        PROVE  EndOf(i)' <= queue'[j].off
    <3>1. i \in 1 .. q /\ j \in 1 .. q
      BY <2>3
    <3> QED BY <1>4, <1>5, <2>3, <3>1
  <2>4. ASSUME NEW i \in 1 .. q, i # q
        PROVE  queue'[i + 1].off = EndOf(i)'
    <3>1. i \in 1 .. q - 1 /\ i + 1 \in 1 .. q
      BY <2>4
    <3> QED BY <1>4, <1>5, <3>1
  <2>5. q # 0 => queue'[1].off = written /\ EndOf(q)' = f
    <3> SUFFICES ASSUME q # 0 PROVE queue'[1].off = written /\ EndOf(q)' = f
      OBVIOUS
    <3>1. 1 \in 1 .. q /\ q \in 1 .. q
      OBVIOUS
    <3>2. queue'[1].off = queue[1].off /\ EndOf(q)' = EndOf(q)
      BY <1>4, <3>1
    <3> QED BY <1>5, <3>2
  <2> QED BY <1>1, <1>2, <1>3, <1>5, <2>1, <2>2, <2>3, <2>4, <2>5 DEF TilingInv
<1>7. CutInv(f)'
  <2>1. \A v \in Workers : Cutting(v)' => v = w
    <3>1. \A v \in Workers : ~Cutting(v)
      BY DEF LayoutInv, CutInv
    <3> QED BY <3>1, CasFacts DEF Cutting, OthersKeep
  <2>2. Cutting(w)' /\ seen'[w].off = f
    BY CasFacts DEF Cutting
  <2>3. end = RBUF_OFF_MAX /\ cpc \notin {"clear_end", "reset"}
    BY DEF LayoutInv, CutInv
  <2> QED BY <1>1, <1>2, <2>1, <2>2, <2>3 DEF CutInv
<1>8. \A x : Boundary(e, m, x) => Boundary(f, q, x)'
  BY <1>1, <1>2, <1>4 DEF Boundary
<1>9. OwnerInv(f, q)' /\ ObserveInv(f, q)'
  BY <1>8, CasOwner, CasObserve
<1> QED BY <1>6, <1>7, <1>9 DEF LayoutInv

LEMMA CasStep ==
    ASSUME NEW w \in Workers, IInv, acquire_cas(w)
    PROVE  IInv'
<1>1. TypeOK' /\ WordInv' /\ ConsumesProducedPrefix'
  BY CasWord, CasPrefix
<1>2. PICK e \in 0 .. Space, m \in 0 .. Len(queue) : LayoutInv(e, m)
  BY DEF IInv
<1>3. PICK q \in Nat : q = Len(queue)
  BY CasQueue
<1>4. /\ Len(queue') = q + 1 /\ m \in 0 .. q /\ Space \in Nat
      /\ next.off \in 0 .. Space /\ written \in Nat
  BY <1>3, CasQueue, CasFacts, Constants
<1>5. \E f \in 0 .. Space, n \in 0 .. Len(queue') : LayoutInv(f, n)'
  <2>1. CASE next'.wraps = next.wraps /\ Straight
    <3>1. LayoutInv(e, q + 1)'
      BY <1>2, <1>3, <2>1, CasFacts, CasStraight
    <3> QED BY <1>4, <3>1
  <2>2. CASE next'.wraps = next.wraps /\ ~Straight
    <3>1. next'.off < written
      BY <1>4, <2>2, CasFacts DEF Straight
    <3>2. LayoutInv(e, m)'
      BY <1>2, <1>3, <2>2, <3>1, CasFacts, CasAhead
    <3> QED BY <1>4, <3>2
  <2>3. CASE next'.wraps # next.wraps /\ ~next'.locked
    <3>1. LayoutInv(Space, q + 1)'
      BY <1>2, <1>3, <2>3, CasFacts, CasExact DEF Straight
    <3> QED BY <1>4, <3>1
  <2>4. CASE next'.wraps # next.wraps /\ next'.locked
    <3>1. PICK f \in 0 .. Space : f = next.off
      BY <1>4
    <3>2. LayoutInv(f, q)'
      BY <1>2, <1>3, <2>4, <3>1, CasFacts, CasExceeds DEF Straight
    <3> QED BY <1>4, <3>2
  <2> QED BY <2>1, <2>2, <2>3, <2>4
<1> QED BY <1>1, <1>5 DEF IInv

-----------------------------------------------------------------------------
(***************************************************************************)
(* The consumer.                                                           *)
(***************************************************************************)
LEMMA ConsumerFrame ==
    ASSUME WordInv, UNCHANGED <<next, written, workerVars, localVars>>
    PROVE  WordInv'
  BY DEF WordInv, SeenInv, PublishInv, LockInv, Holder, workerVars, localVars

LEMMA ConsumeLoadStep ==
    ASSUME IInv, consume_load
    PROVE  IInv'
<1>1. /\ TypeOK /\ WordInv /\ ~next.locked
      /\ cpc \in {"idle", "retry"} /\ cpc' \in {"idle", "observe"}
      /\ UNCHANGED <<next, end, written, seen_off, registered, mark_pending, pc, len,
                     seen, target, ready, visiting, clen, queue>>
  BY DEF IInv, consume_load, ringVars, workerVars, localVars
<1>2. TypeOK'
  BY <1>1 DEF TypeOK, consume_load, NextWords
<1>3. WordInv'
  BY <1>1, ConsumerFrame DEF workerVars, localVars
<1>4. ConsumesProducedPrefix'
  BY <1>1 DEF ConsumesProducedPrefix
<1>5. PICK e \in 0 .. Space, m \in 0 .. Len(queue) : LayoutInv(e, m)
  BY DEF IInv
<1>6. TilingInv(e, m)' /\ Straight' = Straight /\ Top(e)' = Top(e)
  BY <1>1, <1>5, Entries, TilingFrame DEF LayoutInv
<1>7. CutInv(e)'
  BY <1>1, <1>5, <1>6 DEF LayoutInv, CutInv, Cutting
<1>8. OwnerInv(e, m)'
  BY <1>1, <1>5 DEF LayoutInv, OwnerInv
<1>9. ObserveInv(e, m)'
  <2>1. ready = RBUF_OFF_MAX /\ visiting = 0
    BY <1>1, <1>5 DEF LayoutInv, ObserveInv
  <2>2. CASE cpc' = "idle"
    BY <1>1, <2>1, <2>2 DEF ObserveInv
  <2>3. CASE cpc' = "observe"
    <3>1. cnext' = next.off /\ cnext' # written /\ cnext' \in Nat /\ written \in Nat
      BY <1>1, <2>3, Constants DEF consume_load, TypeOK, NextWords, Offsets
    <3>2. ready >= written
      BY <1>1, <2>1, Constants DEF TypeOK, Offsets
    <3>3. cnext' < written => ~Straight
      BY <1>1, <3>1 DEF Straight
    <3>4. cnext' > written => Top(e) = cnext'
      BY <3>1 DEF Straight, Top
    <3>5. ASSUME NEW i \in 1 .. Len(queue)
          PROVE  ~(queue[i].worker < visiting)
      BY <1>1, <2>1, Entries
    <3> QED
      BY <1>1, <1>6, <2>1, <2>3, <3>1, <3>2, <3>3, <3>4, <3>5 DEF ObserveInv, Boundary
  <2> QED BY <1>1, <2>2, <2>3
<1> QED BY <1>1, <1>2, <1>3, <1>4, <1>5, <1>6, <1>7, <1>8, <1>9 DEF IInv, LayoutInv

LEMMA ReadyIs ==
    ASSUME NEW r \in Int, NEW s \in Int, NEW x \in Int
    PROVE  Ready(r, s, x) = IF s >= x /\ s < r THEN s ELSE r
  BY MinOfTwo DEF Ready

(***************************************************************************)
(* Where a worker that has nothing unstable stands: idle, at an unfinished *)
(* entry, or at the cut.                                                   *)
(***************************************************************************)
LEMMA StableSeen ==
    ASSUME IInv, NEW e \in 0 .. Space, NEW m \in 0 .. Len(queue), LayoutInv(e, m),
           NEW w \in Workers, registered[w], ~seen_off[w].locked,
           seen_off[w].off >= written
    PROVE  seen_off[w].off = RBUF_OFF_MAX \/ Boundary(e, m, seen_off[w].off)
<1> SUFFICES ASSUME seen_off[w].off # RBUF_OFF_MAX
             PROVE  Boundary(e, m, seen_off[w].off)
  OBVIOUS
<1>1. PublishInv(w) /\ TypeOK
  BY DEF IInv, WordInv
<1>2. pc[w] \in Owning
  BY <1>1 DEF PublishInv, Owning
<1>3. PICK i \in 1 .. Len(queue) : ~queue[i].done /\ queue[i].worker = w
  BY <1>2 DEF LayoutInv, OwnerInv
<1>4. \/ seen_off[w].off = queue[i].off
      \/ i = m + 1 /\ seen_off[w].off = e
  BY <1>3 DEF LayoutInv, OwnerInv
<1>5. /\ Len(queue) \in Nat /\ queue[i].off \in Nat /\ queue[i].len \in Nat \ {0}
      /\ written \in Nat /\ next.off \in Nat
  <2>1. Len(queue) \in Nat /\ queue[i].off \in Nat /\ queue[i].len \in Nat \ {0}
    BY <1>1, Entries, Constants
  <2>2. written \in Nat /\ next.off \in Nat
    BY <1>1, Constants DEF TypeOK, Offsets, NextWords
  <2> QED BY <2>1, <2>2
<1>6. CASE i <= m
  <2>1. i \in 1 .. m /\ i # m + 1
    BY <1>5, <1>6
  <2> QED BY <1>4, <2>1 DEF Boundary
<1>7. CASE i > m
  <2>1. i \in m + 1 .. Len(queue) /\ m < Len(queue)
    BY <1>5, <1>7
  <2>2. EndOf(i) <= next.off /\ ~Straight
    BY <1>5, <2>1 DEF LayoutInv, TilingInv
  <2>3. queue[i].off < written
    BY <1>5, <2>2 DEF EndOf, Straight
  <2>4. seen_off[w].off = e
    BY <1>4, <1>5, <2>3
  <2> QED BY <2>2, <2>4 DEF Boundary, Top
<1> QED BY <1>5, <1>6, <1>7

LEMMA ConsumeObserveStep ==
    ASSUME IInv, consume_observe
    PROVE  IInv'
<1>1. /\ TypeOK /\ WordInv /\ cpc = "observe" /\ visiting \in Workers
      /\ visiting \in Nat /\ visiting' = visiting + 1 /\ visiting' \in 0 .. NWorkers
      /\ registered[visiting] => ~seen_off[visiting].locked
      /\ UNCHANGED <<next, end, written, seen_off, registered, mark_pending, pc, len,
                     seen, target, cpc, cnext, clen, queue>>
  BY Constants DEF IInv, consume_observe, ringVars, workerVars, localVars, TypeOK, Workers
<1>2. /\ ready \in Nat /\ written \in Nat
      /\ \A w \in Workers : seen_off[w].off \in Nat /\ seen_off[w].off <= RBUF_OFF_MAX
      /\ ready \in Offsets \cup {RBUF_OFF_MAX} /\ ready <= RBUF_OFF_MAX
      /\ seen_off[visiting].off \in Offsets \cup {RBUF_OFF_MAX}
  BY <1>1, Constants DEF TypeOK, Offsets
<1>3. /\ registered[visiting] /\ seen_off[visiting].off >= written
            /\ seen_off[visiting].off < ready => ready' = seen_off[visiting].off
      /\ ~(registered[visiting] /\ seen_off[visiting].off >= written
            /\ seen_off[visiting].off < ready) => ready' = ready
  BY <1>1, <1>2, ReadyIs DEF consume_observe
<1>4. TypeOK'
  <2>1. ready' \in Offsets \cup {RBUF_OFF_MAX}
    BY <1>2, <1>3
  <2> QED BY <1>1, <2>1 DEF TypeOK
<1>5. WordInv'
  BY <1>1, ConsumerFrame DEF workerVars, localVars
<1>6. ConsumesProducedPrefix'
  BY <1>1 DEF ConsumesProducedPrefix
<1>7. PICK e \in 0 .. Space, m \in 0 .. Len(queue) : LayoutInv(e, m)
  BY DEF IInv
<1>8. TilingInv(e, m)' /\ Straight' = Straight /\ Top(e)' = Top(e)
  BY <1>1, <1>7, Entries, TilingFrame DEF LayoutInv
<1>9. CutInv(e)'
  BY <1>1, <1>7, <1>8 DEF LayoutInv, CutInv, Cutting
<1>10. OwnerInv(e, m)'
  BY <1>1, <1>7 DEF LayoutInv, OwnerInv
<1>11. ObserveInv(e, m)'
  <2>1. /\ cnext # written /\ ready >= written
        /\ cnext < written => ~Straight /\ ~next.locked
        /\ cnext > written => Boundary(e, m, cnext)
        /\ ready = RBUF_OFF_MAX \/ Boundary(e, m, ready)
    BY <1>1, <1>7 DEF LayoutInv, ObserveInv
  <2>2. ready' \in Nat /\ ready' >= written /\ ready' <= ready
    <3>1. CASE registered[visiting] /\ seen_off[visiting].off >= written
               /\ seen_off[visiting].off < ready
      <4>1. ready' = seen_off[visiting].off /\ seen_off[visiting].off \in Nat
        BY <1>1, <1>2, <1>3, <3>1
      <4> QED BY <1>2, <3>1, <4>1
    <3>2. CASE ~(registered[visiting] /\ seen_off[visiting].off >= written
                 /\ seen_off[visiting].off < ready)
      BY <1>2, <1>3, <2>1, <3>2
    <3> QED BY <3>1, <3>2
  <2>3. \A x : Boundary(e, m, x)' <=> Boundary(e, m, x)
    BY <1>1, <1>8 DEF Boundary
  <2>4. ready' = RBUF_OFF_MAX \/ Boundary(e, m, ready')
    <3>1. CASE ready' = ready
      BY <2>1, <3>1
    <3>2. CASE ready' # ready
      <4>1. /\ ready' = seen_off[visiting].off /\ registered[visiting]
            /\ seen_off[visiting].off >= written
        BY <1>3, <3>2
      <4>2. \A w \in Workers :
               registered[w] /\ ~seen_off[w].locked /\ seen_off[w].off >= written =>
               seen_off[w].off = RBUF_OFF_MAX \/ Boundary(e, m, seen_off[w].off)
        BY <1>7, StableSeen
      <4> QED BY <1>1, <4>1, <4>2
    <3> QED BY <3>1, <3>2
  <2>5. ASSUME NEW i \in 1 .. Len(queue), ~queue[i].done,
               queue[i].worker < visiting + 1, InRange(seen_off[queue[i].worker].off)
        PROVE  ready' <= seen_off[queue[i].worker].off
    <3>1. queue[i].worker \in Workers /\ queue[i].worker \in Nat
      BY <1>1, Entries
    <3>2. CASE queue[i].worker < visiting
      <4>1. ready <= seen_off[queue[i].worker].off
        BY <1>1, <1>7, <2>5, <3>2 DEF LayoutInv, ObserveInv
      <4>2. seen_off[queue[i].worker].off \in Nat
        BY <1>2, <3>1
      <4> QED BY <1>2, <2>2, <4>1, <4>2
    <3>3. CASE queue[i].worker = visiting
      <4>1. registered[visiting]
        BY <1>7, <2>5, <3>3 DEF LayoutInv, OwnerInv
      <4>2. seen_off[visiting].off >= written
        BY <1>1, <1>2, <2>5, <3>3 DEF InRange
      <4> QED BY <1>1, <1>2, <1>3, <3>3, <4>1, <4>2
    <3> QED BY <1>1, <2>5, <3>1, <3>2, <3>3
  <2>6. \A x : InRange(x)' <=> InRange(x)
    BY <1>1 DEF InRange
  <2>7. Boundary(e, m, ready') => Boundary(e, m, ready)'
    BY <1>1, <1>8 DEF Boundary
  <2>8. Boundary(e, m, cnext) => Boundary(e, m, cnext)'
    BY <1>1, <1>8 DEF Boundary
  <2> QED
    BY <1>1, <1>8, <2>1, <2>2, <2>4, <2>5, <2>6, <2>7, <2>8 DEF ObserveInv
<1> QED BY <1>1, <1>4, <1>5, <1>6, <1>7, <1>8, <1>9, <1>10, <1>11 DEF IInv, LayoutInv

(***************************************************************************)
(* The numbers of the layout, for the arithmetic of the consumer's steps.  *)
(***************************************************************************)
LEMMA LayoutNumbers ==
    ASSUME TypeOK, NEW e \in 0 .. Space, NEW m \in 0 .. Len(queue), TilingInv(e, m)
    PROVE  /\ Len(queue) \in Nat /\ m \in Nat /\ m <= Len(queue) /\ Space \in Nat
           /\ e \in Nat /\ e <= Space
           /\ written \in Nat /\ written < Space /\ next.off \in Nat /\ next.off <= Space
           /\ \A i \in 1 .. Len(queue) :
                 queue[i].off \in Nat /\ EndOf(i) \in Nat /\ queue[i].off < EndOf(i)
           /\ Top(e) \in Nat /\ written <= Top(e) /\ Top(e) <= Space
           /\ m # 0 => written < Top(e)
<1>1. /\ Len(queue) \in Nat /\ m \in Nat /\ m <= Len(queue) /\ Space \in Nat
      /\ e \in Nat /\ e <= Space
  BY Entries, Constants
<1>2. written \in Nat /\ written < Space /\ next.off \in Nat /\ next.off <= Space
  BY Constants DEF TypeOK, Offsets, NextWords
<1>3. \A i \in 1 .. Len(queue) : queue[i].off \in Nat /\ queue[i].len \in Nat \ {0}
  BY Entries, Constants
<1>4. \A i \in 1 .. Len(queue) :
         queue[i].off \in Nat /\ EndOf(i) \in Nat /\ queue[i].off < EndOf(i)
  BY <1>3 DEF EndOf
<1>5. Top(e) \in Nat /\ Top(e) <= Space
  BY <1>1, <1>2 DEF Top
<1>6. m # 0 => written < Top(e)
  <2> SUFFICES ASSUME m # 0 PROVE written < Top(e)
    OBVIOUS
  <2>1. 1 \in 1 .. m /\ 1 \in 1 .. Len(queue)
    BY <1>1
  <2>2. queue[1].off = written /\ EndOf(1) <= Top(e)
    BY <2>1 DEF TilingInv
  <2>3. EndOf(1) \in Nat /\ queue[1].off < EndOf(1)
    BY <1>4, <2>1
  <2> QED BY <1>2, <1>5, <2>2, <2>3
<1>7. m = 0 => written = Top(e)
  BY DEF TilingInv
<1> QED BY <1>1, <1>2, <1>4, <1>5, <1>6, <1>7

(***************************************************************************)
(* Up to a boundary, the queue is a whole number of entries.               *)
(***************************************************************************)
LEMMA PrefixUpTo ==
    ASSUME TypeOK, NEW e \in 0 .. Space, NEW m \in 0 .. Len(queue), TilingInv(e, m),
           NEW r \in Nat, r > written, Boundary(e, m, r)
    PROVE  \E k \in 1 .. m :
              /\ queue[1].off = written
              /\ \A i \in 1 .. k - 1 : queue[i + 1].off = EndOf(i)
              /\ EndOf(k) = r
              /\ \A i \in 1 .. k : EndOf(i) <= r
<1>1. /\ Len(queue) \in Nat /\ m \in Nat /\ m <= Len(queue) /\ written \in Nat
      /\ \A i \in 1 .. Len(queue) : EndOf(i) \in Nat
  BY LayoutNumbers
<1>2. /\ \A i \in 1 .. m : EndOf(i) <= Top(e)
      /\ \A i, j \in 1 .. Len(queue) : i < j /\ j <= m => EndOf(i) <= queue[j].off
      /\ \A i \in 1 .. Len(queue) - 1 : i # m => queue[i + 1].off = EndOf(i)
      /\ m = 0 => Top(e) = written
      /\ m # 0 => queue[1].off = written /\ EndOf(m) = Top(e)
  BY DEF TilingInv
<1>3. CASE r = Top(e)
  <2>1. m # 0 /\ m \in 1 .. m
    BY <1>1, <1>2, <1>3
  <2>2. \A i \in 1 .. m - 1 : i \in 1 .. Len(queue) - 1 /\ i # m
    BY <1>1
  <2>3. \A i \in 1 .. m - 1 : queue[i + 1].off = EndOf(i)
    BY <1>2, <2>2
  <2> QED BY <1>2, <1>3, <2>1, <2>3
<1>4. CASE \E j \in 1 .. m : queue[j].off = r
  <2>1. PICK j \in 1 .. m : queue[j].off = r
    BY <1>4
  <2>2. m # 0 /\ j # 1 /\ queue[1].off = written
    BY <1>1, <1>2, <2>1
  <2>3. PICK k \in 1 .. m : k = j - 1
    BY <1>1, <2>2
  <2>4. /\ \A i \in 1 .. k : i \in 1 .. Len(queue) /\ i < j
        /\ \A i \in 1 .. k : i \in 1 .. Len(queue) - 1 /\ i # m
        /\ j \in 1 .. Len(queue) /\ k + 1 = j /\ k \in 1 .. k
    BY <1>1, <2>3
  <2>5. \A i \in 1 .. k : queue[i + 1].off = EndOf(i)
    BY <1>2, <2>4
  <2>6. EndOf(k) = r
    BY <2>1, <2>4, <2>5
  <2>7. \A i \in 1 .. k : EndOf(i) <= r
    BY <1>2, <2>1, <2>4
  <2>8. \A i \in 1 .. k - 1 : i \in 1 .. k
    BY <1>1
  <2> QED BY <2>2, <2>5, <2>6, <2>7, <2>8
<1> QED BY <1>3, <1>4 DEF Boundary

(***************************************************************************)
(* Where the consumer stops: at a boundary, not beyond ready.              *)
(***************************************************************************)
LEMMA StopsAt ==
    ASSUME IInv, NEW e \in 0 .. Space, NEW m \in 0 .. Len(queue), LayoutInv(e, m),
           cpc = "observe"
    PROVE  LET r == ReadyEnd(ready, cnext, written, end)
           IN  /\ r \in Nat /\ written <= r /\ r <= Space /\ r <= ready
               /\ cnext > written => r <= cnext
               /\ Boundary(e, m, r)
               /\ cnext < written => e = CutOff(end)
<1> DEFINE r == ReadyEnd(ready, cnext, written, end)
<1>1. /\ TypeOK /\ WordInv /\ TilingInv(e, m) /\ Space \in Nat
      /\ ready \in Nat /\ cnext \in Nat /\ cnext <= Space /\ written \in Nat
  BY Constants DEF IInv, LayoutInv, TypeOK, Offsets
<1>2. /\ cnext # written /\ ready >= written
      /\ cnext < written => ~Straight /\ ~next.locked
      /\ cnext > written => Boundary(e, m, cnext)
      /\ ready = RBUF_OFF_MAX \/ Boundary(e, m, ready)
  BY DEF LayoutInv, ObserveInv
<1>3. ASSUME cnext < written
      PROVE  e = CutOff(end) /\ Top(e) = e
  <2>1. \A w \in Workers : ~Cutting(w)
    BY <1>1, <1>2, <1>3 DEF Cutting, WordInv, LockInv, Holder
  <2> QED BY <1>2, <1>3, <2>1 DEF LayoutInv, CutInv, Top
<1>4. CASE cnext < written
  <2>1. r = IF ready <= e THEN ready ELSE e
    BY <1>1, <1>3, <1>4, MinOfTwo DEF ReadyEnd
  <2>2. written <= e /\ e \in Nat /\ e <= Space
    BY <1>1, <1>3, <1>4, LayoutNumbers
  <2>3. Boundary(e, m, e)
    BY <1>3, <1>4 DEF Boundary
  <2>4. ready <= e => Boundary(e, m, ready)
    BY <1>1, <1>2, <2>2, Constants
  <2>5. CASE ready <= e
    BY <1>1, <1>2, <1>3, <1>4, <2>1, <2>2, <2>4, <2>5
  <2>6. CASE ~(ready <= e)
    BY <1>1, <1>2, <1>3, <1>4, <2>1, <2>2, <2>3, <2>6
  <2> QED BY <2>5, <2>6
<1>5. CASE cnext > written
  <2>1. r = IF ready <= cnext THEN ready ELSE cnext
    BY <1>1, <1>5, MinOfTwo DEF ReadyEnd
  <2>2. ready <= cnext => Boundary(e, m, ready)
    BY <1>1, <1>2, Constants
  <2>3. CASE ready <= cnext
    BY <1>1, <1>2, <1>5, <2>1, <2>2, <2>3
  <2>4. CASE ~(ready <= cnext)
    BY <1>1, <1>2, <1>5, <2>1, <2>4
  <2> QED BY <2>3, <2>4
<1> QED BY <1>1, <1>2, <1>4, <1>5

LEMMA ConsumeDecideStep ==
    ASSUME IInv, consume_decide
    PROVE  IInv'
<1> DEFINE r == ReadyEnd(ready, cnext, written, end)
<1>1. /\ TypeOK /\ WordInv /\ cpc = "observe" /\ visiting = NWorkers
      /\ cnext' = 0 /\ ready' = RBUF_OFF_MAX /\ visiting' = 0
      /\ UNCHANGED <<next, end, written, seen_off, registered, mark_pending, pc, len,
                     seen, target, queue>>
      /\ Space \in Nat /\ NWorkers \in Nat
  BY Constants DEF IInv, consume_decide, ringVars, workerVars, localVars
<1>2. PICK e \in 0 .. Space, m \in 0 .. Len(queue) : LayoutInv(e, m)
  BY DEF IInv
<1>3. /\ r \in Nat /\ written <= r /\ r <= Space /\ r <= ready
      /\ cnext > written => r <= cnext
      /\ Boundary(e, m, r)
      /\ cnext < written => e = CutOff(end)
  BY <1>1, <1>2, StopsAt
<1>4. /\ Len(queue) \in Nat /\ m \in Nat /\ m <= Len(queue)
      /\ written \in Nat /\ written < Space /\ e \in Nat /\ e <= Space
      /\ \A i \in 1 .. Len(queue) :
            queue[i].off \in Nat /\ EndOf(i) \in Nat /\ queue[i].off < EndOf(i)
      /\ m # 0 => written < Top(e)
  BY <1>1, <1>2, LayoutNumbers DEF LayoutInv
<1>5. WordInv'
  BY <1>1, ConsumerFrame DEF workerVars, localVars
<1>6. TilingInv(e, m)' /\ Straight' = Straight /\ Top(e)' = Top(e)
  BY <1>1, <1>2, <1>4, TilingFrame DEF LayoutInv
<1>7. \A i \in 1 .. Len(queue) : queue[i].worker \in Workers /\ queue[i].worker < visiting
  BY <1>1, Entries DEF Workers
<1>8. CASE ConsumerWraps(ready, cnext, written, end)
  <2>1. /\ cpc' = "clear_end" /\ clen' = clen
        /\ cnext < written /\ ready = RBUF_OFF_MAX /\ written = e
    BY <1>1, <1>3, <1>8 DEF consume_decide, ConsumerWraps
  <2>2. ~Straight /\ ~next.locked
    BY <1>1, <1>2, <2>1 DEF LayoutInv, ObserveInv
  <2>3. TypeOK'
    BY <1>1, <2>1, Constants DEF TypeOK
  <2>4. ConsumesProducedPrefix'
    BY <2>1 DEF ConsumesProducedPrefix
  <2>5. CutInv(e)'
    BY <1>1, <1>2, <1>6, <2>1, <2>2 DEF LayoutInv, CutInv, Cutting
  <2>6. ASSUME NEW i \in 1 .. Len(queue), ~queue[i].done
        PROVE  seen_off[queue[i].worker].off # e
    <3> SUFFICES ASSUME seen_off[queue[i].worker].off = e PROVE FALSE
      OBVIOUS
    <3>1. cnext \in Nat
      BY <1>1 DEF TypeOK
    <3>2. InRange(e)
      BY <1>4, <2>1, <3>1 DEF InRange
    <3>3. ready <= e
      BY <1>1, <1>2, <1>7, <2>6, <3>2 DEF LayoutInv, ObserveInv
    <3> QED BY <1>4, <2>1, <3>3, Constants
  <2>7. OwnerInv(e, m)'
    BY <1>1, <1>2, <2>6 DEF LayoutInv, OwnerInv
  <2>8. ObserveInv(e, m)'
    BY <1>1, <2>1 DEF ObserveInv
  <2> QED BY <1>1, <1>2, <1>5, <1>6, <2>3, <2>4, <2>5, <2>7, <2>8 DEF IInv, LayoutInv
<1>9. CASE ~ConsumerWraps(ready, cnext, written, end)
  <2>1. clen' = r - written /\ cpc' = IF r - written = 0 THEN "idle" ELSE "consuming"
    BY <1>9 DEF consume_decide
  <2> HIDE DEF r
  <2>2. clen' \in 0 .. Space /\ cpc' \in {"idle", "consuming"}
    BY <1>1, <1>3, <1>4, <2>1
  <2>3. TypeOK'
    BY <1>1, <2>2, Constants DEF TypeOK
  <2>4. ASSUME NEW i \in 1 .. m, EndOf(i) <= r
        PROVE  queue[i].done
    <3> SUFFICES ASSUME ~queue[i].done PROVE FALSE
      OBVIOUS
    <3>1. i \in 1 .. Len(queue) /\ i # m + 1
      BY <1>4
    <3>2. seen_off[queue[i].worker].off = queue[i].off
      BY <1>2, <3>1 DEF LayoutInv, OwnerInv
    <3>3. queue[i].off >= written
      BY <1>2 DEF LayoutInv, TilingInv
    <3>4. /\ queue[i].off \in Nat /\ EndOf(i) \in Nat /\ queue[i].off < EndOf(i)
          /\ ready \in Nat /\ cnext \in Nat
      BY <1>1, <1>4, <3>1, Constants DEF TypeOK, Offsets
    <3>5. InRange(queue[i].off)
      BY <1>3, <1>4, <2>4, <3>3, <3>4 DEF InRange
    <3>6. ready <= queue[i].off
      BY <1>1, <1>2, <1>7, <3>1, <3>2, <3>5 DEF LayoutInv, ObserveInv
    <3> QED BY <1>3, <2>4, <3>4, <3>6
  <2>5. ConsumesProducedPrefix'
    <3> SUFFICES ASSUME cpc' = "consuming" PROVE ConsumesProducedPrefix'
      BY DEF ConsumesProducedPrefix
    <3>1. r > written
      BY <1>3, <1>4, <2>1
    <3>2. PICK k \in 1 .. m :
             /\ queue[1].off = written
             /\ \A i \in 1 .. k - 1 : queue[i + 1].off = EndOf(i)
             /\ EndOf(k) = r
             /\ \A i \in 1 .. k : EndOf(i) <= r
      BY <1>1, <1>2, <1>3, <3>1, PrefixUpTo DEF LayoutInv
    <3>3. written + clen' = r
      BY <1>3, <1>4, <2>1
    <3>4. k \in 1 .. Len(queue) /\ \A i \in 1 .. k : i \in 1 .. m
      BY <1>4
    <3>5. Tiles(k)'
      BY <1>1, <3>2, <3>3 DEF Tiles, EndOf
    <3>6. \A i \in 1 .. k : queue[i].done
      BY <2>4, <3>2, <3>4
    <3> QED BY <1>1, <3>4, <3>5, <3>6 DEF ConsumesProducedPrefix
  <2>6. CutInv(e)'
    BY <1>1, <1>2, <1>6, <2>2 DEF LayoutInv, CutInv, Cutting
  <2>7. OwnerInv(e, m)'
    BY <1>1, <1>2, <2>2 DEF LayoutInv, OwnerInv
  <2>8. ObserveInv(e, m)'
    BY <1>1, <2>2 DEF ObserveInv
  <2> QED BY <1>1, <1>2, <1>5, <1>6, <2>3, <2>5, <2>6, <2>7, <2>8 DEF IInv, LayoutInv
<1> QED BY <1>8, <1>9

LEMMA ClearEndStep ==
    ASSUME IInv, consume_clear_end
    PROVE  IInv'
<1>1. /\ TypeOK /\ WordInv /\ cpc = "clear_end" /\ cpc' = "reset" /\ end' = RBUF_OFF_MAX
      /\ UNCHANGED <<next, written, seen_off, registered, mark_pending, pc, len,
                     seen, target, cnext, ready, visiting, clen, queue>>
  BY DEF IInv, consume_clear_end, workerVars, localVars
<1>2. TypeOK'
  BY <1>1 DEF TypeOK
<1>3. WordInv'
  BY <1>1, ConsumerFrame DEF workerVars, localVars
<1>4. ConsumesProducedPrefix'
  BY <1>1 DEF ConsumesProducedPrefix
<1>5. PICK e \in 0 .. Space, m \in 0 .. Len(queue) : LayoutInv(e, m)
  BY DEF IInv
<1>6. TilingInv(e, m)' /\ Straight' = Straight /\ Top(e)' = Top(e)
  BY <1>1, <1>5, Entries, TilingFrame DEF LayoutInv
<1>7. CutInv(e)'
  BY <1>1, <1>5, <1>6 DEF LayoutInv, CutInv, Cutting
<1>8. OwnerInv(e, m)'
  BY <1>1, <1>5 DEF LayoutInv, OwnerInv
<1>9. ObserveInv(e, m)'
  BY <1>1, <1>5 DEF LayoutInv, ObserveInv
<1> QED BY <1>1, <1>2, <1>3, <1>4, <1>5, <1>6, <1>7, <1>8, <1>9 DEF IInv, LayoutInv

(***************************************************************************)
(* The producers that passed the checks may still rely on them when        *)
(* written moves within what was acquired, or goes back to the start.      *)
(***************************************************************************)
LEMMA WrittenMoves ==
    ASSUME TypeOK, WordInv, UNCHANGED <<next, workerVars, localVars>>,
           written' \in Offsets,
           \/ written <= next.off /\ written <= written' /\ written' <= next.off
           \/ next.off < written /\ (written <= written' \/ written' = 0)
    PROVE  WordInv'
<1>1. ASSUME NEW w \in Workers
      PROVE  SeenInv(w)'
  <2>1. seen[w] \in NextWords /\ len[w] \in Lengths /\ written \in Offsets /\ SeenInv(w)
    BY DEF TypeOK, WordInv
  <2>2. UNCHANGED <<seen, len, target, pc>>
    BY DEF localVars
  <2>3. ~MustWait(seen[w], len[w], written) /\ next = seen[w] =>
           ~MustWait(seen[w], len[w], written')
    BY <2>1, NeedNotWait
  <2> QED BY <2>1, <2>2, <2>3 DEF SeenInv
<1>2. \A w \in Workers : PublishInv(w)'
  BY DEF WordInv, PublishInv, workerVars, localVars
<1>3. LockInv'
  BY DEF WordInv, LockInv, Holder, localVars
<1> QED BY <1>1, <1>2, <1>3 DEF WordInv

LEMMA ResetStep ==
    ASSUME IInv, consume_reset
    PROVE  IInv'
<1>1. /\ TypeOK /\ WordInv /\ cpc = "reset" /\ cpc' = "retry" /\ written' = 0
      /\ UNCHANGED <<next, end, seen_off, registered, mark_pending, pc, len,
                     seen, target, cnext, ready, visiting, clen, queue>>
  BY DEF IInv, consume_reset, workerVars, localVars
<1>2. PICK e \in 0 .. Space, m \in 0 .. Len(queue) : LayoutInv(e, m)
  BY DEF IInv
<1>3. ~Straight /\ ~next.locked /\ e = written /\ end = RBUF_OFF_MAX
  BY <1>1, <1>2 DEF LayoutInv, CutInv
<1>4. /\ Len(queue) \in Nat /\ m \in Nat /\ m <= Len(queue)
      /\ written \in Nat /\ written < Space /\ next.off \in Nat
      /\ \A i \in 1 .. Len(queue) :
            queue[i].off \in Nat /\ EndOf(i) \in Nat /\ queue[i].off < EndOf(i)
      /\ m # 0 => written < Top(e)
  BY <1>1, <1>2, LayoutNumbers DEF LayoutInv
<1>5. PICK q \in Nat : q = Len(queue)
  BY <1>4
<1>6. m = 0 /\ next.off > 0 /\ q > 0
  <2>1. m = 0 /\ next.off > 0
    BY <1>2, <1>3, <1>4 DEF Top, LayoutInv, CutInv
  <2>2. m # Len(queue)
    BY <1>2, <1>3, <1>4, <2>1 DEF LayoutInv, TilingInv
  <2> QED BY <1>4, <1>5, <2>1, <2>2
<1>7. TypeOK'
  BY <1>1, SmallValues DEF TypeOK
<1>8. WordInv'
  <2>1. next.off < written
    BY <1>3, <1>4 DEF Straight
  <2> QED BY <1>1, <2>1, SmallValues, WrittenMoves DEF workerVars, localVars
<1>9. ConsumesProducedPrefix'
  BY <1>1 DEF ConsumesProducedPrefix
<1>10. Straight' /\ Top(e)' = next.off
  BY <1>1, <1>4 DEF Straight, Top
<1>11. TilingInv(e, q)'
  <2>1. /\ \A i \in 1 .. q : EndOf(i) <= next.off
        /\ \A i, j \in 1 .. q : i < j => EndOf(i) <= queue[j].off
        /\ \A i \in 1 .. q - 1 : queue[i + 1].off = EndOf(i)
        /\ queue[1].off = 0 /\ EndOf(q) = next.off
    BY <1>2, <1>5, <1>6 DEF LayoutInv, TilingInv
  <2>2. \A i \in 1 .. q : EndOf(i)' = EndOf(i) /\ queue[i].off \in Nat
    BY <1>1, <1>4, <1>5 DEF EndOf
  <2> QED BY <1>1, <1>5, <1>6, <1>10, <2>1, <2>2 DEF TilingInv
<1>12. CutInv(e)'
  <2>1. \A w \in Workers : ~Cutting(w)
    BY <1>1, <1>3 DEF Cutting, WordInv, LockInv, Holder
  <2> QED BY <1>1, <1>3, <1>10, <2>1 DEF CutInv, Cutting
<1>13. OwnerInv(e, q)'
  BY <1>1, <1>2 DEF LayoutInv, OwnerInv
<1>14. ObserveInv(e, q)'
  BY <1>1, <1>2 DEF LayoutInv, ObserveInv
<1> QED
  BY <1>1, <1>5, <1>7, <1>8, <1>9, <1>11, <1>12, <1>13, <1>14 DEF IInv, LayoutInv

(***************************************************************************)
(* ringbuf_release drops the entries that ringbuf_consume returned: they   *)
(* are in the consumer's lap, and they are produced.                       *)
(***************************************************************************)
LEMMA ReleaseFacts ==
    ASSUME IInv, cpc = "consuming",
           NEW e \in 0 .. Space, NEW m \in 0 .. Len(queue), LayoutInv(e, m)
    PROVE  /\ Consumed \in 1 .. m /\ EndOf(Consumed) = written + clen
           /\ \A i \in 1 .. Consumed : queue[i].done
<1>1. PICK k \in 1 .. Len(queue) : Tiles(k) /\ \A i \in 1 .. k : queue[i].done
  BY DEF IInv, ConsumesProducedPrefix
<1>2. Consumed \in 1 .. Len(queue) /\ Tiles(Consumed)
  <2> DEFINE P(j) == IF \E i \in 1 .. Len(queue) : Tiles(i) THEN j # 0 /\ Tiles(j) ELSE j = 0
  <2>1. Len(queue) \in Nat
    BY Entries DEF IInv
  <2>2. k \in 0 .. Len(queue) /\ P(k)
    BY <1>1, <2>1
  <2>3. Consumed = CHOOSE j \in 0 .. Len(queue) : P(j)
    BY DEF Consumed
  <2>4. Consumed \in 0 .. Len(queue) /\ P(Consumed)
    BY <2>2, <2>3
  <2> QED BY <1>1, <2>1, <2>4
<1>3. PICK c \in 1 .. Len(queue) : c = Consumed
  BY <1>2
<1>4. /\ Len(queue) \in Nat /\ m \in Nat /\ m <= Len(queue)
      /\ written \in Nat /\ next.off \in Nat /\ clen \in Nat
      /\ \A i \in 1 .. Len(queue) :
            queue[i].off \in Nat /\ EndOf(i) \in Nat /\ queue[i].off < EndOf(i)
  <2>1. clen \in Nat
    BY Constants DEF IInv, TypeOK
  <2> QED BY <2>1, LayoutNumbers DEF IInv, LayoutInv
<1>5. EndOf(k) = written + clen /\ EndOf(c) = written + clen
  BY <1>1, <1>2, <1>3 DEF Tiles, EndOf
<1>6. ASSUME NEW i \in 1 .. Len(queue), EndOf(i) >= written
      PROVE  i \in 1 .. m
  <2> SUFFICES ASSUME i > m PROVE FALSE
    BY <1>4
  <2>1. i \in m + 1 .. Len(queue) /\ m # Len(queue)
    BY <1>4
  <2>2. EndOf(i) <= next.off /\ ~Straight
    BY <2>1 DEF LayoutInv, TilingInv
  <2> QED BY <1>4, <1>6, <2>2 DEF Straight
<1>7. k \in 1 .. m /\ c \in 1 .. m
  BY <1>4, <1>5, <1>6
<1>8. ASSUME NEW i \in 1 .. m, NEW j \in 1 .. m, i < j
      PROVE  EndOf(i) < EndOf(j)
  <2>1. i \in 1 .. Len(queue) /\ j \in 1 .. Len(queue) /\ j <= m
    BY <1>4
  <2>2. EndOf(i) <= queue[j].off
    BY <1>8, <2>1 DEF LayoutInv, TilingInv
  <2>3. EndOf(i) \in Nat /\ EndOf(j) \in Nat /\ queue[j].off \in Nat
        /\ queue[j].off < EndOf(j)
    BY <1>4, <2>1
  <2> QED BY <2>2, <2>3
<1>9. c = k
  <2>1. EndOf(c) \in Nat
    BY <1>4
  <2>2. CASE c < k
    BY <1>5, <1>7, <1>8, <2>1, <2>2
  <2>3. CASE k < c
    BY <1>5, <1>7, <1>8, <2>1, <2>3
  <2> QED BY <1>4, <2>2, <2>3
<1> QED BY <1>1, <1>3, <1>5, <1>7, <1>9

LEMMA ReleaseQueue ==
    ASSUME TypeOK, NEW k \in 1 .. Len(queue),
           queue' = SubSeq(queue, k + 1, Len(queue))
    PROVE  /\ queue' \in Seq([worker : Workers, off : Offsets, len : Lengths,
                              done : BOOLEAN])
           /\ Len(queue') = Len(queue) - k
           /\ \A i \in 1 .. Len(queue) - k :
                 queue'[i] = queue[i + k] /\ EndOf(i)' = EndOf(i + k)
<1> DEFINE E == [worker : Workers, off : Offsets, len : Lengths, done : BOOLEAN]
<1>1. queue \in Seq(E)
  BY DEF TypeOK
<1> HIDE DEF E
<1>2. Len(queue) \in Nat
  BY <1>1
<1>3. \A i \in k + 1 .. Len(queue) : queue[i] \in E
  BY <1>1, <1>2, ElementOfSeq
<1>4. /\ queue' \in Seq(E) /\ Len(queue') = Len(queue) - k
      /\ \A i \in 1 .. Len(queue) - k : queue'[i] = queue[i + k]
  BY <1>1, <1>2, <1>3
<1>5. \A i \in 1 .. Len(queue) - k : EndOf(i)' = EndOf(i + k)
  BY <1>4 DEF EndOf
<1> QED BY <1>4, <1>5 DEF E

LEMMA ReleaseStep ==
    ASSUME IInv, ringbuf_release
    PROVE  IInv'
<1>1. /\ TypeOK /\ WordInv /\ cpc = "consuming" /\ cpc' = "idle" /\ clen' = 0
      /\ written' = Released(written, clen)
      /\ queue' = SubSeq(queue, Consumed + 1, Len(queue))
      /\ UNCHANGED <<next, end, seen_off, registered, mark_pending, pc, len,
                     seen, target, cnext, ready, visiting>>
  BY DEF IInv, ringbuf_release, workerVars, localVars
<1>2. PICK e \in 0 .. Space, m \in 0 .. Len(queue) : LayoutInv(e, m)
  BY DEF IInv
<1>3. PICK k \in 1 .. m : k = Consumed
  BY <1>1, <1>2, ReleaseFacts
<1>4. /\ EndOf(k) = written + clen /\ \A i \in 1 .. k : queue[i].done
  BY <1>1, <1>2, <1>3, ReleaseFacts
<1>5. /\ Len(queue) \in Nat /\ m \in Nat /\ m <= Len(queue)
      /\ Space \in Nat /\ e \in Nat /\ e <= Space
      /\ written \in Nat /\ written < Space /\ next.off \in Nat
      /\ \A i \in 1 .. Len(queue) :
            queue[i].off \in Nat /\ EndOf(i) \in Nat /\ queue[i].off < EndOf(i)
      /\ Top(e) \in Nat /\ Top(e) <= Space
  BY <1>1, <1>2, LayoutNumbers DEF LayoutInv
<1>6. PICK q \in Nat : q = Len(queue)
  BY <1>5
<1>7. PICK d \in Nat : d = q - k
  <2>1. q - k \in Nat
    BY <1>5, <1>6
  <2> QED BY <2>1
<1>8. /\ queue' \in Seq([worker : Workers, off : Offsets, len : Lengths, done : BOOLEAN])
      /\ Len(queue') = d
      /\ \A i \in 1 .. d : queue'[i] = queue[i + k] /\ EndOf(i)' = EndOf(i + k)
  <2>1. k \in 1 .. Len(queue)
    BY <1>5
  <2> QED BY <1>1, <1>3, <1>6, <1>7, <2>1, ReleaseQueue
<1>9. PICK r \in Nat : r = written + clen /\ r = EndOf(k)
  <2>1. k \in 1 .. Len(queue)
    BY <1>5
  <2> QED BY <1>4, <1>5, <2>1
<1>10. /\ written < r /\ r <= Top(e)
       /\ written' = IF r = Space THEN 0 ELSE r
  <2>1. k \in 1 .. Len(queue)
    BY <1>5
  <2>2. queue[k].off >= written /\ EndOf(k) <= Top(e)
    BY <1>2 DEF LayoutInv, TilingInv
  <2>3. queue[k].off < EndOf(k) /\ queue[k].off \in Nat
    BY <1>5, <2>1
  <2> QED BY <1>1, <1>5, <1>9, <2>2, <2>3 DEF Released
<1>11. written' \in Offsets
  BY <1>5, <1>10, Constants DEF Offsets
<1>12. TypeOK'
  BY <1>1, <1>8, <1>11, Constants DEF TypeOK
<1>13. Straight => r <= next.off /\ r < Space
  BY <1>1, <1>5, <1>10 DEF Top, WordInv
<1>14. WordInv'
  <2>1. \/ written <= next.off /\ written <= written' /\ written' <= next.off
        \/ next.off < written /\ (written <= written' \/ written' = 0)
    BY <1>5, <1>10, <1>13 DEF Straight
  <2> QED BY <1>1, <1>11, <2>1, WrittenMoves DEF workerVars, localVars
<1>15. ConsumesProducedPrefix'
  BY <1>1 DEF ConsumesProducedPrefix
<1>16. \A n : ObserveInv(e, n)'
  BY <1>1, <1>2 DEF LayoutInv, ObserveInv
<1>17. /\ \A i \in 1 .. m : queue[i].off >= written /\ EndOf(i) <= Top(e)
       /\ \A i \in m + 1 .. q : EndOf(i) <= next.off
       /\ \A i, j \in 1 .. q : i < j /\ (j <= m \/ m < i) => EndOf(i) <= queue[j].off
       /\ \A i \in 1 .. q - 1 : i # m => queue[i + 1].off = EndOf(i)
       /\ EndOf(m) = Top(e)
       /\ m < q => queue[m + 1].off = 0 /\ EndOf(q) = next.off
       /\ m = q => Straight \/ next.off = 0
       /\ Straight => m = q
  BY <1>2, <1>5, <1>6 DEF LayoutInv, TilingInv
<1>18. /\ \A i \in 1 .. d : i + k \in 1 .. q
       /\ \A i, j \in 1 .. d : i < j => i + k < j + k
       /\ \A i \in 1 .. d - 1 : i + k \in 1 .. q - 1 /\ (i + k) + 1 = (i + 1) + k
                                /\ i \in 1 .. d /\ i + 1 \in 1 .. d
  BY <1>5, <1>6, <1>7
<1>19. ASSUME NEW n, n = m - k \/ (n = d /\ e = Space)
       PROVE  OwnerInv(e, n)'
  <2>1. ASSUME NEW i \in 1 .. d, ~queue'[i].done
        PROVE  /\ pc'[queue'[i].worker] \in Owning
               /\ registered'[queue'[i].worker]
               /\ queue'[i].worker \notin mark_pending'
               /\ \/ seen_off'[queue'[i].worker].off = queue'[i].off
                  \/ /\ i = n + 1 /\ seen_off'[queue'[i].worker].off = e
                     /\ cpc' \notin {"clear_end", "reset"}
    <3>1. queue'[i] = queue[i + k] /\ i + k \in 1 .. Len(queue)
      BY <1>6, <1>8, <1>18
    <3>2. /\ pc[queue[i + k].worker] \in Owning
          /\ registered[queue[i + k].worker]
          /\ queue[i + k].worker \notin mark_pending
          /\ \/ seen_off[queue[i + k].worker].off = queue[i + k].off
             \/ i + k = m + 1 /\ seen_off[queue[i + k].worker].off = e
      BY <1>2, <2>1, <3>1 DEF LayoutInv, OwnerInv
    <3>3. seen_off[queue[i + k].worker].off # Space
      <4>1. queue[i + k].worker \in Workers
        BY <1>1, <3>1, Entries
      <4>2. seen_off[queue[i + k].worker].off \in Offsets \cup {RBUF_OFF_MAX}
        BY <1>1, <4>1 DEF TypeOK
      <4> QED BY <4>2, Constants DEF Offsets
    <3>4. i + k = m + 1 /\ n = m - k => i = n + 1
      BY <1>5
    <3> QED BY <1>1, <1>19, <3>1, <3>2, <3>3, <3>4
  <2>2. ASSUME NEW w \in Workers, pc'[w] \in Owning
        PROVE  \E i \in 1 .. d : ~queue'[i].done /\ queue'[i].worker = w
    <3>1. PICK i \in 1 .. Len(queue) : ~queue[i].done /\ queue[i].worker = w
      BY <1>1, <1>2, <2>2 DEF LayoutInv, OwnerInv
    <3>2. ~(i \in 1 .. k)
      BY <1>4, <3>1
    <3>3. i - k \in 1 .. d /\ (i - k) + k = i
      BY <1>5, <1>6, <1>7, <3>2
    <3> QED BY <1>8, <3>1, <3>3
  <2> QED BY <1>8, <2>1, <2>2 DEF OwnerInv
<1>20. CASE Straight
  <2>1. /\ Straight' /\ written' = r /\ Top(e)' = next.off /\ m = q /\ Top(e) = next.off
    BY <1>1, <1>10, <1>13, <1>17, <1>20 DEF Straight, Top
  <2>2. d = m - k
    BY <1>7, <2>1
  <2>3. ASSUME NEW i \in 1 .. d
        PROVE  queue'[i].off >= r /\ EndOf(i)' <= next.off
    <3>1. i + k \in 1 .. q /\ k \in 1 .. q /\ k < i + k /\ i + k <= m
      BY <1>5, <1>7, <1>18, <2>1
    <3>2. EndOf(k) <= queue[i + k].off /\ EndOf(i + k) <= next.off
      BY <1>17, <2>1, <3>1
    <3>3. queue[i + k].off \in Nat
      BY <1>5, <1>6, <3>1
    <3> QED BY <1>8, <1>9, <3>2, <3>3
  <2>4. ASSUME NEW i \in 1 .. d, NEW j \in 1 .. d, i < j
        PROVE  EndOf(i)' <= queue'[j].off
    <3>1. i + k \in 1 .. q /\ j + k \in 1 .. q /\ i + k < j + k /\ j + k <= m
      BY <1>5, <1>7, <2>1, <2>4
    <3>2. EndOf(i + k) <= queue[j + k].off
      BY <1>17, <3>1
    <3> QED BY <1>8, <3>2
  <2>5. ASSUME NEW i \in 1 .. d - 1
        PROVE  queue'[i + 1].off = EndOf(i)'
    <3>1. i + k # m /\ i + k \in 1 .. q - 1
      BY <1>18, <2>1
    <3>2. queue[(i + k) + 1].off = EndOf(i + k)
      BY <1>17, <3>1
    <3> QED BY <1>8, <1>18, <3>2
  <2>6. d = 0 => next.off = r
    BY <1>5, <1>7, <1>9, <1>17, <2>1
  <2>7. d # 0 => queue'[1].off = r /\ EndOf(d)' = next.off
    <3> SUFFICES ASSUME d # 0 PROVE queue'[1].off = r /\ EndOf(d)' = next.off
      OBVIOUS
    <3>1. 1 \in 1 .. d /\ d \in 1 .. d /\ d + k = q /\ 1 + k = k + 1
          /\ k \in 1 .. q - 1 /\ k # m
      BY <1>5, <1>7, <2>1
    <3>2. queue[k + 1].off = EndOf(k) /\ EndOf(q) = next.off
      BY <1>17, <2>1, <3>1
    <3>3. queue'[1] = queue[1 + k] /\ EndOf(d)' = EndOf(d + k)
      BY <1>8, <3>1
    <3> QED BY <1>9, <3>1, <3>2, <3>3
  <2>8. TilingInv(e, d)'
    BY <1>8, <2>1, <2>3, <2>4, <2>5, <2>6, <2>7, SMTT(30) DEF TilingInv
  <2>9. CutInv(e)'
    BY <1>1, <1>2, <1>20, <2>1 DEF LayoutInv, CutInv, Cutting
  <2>10. OwnerInv(e, d)'
    BY <1>19, <2>2
  <2> QED
    BY <1>8, <1>12, <1>14, <1>15, <1>16, <2>8, <2>9, <2>10 DEF IInv, LayoutInv
<1>21. CASE ~Straight /\ r < Space
  <2>1. ~Straight' /\ written' = r /\ Top(e)' = e /\ Top(e) = e
    BY <1>1, <1>5, <1>10, <1>21 DEF Straight, Top
  <2>2. PICK n \in 0 .. d : n = m - k
    BY <1>5, <1>6, <1>7
  <2>3. ASSUME NEW i \in 1 .. n
        PROVE  queue'[i].off >= r /\ EndOf(i)' <= e
    <3>1. i + k \in 1 .. q /\ k \in 1 .. q /\ k < i + k /\ i + k <= m /\ i \in 1 .. d
          /\ i + k \in 1 .. m
      BY <1>5, <1>18, <2>2
    <3>2. EndOf(k) <= queue[i + k].off /\ EndOf(i + k) <= e
      BY <1>17, <2>1, <3>1
    <3>3. queue[i + k].off \in Nat
      BY <1>5, <1>6, <3>1
    <3> QED BY <1>8, <1>9, <3>1, <3>2, <3>3
  <2>4. ASSUME NEW i \in n + 1 .. d
        PROVE  EndOf(i)' <= next.off
    <3>1. i \in 1 .. d /\ i + k \in m + 1 .. q
      BY <1>5, <1>7, <2>2
    <3> QED BY <1>8, <1>17, <3>1
  <2>5. ASSUME NEW i \in 1 .. d, NEW j \in 1 .. d, i < j, j <= n \/ n < i
        PROVE  EndOf(i)' <= queue'[j].off
    <3>1. i + k \in 1 .. q /\ j + k \in 1 .. q /\ i + k < j + k
          /\ (j + k <= m \/ m < i + k)
      BY <1>5, <1>18, <2>2, <2>5
    <3>2. EndOf(i + k) <= queue[j + k].off
      BY <1>17, <3>1
    <3> QED BY <1>8, <3>2
  <2>6. ASSUME NEW i \in 1 .. d - 1, i # n
        PROVE  queue'[i + 1].off = EndOf(i)'
    <3>1. i + k # m /\ i + k \in 1 .. q - 1
      BY <1>5, <1>18, <2>2, <2>6, SMTT(30)
    <3>2. queue[(i + k) + 1].off = EndOf(i + k)
      BY <1>17, <3>1
    <3> QED BY <1>8, <1>18, <3>2
  <2>7. n = 0 => e = r
    BY <1>5, <1>9, <1>17, <2>1, <2>2
  <2>8. n # 0 => queue'[1].off = r /\ EndOf(n)' = e
    <3> SUFFICES ASSUME n # 0 PROVE queue'[1].off = r /\ EndOf(n)' = e
      OBVIOUS
    <3>1. 1 \in 1 .. d /\ n \in 1 .. d /\ n + k = m /\ 1 + k = k + 1
          /\ k \in 1 .. q - 1 /\ k # m
      BY <1>5, <1>7, <2>2
    <3>2. queue[k + 1].off = EndOf(k) /\ EndOf(m) = e
      BY <1>17, <2>1, <3>1
    <3>3. queue'[1] = queue[1 + k] /\ EndOf(n)' = EndOf(n + k)
      BY <1>8, <3>1
    <3> QED BY <1>9, <3>1, <3>2, <3>3
  <2>9. n < d => queue'[n + 1].off = 0 /\ EndOf(d)' = next.off
    <3> SUFFICES ASSUME n < d PROVE queue'[n + 1].off = 0 /\ EndOf(d)' = next.off
      OBVIOUS
    <3>1. n + 1 \in 1 .. d /\ d \in 1 .. d /\ (n + 1) + k = m + 1 /\ d + k = q /\ m < q
      BY <1>5, <1>7, <2>2
    <3>2. queue'[n + 1] = queue[(n + 1) + k] /\ EndOf(d)' = EndOf(d + k)
      BY <1>8, <3>1
    <3> QED BY <1>17, <3>1, <3>2
  <2>10. n = d => next.off = 0
    <3>1. n = d => m = q
      BY <1>5, <1>7, <2>2
    <3> QED BY <1>17, <1>21, <3>1
  <2>11. TilingInv(e, n)'
    BY <1>1, <1>8, <2>1, <2>3, <2>4, <2>5, <2>6, <2>7, <2>8, <2>9, <2>10 DEF TilingInv
  <2>12. CutInv(e)'
    BY <1>1, <1>2, <1>21, <2>1 DEF LayoutInv, CutInv, Cutting
  <2>13. OwnerInv(e, n)'
    BY <1>19, <2>2
  <2> QED
    BY <1>8, <1>12, <1>14, <1>15, <1>16, <2>11, <2>12, <2>13 DEF IInv, LayoutInv
<1>22. CASE ~Straight /\ r = Space
  <2>1. /\ Straight' /\ written' = 0 /\ Top(e)' = next.off /\ Top(e) = e /\ e = Space
    BY <1>1, <1>5, <1>10, <1>22 DEF Straight, Top
  <2>2. k = m
    <3> SUFFICES ASSUME k < m PROVE FALSE
      BY <1>5
    <3>1. k \in 1 .. q /\ m \in 1 .. q
      BY <1>5, <1>6
    <3>2. EndOf(k) <= queue[m].off
      BY <1>17, <3>1
    <3>3. queue[m].off \in Nat /\ EndOf(m) \in Nat /\ queue[m].off < EndOf(m)
      BY <1>5, <1>6, <3>1
    <3> QED BY <1>5, <1>9, <1>17, <1>22, <2>1, <3>2, <3>3
  <2>3. ASSUME NEW i \in 1 .. d
        PROVE  queue'[i].off >= 0 /\ EndOf(i)' <= next.off
    <3>1. i + k \in m + 1 .. q /\ i + k \in 1 .. q
      BY <1>5, <1>7, <1>18, <2>2
    <3>2. EndOf(i + k) <= next.off /\ queue[i + k].off \in Nat
      BY <1>5, <1>6, <1>17, <3>1
    <3> QED BY <1>8, <3>2
  <2>4. ASSUME NEW i \in 1 .. d, NEW j \in 1 .. d, i < j
        PROVE  EndOf(i)' <= queue'[j].off
    <3>1. i + k \in 1 .. q /\ j + k \in 1 .. q /\ i + k < j + k /\ m < i + k
      BY <1>5, <1>18, <2>2, <2>4
    <3>2. EndOf(i + k) <= queue[j + k].off
      BY <1>17, <3>1
    <3> QED BY <1>8, <3>2
  <2>5. ASSUME NEW i \in 1 .. d - 1
        PROVE  queue'[i + 1].off = EndOf(i)'
    <3>1. i + k # m /\ i + k \in 1 .. q - 1
      BY <1>5, <1>18, <2>2
    <3>2. queue[(i + k) + 1].off = EndOf(i + k)
      BY <1>17, <3>1
    <3> QED BY <1>8, <1>18, <3>2
  <2>6. d = 0 => next.off = 0
    <3>1. d = 0 => m = q
      BY <1>5, <1>7, <2>2
    <3> QED BY <1>17, <1>22, <3>1
  <2>7. d # 0 => queue'[1].off = 0 /\ EndOf(d)' = next.off
    <3> SUFFICES ASSUME d # 0 PROVE queue'[1].off = 0 /\ EndOf(d)' = next.off
      OBVIOUS
    <3>1. 1 \in 1 .. d /\ d \in 1 .. d /\ d + k = q /\ 1 + k = m + 1 /\ m < q
      BY <1>5, <1>7, <2>2
    <3>2. queue'[1] = queue[1 + k] /\ EndOf(d)' = EndOf(d + k)
      BY <1>8, <3>1
    <3> QED BY <1>17, <3>1, <3>2
  <2>8. TilingInv(e, d)'
    BY <1>8, <2>1, <2>3, <2>4, <2>5, <2>6, <2>7 DEF TilingInv
  <2>9. \A w \in Workers : ~Cutting(w)
    <3>1. \A w \in Workers : seen[w].off < Space
      BY <1>1 DEF WordInv, SeenInv
    <3> QED BY <1>2, <1>5, <2>1, <3>1 DEF LayoutInv, CutInv
  <2>10. end = RBUF_OFF_MAX
    <3>1. e = CutOff(end) /\ end \in Offsets \cup {RBUF_OFF_MAX}
      BY <1>1, <1>2, <1>22, <2>9 DEF LayoutInv, CutInv, TypeOK
    <3>2. end \in Offsets => end # Space
      BY Constants DEF Offsets
    <3> QED BY <2>1, <3>1, <3>2, CutOffIs
  <2>11. CutInv(e)'
    BY <1>1, <2>1, <2>9, <2>10 DEF CutInv, Cutting
  <2>12. OwnerInv(e, d)'
    BY <1>19, <2>1
  <2> QED
    BY <1>8, <1>12, <1>14, <1>15, <1>16, <2>8, <2>11, <2>12 DEF IInv, LayoutInv
<1> QED BY <1>5, <1>10, <1>20, <1>21, <1>22

-----------------------------------------------------------------------------
LEMMA NextIInv ==
    ASSUME IInv, [Next]_vars
    PROVE  IInv'
<1>1. CASE consume_load
  BY <1>1, ConsumeLoadStep
<1>2. CASE consume_observe
  BY <1>2, ConsumeObserveStep
<1>3. CASE consume_decide
  BY <1>3, ConsumeDecideStep
<1>4. CASE consume_clear_end
  BY <1>4, ClearEndStep
<1>5. CASE consume_reset
  BY <1>5, ResetStep
<1>6. CASE ringbuf_release
  BY <1>6, ReleaseStep
<1>7. ASSUME NEW w \in Workers, ProducerNext(w)
      PROVE  IInv'
  <2>1. CASE ringbuf_register(w)
    BY <2>1, RegisterStep
  <2>2. CASE ringbuf_unregister(w)
    BY <2>2, UnregisterStep
  <2>3. CASE \E n \in Lengths : pc[w] = "idle" /\ acquire_load(w, n)
    BY <2>3, LoadStep
  <2>4. CASE pc[w] = "retry" /\ acquire_load(w, len[w])
    <3>1. len[w] \in Lengths
      BY DEF IInv, TypeOK
    <3> QED BY <2>4, <3>1, LoadStep
  <2>5. CASE mark_seen(w)
    BY <2>5, MarkStep
  <2>6. CASE acquire_check(w)
    BY <2>6, CheckStep
  <2>7. CASE acquire_refuse(w)
    BY <2>7, RefuseStep
  <2>8. CASE acquire_cas(w)
    BY <2>8, CasStep
  <2>9. CASE acquire_cas_fail(w)
    BY <2>9, CasFailStep
  <2>10. CASE acquire_stabilize(w)
    BY <2>10, StabilizeStep
  <2>11. CASE acquire_set_end(w)
    BY <2>11, SetEndStep
  <2>12. CASE acquire_unlock(w)
    BY <2>12, UnlockStep
  <2>13. CASE ringbuf_produce(w)
    BY <2>13, ProduceStep
  <2> QED
    BY <1>7, <2>1, <2>2, <2>3, <2>4, <2>5, <2>6, <2>7, <2>8, <2>9, <2>10, <2>11, <2>12,
       <2>13
    DEF ProducerNext, AcquireStep
<1>8. CASE UNCHANGED vars
  <2>1. UNCHANGED <<next, end, written, seen_off, registered, mark_pending, pc, len, seen,
                    target, cpc, cnext, ready, visiting, clen, queue>>
    BY <1>8 DEF vars, ringVars, workerVars, localVars, consumerVars
  <2>2. TypeOK'
    BY <2>1 DEF IInv, TypeOK
  <2>3. WordInv'
    BY <2>1, ConsumerFrame DEF IInv, workerVars, localVars
  <2>4. ConsumesProducedPrefix'
    BY <2>1, PrefixFrame DEF IInv
  <2>5. PICK e \in 0 .. Space, m \in 0 .. Len(queue) : LayoutInv(e, m)
    BY DEF IInv
  <2>6. TilingInv(e, m)' /\ Straight' = Straight /\ Top(e)' = Top(e)
    BY <2>1, <2>5, Entries, TilingFrame DEF LayoutInv, IInv
  <2>7. CutInv(e)'
    BY <2>1, <2>5, <2>6 DEF LayoutInv, CutInv, Cutting
  <2>8. OwnerInv(e, m)'
    BY <2>1, <2>5 DEF LayoutInv, OwnerInv
  <2>9. ObserveInv(e, m)'
    BY <2>1, <2>5, <2>6 DEF LayoutInv, ObserveInv, Boundary, InRange
  <2> QED BY <2>1, <2>2, <2>3, <2>4, <2>5, <2>6, <2>7, <2>8, <2>9 DEF IInv, LayoutInv
<1> QED
  BY <1>1, <1>2, <1>3, <1>4, <1>5, <1>6, <1>7, <1>8 DEF Next, ConsumerNext

(***************************************************************************)
(* The inductive invariant holds, whatever the size of the buffer, the     *)
(* number of workers and the number of laps the counter tells apart.       *)
(***************************************************************************)
THEOREM RingBufInvariant == Spec => []IInv
<1>1. Init => IInv
  BY InitIInv
<1>2. IInv /\ [Next]_vars => IInv'
  BY NextIInv
<1> QED BY <1>1, <1>2, PTL DEF Spec

(***************************************************************************)
(* ringbuf.hpp: the words, offsets and lengths of the ring buffer keep     *)
(* their types; every stored offset lies within the buffer.                *)
(***************************************************************************)
THEOREM RingBufTypes == Spec => []TypeOK
<1>1. IInv => TypeOK
  BY DEF IInv
<1> QED BY <1>1, RingBufInvariant, PTL

(***************************************************************************)
(* ringbuf_acquire's key invariant: a producer never goes beyond 'written' *)
(* nor catches up with it, so no two acquired ranges share a cell and none *)
(* that the consumer still reads is handed out again.                      *)
(***************************************************************************)
THEOREM RangesDisjoint == Spec => []NoOverlap
<1>1. IInv => NoOverlap
  <2> SUFFICES ASSUME IInv, NEW i \in DOMAIN queue, NEW j \in DOMAIN queue, i < j
               PROVE  \/ EndOf(i) <= queue[j].off
                      \/ EndOf(j) <= queue[i].off
    <3>1. DOMAIN queue = 1 .. Len(queue) /\ Len(queue) \in Nat
      BY Entries DEF IInv
    <3>2. \A i, j \in DOMAIN queue : i # j => i < j \/ j < i
      BY <3>1
    <3> QED BY <3>2 DEF NoOverlap, EndOf
  <2>1. PICK e \in 0 .. Space, m \in 0 .. Len(queue) : LayoutInv(e, m)
    BY DEF IInv
  <2>2. /\ Len(queue) \in Nat /\ m \in Nat /\ m <= Len(queue)
        /\ written \in Nat /\ next.off \in Nat
        /\ \A x \in 1 .. Len(queue) : queue[x].off \in Nat /\ EndOf(x) \in Nat
    BY <2>1, LayoutNumbers DEF IInv, LayoutInv
  <2>3. i \in 1 .. Len(queue) /\ j \in 1 .. Len(queue)
    BY Entries DEF IInv
  <2>4. CASE j <= m \/ m < i
    BY <2>1, <2>3, <2>4 DEF LayoutInv, TilingInv
  <2>5. CASE i <= m /\ m < j
    <3>1. i \in 1 .. m /\ j \in m + 1 .. Len(queue) /\ m # Len(queue)
      BY <2>2, <2>3, <2>5
    <3>2. queue[i].off >= written /\ EndOf(j) <= next.off /\ ~Straight
      BY <2>1, <3>1 DEF LayoutInv, TilingInv
    <3>3. queue[i].off \in Nat /\ EndOf(j) \in Nat
      BY <2>2, <2>3
    <3> QED BY <2>2, <3>2, <3>3 DEF Straight
  <2> QED BY <2>2, <2>3, <2>4, <2>5
<1> QED BY <1>1, RingBufInvariant, PTL

(***************************************************************************)
(* ringbuf_consume returns whole ranges, the oldest ones in the order they *)
(* were acquired, every one of them produced.                              *)
(***************************************************************************)
THEOREM ConsumesProduced == Spec => []ConsumesProducedPrefix
<1>1. IInv => ConsumesProducedPrefix
  BY DEF IInv
<1> QED BY <1>1, RingBufInvariant, PTL

(***************************************************************************)
(* ringbuf_consume's early return: when 'written' equals a stable 'next'   *)
(* the buffer is empty, never full.                                        *)
(***************************************************************************)
THEOREM EmptyNotFull == Spec => []EmptyMeansEmpty
<1>1. IInv => EmptyMeansEmpty
  <2> SUFFICES ASSUME IInv, written = next.off PROVE queue = << >>
    BY DEF EmptyMeansEmpty
  <2>1. PICK e \in 0 .. Space, m \in 0 .. Len(queue) : LayoutInv(e, m)
    BY DEF IInv
  <2>2. /\ Len(queue) \in Nat /\ m \in Nat /\ written \in Nat
        /\ m # 0 => written < Top(e)
    BY <2>1, LayoutNumbers DEF IInv, LayoutInv
  <2>3. Straight /\ Top(e) = written /\ m = Len(queue)
    BY <2>1, <2>2 DEF Straight, Top, LayoutInv, TilingInv
  <2>4. Len(queue) = 0
    BY <2>2, <2>3
  <2>5. queue \in Seq([worker : Workers, off : Offsets, len : Lengths, done : BOOLEAN])
    BY DEF IInv, TypeOK
  <2> QED BY <2>4, <2>5, EmptySeq
<1> QED BY <1>1, RingBufInvariant, PTL

(***************************************************************************)
(* The assertions of ringbuf_acquire, ringbuf_produce, ringbuf_consume and *)
(* ringbuf_release hold where the code evaluates them.                     *)
(***************************************************************************)
THEOREM AssertionsHold == Spec => []Asserts
<1>1. IInv => Asserts
  <2> SUFFICES ASSUME IInv PROVE Asserts
    OBVIOUS
  <2>1. PICK e \in 0 .. Space, m \in 0 .. Len(queue) : LayoutInv(e, m)
    BY DEF IInv
  <2>2. /\ TypeOK /\ WordInv /\ written \in Nat /\ e \in Nat /\ e <= Space
        /\ written < Space /\ Space \in Nat
        /\ written <= Top(e) /\ Top(e) <= Space /\ Top(e) \in Nat
        /\ \A i \in 1 .. Len(queue) : EndOf(i) \in Nat
        /\ m \in Nat /\ Len(queue) \in Nat /\ m <= Len(queue)
    BY <2>1, LayoutNumbers DEF IInv, LayoutInv
  <2>3. ASSUME NEW w \in Workers
        PROVE  /\ pc[w] = "loaded" => seen[w].off < Space
               /\ pc[w] = "set_end" => written <= seen[w].off /\ end = RBUF_OFF_MAX
               /\ pc[w] \in {"acquired", "unlock"} => target[w].off <= Space
               /\ pc[w] = "filling" => seen_off[w].off # RBUF_OFF_MAX
    <3>1. seen[w].off < Space /\ target[w].off <= Space
      BY <2>2 DEF WordInv, SeenInv, TypeOK, NextWords
    <3>2. ASSUME pc[w] = "set_end"
          PROVE  written <= seen[w].off /\ end = RBUF_OFF_MAX
      <4>1. Cutting(w)
        BY <2>2, <3>2 DEF Cutting, WordInv, LockInv
      <4>2. ~Straight /\ e = seen[w].off /\ end = RBUF_OFF_MAX
        BY <2>1, <4>1 DEF LayoutInv, CutInv
      <4> QED BY <2>2, <4>2 DEF Top
    <3>3. ASSUME pc[w] = "filling"
          PROVE  seen_off[w].off # RBUF_OFF_MAX
      <4>1. PICK i \in 1 .. Len(queue) : ~queue[i].done /\ queue[i].worker = w
        BY <2>1, <3>3 DEF LayoutInv, OwnerInv, Owning
      <4>2. seen_off[w].off = queue[i].off \/ seen_off[w].off = e
        BY <2>1, <4>1 DEF LayoutInv, OwnerInv
      <4>3. queue[i].off \in 0 .. Space - 1
        BY <2>2, Entries
      <4> QED BY <2>2, <4>2, <4>3, Constants
    <3> QED BY <3>1, <3>2, <3>3
  <2>4. ASSUME cpc = "observe"
        PROVE  /\ ready >= written
               /\ visiting = NWorkers /\ cnext < written =>
                     ConsumerWraps(ready, cnext, written, end) \/ ready > cnext
               /\ ReadyEnd(ready, cnext, written, end) >= written
    <3>1. ready >= written
      BY <2>1, <2>4 DEF LayoutInv, ObserveInv
    <3>2. ready \in Nat /\ cnext \in Nat
      BY <2>2, Constants DEF TypeOK, Offsets
    <3>3. LET r == ReadyEnd(ready, cnext, written, end) IN r \in Nat /\ written <= r
      BY <2>1, <2>4, StopsAt
    <3> QED BY <2>2, <3>1, <3>2, <3>3
  <2>5. ASSUME cpc = "consuming"
        PROVE  written <= end /\ written + clen <= Space
    <3>1. end \in Offsets \cup {RBUF_OFF_MAX}
      BY <2>2 DEF TypeOK
    <3>2. ASSUME end = RBUF_OFF_MAX
          PROVE  written <= end
      BY <2>2, <3>2, Constants
    <3>3. ASSUME end # RBUF_OFF_MAX
          PROVE  written <= end
      <4>1. ~Straight /\ \A w \in Workers : ~Cutting(w)
        BY <2>1, <3>3 DEF LayoutInv, CutInv
      <4>2. e = CutOff(end) /\ Top(e) = e
        BY <2>1, <2>5, <4>1 DEF LayoutInv, CutInv, Top
      <4> QED BY <2>2, <3>1, <3>3, <4>2, CutOffIs
    <3>4. Consumed \in 1 .. m /\ EndOf(Consumed) = written + clen
      BY <2>1, <2>5, ReleaseFacts
    <3>5. EndOf(Consumed) <= Top(e)
      BY <2>1, <3>4 DEF LayoutInv, TilingInv
    <3>6. EndOf(Consumed) \in Nat
      BY <2>2, <3>4
    <3>7. written + clen <= Space
      BY <2>2, <3>4, <3>5, <3>6
    <3> QED BY <3>2, <3>3, <3>7
  <2> QED BY <2>3, <2>4, <2>5 DEF Asserts, AcquireAsserts, ConsumeAsserts
<1> QED BY <1>1, RingBufInvariant, PTL

=============================================================================

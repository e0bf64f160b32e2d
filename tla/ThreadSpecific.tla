--------------------------- MODULE ThreadSpecific ---------------------------
(***************************************************************************)
(* enumerable_thread_specific: an array in the pool with an element for    *)
(* each thread id, and the size of that array kept once more beside it so  *)
(* that a thread need not lock anything to find that its element exists.   *)
(*   storage     the elements                                              *)
(*   cached      _storage_size                                             *)
(***************************************************************************)
EXTENDS Integers, Sequences, SequencesExt

Construct == [storage |-> <<>>, cached |-> 0]

\* Whether local() finds that the element of the thread with id `index'
\* exists without taking the lock.
FastPath(e, index) == index < e.cached

\* Under the lock: the first of the two steps of local(), in which the array
\* grows in a transaction of its own, and the second.
resize(e, index) ==
    IF index < Len(e.storage) THEN e
    ELSE [e EXCEPT !.storage = @ \o [i \in 1 .. (index + 1 - Len(@)) |-> 0]]

set_cached_size(e) == [e EXCEPT !.cached = Len(e.storage)]

\* The element of a thread.
Local(e, index) == e.storage[index + 1]

Add(e, index, n) == [e EXCEPT !.storage[index + 1] = @ + n]

\* The sum of all elements.
Total(e) ==
    LET sum[i \in 0 .. Len(e.storage)] == IF i = 0 THEN 0 ELSE sum[i - 1] + e.storage[i]
    IN  sum[Len(e.storage)]

clear(e) == Construct
=============================================================================

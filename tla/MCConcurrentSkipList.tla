------------------------ MODULE MCConcurrentSkipList ------------------------
(***************************************************************************)
(* An instance for TLC: two levels, three keys, two threads.               *)
(***************************************************************************)
EXTENDS ConcurrentSkipList

Elems(keys) == [i \in DOMAIN keys |-> [key |-> keys[i], val |-> 0]]

\* Insertions side by side, of the same key and of neighbours, and a crash at
\* any step of them.
Insert ==
    [lists |-> {Elems(<<2>>)}, spares |-> {<<>>}, ops |-> {"insert", "emplace"}, keys |-> {1, 3},
     levels |-> {1, 2}, alone |-> {}, any_sizes |-> FALSE, fails |-> FALSE, calls |-> 2, crashes |-> 1]

\* Searches of every kind beside insertions, which may fail.
Search ==
    [lists |-> {Elems(<<2>>)}, spares |-> {<<>>}, ops |-> {"insert"} \cup Queries, keys |-> {1, 3},
     levels |-> {1, 2}, alone |-> {}, any_sizes |-> FALSE, fails |-> TRUE, calls |-> 2, crashes |-> 0]

\* Operations of one thread alone among insertions and crashes.
Serial ==
    [lists |-> {Elems(<<3, 1, 3>>)}, spares |-> {Elems(<<1, 3>>)},
     ops |-> {"insert"}, keys |-> {2}, levels |-> {1, 2},
     alone |-> {"erase", "clear", "assign", "copy", "move", "swap"}, any_sizes |-> FALSE, fails |-> FALSE,
     calls |-> 2, crashes |-> 1]

AllScenarios == {Insert, Search, Serial}
=============================================================================

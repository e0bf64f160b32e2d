---------------------------- MODULE MCRadixTree -----------------------------
(***************************************************************************)
(* An instance for TLC.  Slices of one bit; keys that differ in the first  *)
(* and in the second slice of a byte, and keys that begin others.          *)
(***************************************************************************)
EXTENDS ConcurrentRadixTree

Ops(names, K) == {[op |-> n, key |-> k] : n \in names, k \in K}
Changes == {"try_emplace", "insert_or_assign", "erase"}

\* Each operation on every tree of these keys, with nobody reading.
Alone ==
    LET K == {<< >>, <<0>>, <<0, 0>>, <<0, 3>>, <<1>>, <<2>>}
    IN  [trees |-> SUBSET K, ops |-> 1, reads |-> {}, iterate |-> FALSE, fails |-> TRUE, strict |-> FALSE,
         writes |-> Ops(Changes \cup {"clear"}, K)
                    \cup [op : {"erase range"}, key : K, last : K]
                    \cup [op : {"assign"}, key : {<<1>>}, list : {<<<<1>>, <<0, 0>>, <<0>>>>, << >>}]]

\* Any read beside one operation.
Beside ==
    LET K == {<<0>>, <<0, 1>>, <<1>>, <<2>>}
    IN  [trees |-> SUBSET K, ops |-> 1, writes |-> Ops(Changes, K), iterate |-> FALSE, fails |-> FALSE,
         strict |-> FALSE, reads |-> Ops({"find", "lower", "upper"}, K) \cup Ops({"begin"}, {<<0>>})]

\* Searches beside two operations.
Search ==
    [Beside EXCEPT !.ops = 2, !.reads = Ops({"lower", "upper"}, {<<1>>}) \cup Ops({"lower"}, {<<0>>}),
                   !.trees = {{<<0>>, <<1>>, <<2>>}, {<<0>>, <<0, 1>>, <<2>>}, {<<0>>, <<2>>}}]

\* An iteration beside two operations.
Iterate ==
    [Beside EXCEPT !.ops = 2, !.reads = Ops({"begin"}, {<<0>>}), !.iterate = TRUE,
                   !.writes = Ops(Changes \cup {"clear"}, {<<0>>, <<1>>}),
                   !.trees = {K \in SUBSET {<<0>>, <<0, 1>>, <<1>>, <<2>>} : <<0>> \in K}]

AllScenarios == {Alone, Beside, Search, Iterate}
=============================================================================

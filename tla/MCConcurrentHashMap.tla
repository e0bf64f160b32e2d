------------------------ MODULE MCConcurrentHashMap -------------------------
(***************************************************************************)
(* An instance for TLC.  The hash codes of the keys fall into one bucket   *)
(* of two and, two of them, of four.  The table grows from two buckets to  *)
(* four with the first element and to eight with the third.                *)
(***************************************************************************)
EXTENDS ConcurrentHashMap

HashOfKey == [k \in Keys |-> k]

List(keys) == [i \in DOMAIN keys |-> [key |-> keys[i], val |-> 1]]

\* Buckets are added and filled under the feet of other calls.
Growth ==
    [lists |-> {List(<<6>>), List(<<0, 6>>)}, keys |-> Keys, values |-> {1}, ranges |-> {}, alone |-> {},
     ops |-> {<<"count", "none">>, <<"insert", "none">>, <<"erase", "none">>},
     any_sizes |-> FALSE, calls |-> 3, crashes |-> 0]

\* Calls that want an element which others are using.
Accessors ==
    [lists |-> {List(<<6>>)}, keys |-> {6}, values |-> {1, 2}, ranges |-> {<<0, 100>>}, alone |-> {},
     ops |-> {<<"find", "read">>, <<"find", "write">>, <<"insert", "write">>,
              <<"insert_or_assign", "write">>, <<"erase", "none">>},
     any_sizes |-> FALSE, calls |-> 3, crashes |-> 0]

\* A crash at any step, and what comes after it.
Crashes ==
    [lists |-> {List(<<6>>)}, keys |-> {0, 6}, values |-> {1}, ranges |-> {}, alone |-> {},
     ops |-> {<<"insert", "none">>, <<"erase", "none">>},
     any_sizes |-> FALSE, calls |-> 3, crashes |-> 2]

\* Operations of one thread alone among calls of others.
Serial ==
    [lists |-> {<<>>, List(<<0, 2, 6>>)}, keys |-> {6}, values |-> {2}, ranges |-> {<<50, 50>>},
     alone |-> {"clear", "rehash", "assign", "swap", "undone swap"},
     ops |-> {<<"insert", "none">>, <<"insert", "read">>, <<"erase", "none">>},
     any_sizes |-> FALSE, calls |-> 2, crashes |-> 1]

AllScenarios == {Growth, Accessors, Crashes, Serial}
=============================================================================

---------------------------- MODULE MCDocuments -----------------------------
(***************************************************************************)
(* Small fields for Documents, with bytes of four bits: every kind, values *)
(* at both sides of the boundaries (a size of one and of two bytes, a      *)
(* range that is no power of two, a value that needs all the groups of a   *)
(* compact type, equal keys), with and without bit packing where that is a *)
(* difference, and a variant with an alternative of two bytes.             *)
(***************************************************************************)
EXTENDS Documents

FewFields ==
  << [ kind |-> "bits", bits |-> 3, x |-> 2 ],
     [ kind |-> "bits", bits |-> 5, x |-> 17 ],
     [ kind |-> "value", bytes |-> 1, x |-> 10 ],
     [ kind |-> "value", bytes |-> 2, x |-> 80 ] >>

\* Numbers of -1 .. 1 with a precision of 1/4, and of 0 .. 1 with all the
\* bits a number has: the ends, and the greatest error.
Rough(n) == [ kind |-> "float", low |-> -Unit, high |-> Unit,
              precision |-> Unit \div 4, bits |-> 0, x |-> n ]
Fine(n)  == [ kind |-> "float", low |-> 0, high |-> Unit,
              precision |-> 0, bits |-> Digits, x |-> n ]

ArrayForText ==
  [ kind |-> "text", bytes |-> 1, size |-> 3, had |-> <<9, 9, 9>>, x |-> <<5, 0, 2>> ]

Texts == << ArrayForText >>

EveryKind == FewFields \o
  << [ kind |-> "compact", bytes |-> 2, signed |-> FALSE, checked |-> TRUE, x |-> 200 ],
     [ kind |-> "compact", bytes |-> 2, signed |-> TRUE, checked |-> TRUE, x |-> -128 ],
     [ kind |-> "compact", bytes |-> 2, signed |-> TRUE, checked |-> FALSE, x |-> 3 ],
     [ kind |-> "compact", bytes |-> 1, signed |-> TRUE, checked |-> TRUE, x |-> -8 ],
     [ kind |-> "range", bytes |-> 1, low |-> -3, high |-> 2, x |-> -1 ],
     [ kind |-> "range", bytes |-> 1, low |-> 3, high |-> 7, x |-> 7 ],
     [ kind |-> "entropy", values |-> <<4, 9, 4>>, align |-> TRUE, x |-> 9 ],
     [ kind |-> "entropy", values |-> <<4>>, align |-> FALSE, x |-> 5 ],
     [ kind |-> "dynamic", bytes |-> 1, maxSize |-> 2, x |-> <<6, 1>> ],
     [ kind |-> "dynamic", bytes |-> 1, maxSize |-> 9, x |-> [ i \in 1 .. 8 |-> i ] ],
     [ kind |-> "fixed", bytes |-> 2, size |-> 2, x |-> <<33, 1>> ],
     ArrayForText,
     [ kind |-> "string", bytes |-> 2, maxSize |-> 2, x |-> <<65, 0>> ],
     [ kind |-> "set", bytes |-> 1, maxSize |-> 3, x |-> {2, 11} ],
     [ kind |-> "map", bytes |-> 1, maxSize |-> 2, x |-> 1 :> 14 @@ 6 :> 0 ],
     [ kind |-> "multiset", bytes |-> 1, maxSize |-> 3, x |-> <<7, 7, 11>> ],
     [ kind |-> "multimap", bytes |-> 1, maxSize |-> 2, x |-> << <<3, 9>>, <<3, 4>> >> ],
     [ kind |-> "bool", packed |-> FALSE, x |-> TRUE ],
     [ kind |-> "optional", packed |-> TRUE, bytes |-> 1, align |-> TRUE, x |-> <<12>> ],
     [ kind |-> "optional", packed |-> TRUE, bytes |-> 1, align |-> FALSE, x |-> << >> ],
     [ kind |-> "optional", packed |-> FALSE, bytes |-> 1, align |-> TRUE, x |-> <<12>> ],
     [ kind |-> "variant", widths |-> <<1, 2>>, had |-> <<0, 3>>, x |-> <<1, 19>> ],
     [ kind |-> "tuple", widths |-> <<2, 1>>, x |-> <<18, 8>> ],
     [ kind |-> "queue", bytes |-> 1, maxSize |-> 1, x |-> <<15>> ],
     [ kind |-> "stack", bytes |-> 1, maxSize |-> 3, x |-> << >> ],
     [ kind |-> "time", bytes |-> 2, x |-> -100 ],
     [ kind |-> "atomic", bytes |-> 1, x |-> 13 ],
     [ kind |-> "bitset", packed |-> TRUE, size |-> 6, x |-> {0, 3, 5} ],
     [ kind |-> "bitset", packed |-> FALSE, size |-> 6, x |-> {0, 3, 5} ],
     [ kind |-> "bitset", packed |-> TRUE, size |-> 9, x |-> {1, 4, 6, 8} ],
     Rough(-64), Rough(-30), Rough(64), Fine(8), Fine(64) >>

=============================================================================

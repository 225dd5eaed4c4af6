-------------------------- MODULE MCContestResults --------------------------
(* Small instances of ContestResults for TLC. *)
EXTENDS ContestResults

CONSTANTS p1, p2, p3, setter, author, t1, x1, x2

Whole(v)   == [verdict |-> v, groups |-> <<>>]
Group(a, b) == [verdict |-> IF a + b = 2 THEN "AC" ELSE "WA", groups |-> <<a, b>>]
AllResults == {Whole("AC"), Whole("WA"), Whole("CE"), Group(1, 0), Group(0, 1), Group(1, 1)}

Team == (p1 :> t1) @@ (p2 :> t1) @@ (p3 :> Alone)
Solos == (p1 :> Alone) @@ (p2 :> Alone) @@ (p3 :> Alone)

AllMixes == {
  \* the rules of the table: one account's runs, and rows side by side
  [kinds |-> {"submit"}, open |-> 1, people |-> {p1}, team |-> Solos, onsite |-> {}, problems |-> {x1},
   results |-> AllResults, runs |-> 3],
  [kinds |-> {"submit"}, open |-> 1, people |-> {p1, p3, author}, team |-> Team, onsite |-> {t1}, problems |-> {x1},
   results |-> {Group(1, 0), Group(1, 1)}, runs |-> 3],
  [kinds |-> {"submit"}, open |-> 1, people |-> {p1, p2}, team |-> Solos, onsite |-> {p2}, problems |-> {x1, x2},
   results |-> {Whole("AC"), Whole("WA")}, runs |-> 3],
  \* the races of reveal, rejudge and late submissions
  [kinds |-> {"submit", "rejudge", "reveal"}, open |-> 2, people |-> {p1}, team |-> Solos, onsite |-> {}, problems |-> {x1},
   results |-> {Whole("AC"), Whole("WA")}, runs |-> 2]}

Symmetry == Permutations(Requests)

=============================================================================

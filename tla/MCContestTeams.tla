--------------------------- MODULE MCContestTeams ---------------------------
(* Small instances of ContestTeams for TLC. *)
EXTENDS ContestTeams, FiniteSetsExt, TLC

\* Every choice of n accounts and m team ids, so that Symmetry stays sound.
Mix(kinds, n, m, sizes) ==
  [kinds : {kinds}, people : kSubset(n, People), teams : kSubset(m, Teams), sizes : {sizes}]

AllMixes == UNION {
  Mix({"enter", "move", "settings"}, 3, 1, {2, 3}),              \* full teams
  Mix({"enter", "move", "submit"}, 2, 1, {2}),                   \* moves at the start
  Mix({"enter", "move", "remove", "renew"}, 2, 1, {2}),          \* codes
  Mix({"enter", "move", "upgrade", "guess", "venue", "settings"}, 2, 1, {2}), \* divisions
  Mix({"enter", "remove", "delete"}, 2, 2, {2}),                 \* departures
  Mix({"enter", "move", "delete"}, 2, 1, {2})}                   \* a move overtakes a deletion

\* Accounts, team ids and transactions are interchangeable.
Symmetry == Permutations(People) \cup Permutations(Teams) \cup Permutations(Requests)

=============================================================================

--------------------------- MODULE MCContestStaff ---------------------------
(* Small instances of ContestStaff for TLC. *)
EXTENDS ContestStaff, TLC

CONSTANTS p1, p2, p3, x1

OneAuthor == (x1 :> p1)

AllMixes == {
  [kinds |-> {"create", "save", "tester", "join"}, people |-> People, links |-> 0],
  [kinds |-> {"create", "link", "accept", "remove", "join"}, people |-> People, links |-> 2],
  [kinds |-> {"create", "draft", "publish", "tester"}, people |-> {p1, p2}, links |-> 0],
  [kinds |-> {"create", "publish", "link", "accept", "delete"}, people |-> People, links |-> 1]}

Deletions == {[kinds |-> {"create", "link", "accept", "delete"}, people |-> People, links |-> 1]}

Symmetry == Permutations(Requests)

=============================================================================

--------------------------- MODULE MCPublications ---------------------------
(* Small instances of Publications for TLC. *)
EXTENDS Publications

CONSTANTS p1, p2, p3, p4, a1, a2, a3

Authors == (p1 :> a1) @@ (p2 :> a1) @@ (p3 :> a2) @@ (p4 :> a3)

Text    == {"title", "statement", "editorial"}
Ready   == [texts |-> Text, level |-> "easy", judges |-> {}, scoring |-> None, cases |-> {[sample |-> FALSE, groups |-> {}]}]
Hard    == [Ready EXCEPT !.level = "hard"]
Untold  == [Ready EXCEPT !.texts = {"title", "statement"}]
Group(n, m) == [name |-> n, points |-> m]
Partial(m) == [Ready EXCEPT !.scoring = [mode |-> "groups", groups |-> <<Group("a", m)>>, aggregator |-> {}],
                            !.cases = {[sample |-> FALSE, groups |-> {"a"}]}]
Summed  == [Partial(40) EXCEPT !.scoring = [mode |-> "aggregate", groups |-> <<Group("a", 40)>>, aggregator |-> {[source |-> TRUE, runtime |-> TRUE]}]]
Unsummed == [Summed EXCEPT !.scoring = [mode |-> "aggregate", groups |-> <<Group("a", 40)>>, aggregator |-> {}]]
Halves  == [Partial(40) EXCEPT !.scoring.groups = <<Group("a", 20), Group("b", 20)>>]

Mix(kinds, problems, first, saves, from, days, versions) ==
  [kinds |-> kinds, problems |-> problems, first |-> first, saves |-> saves, from |-> from, days |-> days,
   versions |-> versions, waiting |-> {<<>>}]
Entry(pref, at, ahead) == [pref |-> pref, at |-> at, ahead |-> ahead]
Waiting == {(p1 :> Entry(x, 1, {})) @@ (p3 :> Entry(y, 2, {p1})) @@ (p4 :> Entry(z, 2, {p1, p3})) : x, y, z \in {"soon", "later"}}
AllMixes == {
  Mix({"save", "contest", "submit"}, {p1}, {Partial(40)}, {Partial(50), Ready, Untold, Summed, Unsummed, Halves}, 3, 6, 3),
  Mix({"save", "publish", "schedule", "abort"}, {p1}, {Ready}, {Untold, Hard}, 3, 5, 4),
  Mix({"save", "contest", "publish"}, {p1}, {Ready}, {Untold}, 3, 6, 4),
  Mix({"contest", "publish", "schedule", "apply"}, {p1}, {Ready}, {Ready}, 3, 6, 3),
  Mix({"apply", "publish", "save", "release"}, {p1}, {Ready}, {Hard}, 2, 7, 3),
  Mix({"apply", "contest", "release"}, {p1, p2}, {Ready}, {Ready}, 2, 5, 2),
  Mix({"apply", "preview", "release"}, {p1, p3}, {Ready}, {Ready}, 2, 5, 2),
  Mix({"apply", "preview", "delete", "release"}, {p1, p3}, {Ready}, {Ready}, 2, 3, 2),
  [Mix({"preview", "release"}, {p1, p3, p4}, {Ready}, {Ready}, 2, 9, 2) EXCEPT !.waiting = Waiting]}

Days == {[starts |-> 4, ends |-> 5]}

Symmetry == Permutations(Requests)

=============================================================================

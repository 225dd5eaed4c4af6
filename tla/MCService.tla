----------------------------- MODULE MCService ------------------------------
(* Instances of Service: small values of every limit, so that each is met.  *)
EXTENDS Service, TLC

CONSTANTS c1, c2, s1, s2

\* Two kinds of runs, one creation, and one network with two addresses.
MCRunLimit == ("submission" :> 2) @@ ("codeRun" :> 3)
MCBurst    == ("post" :> 2) @@ ("n" :> 2) @@ ("e1" :> 1) @@ ("e2" :> 2)
MCEvery    == ("post" :> 2) @@ ("n" :> 2) @@ ("e1" :> 3) @@ ("e2" :> 2)
Asked(asks, most) == [asks |-> asks, most |-> most]
MCDemands  == {Asked({<<"submission">>, <<"codeRun">>}, 4), Asked({<<"post">>}, 5), Asked({<<"n", "e1">>, <<"n", "e2">>}, 3)}

\* Jobs with groups that share cases and cases without a group, with a case whose one group or both
\* are lost to two slow cases before it, with an aggregator, unscored, of the local worker, of a
\* sample check, and judged by an older release.
Job(mode, points, cases) == [mode |-> mode, points |-> points, cases |-> cases, local |-> FALSE, sample |-> FALSE, older |-> FALSE]
Grouped   == Job("groups", <<2, 1>>, <<{1}, {1, 2}, {2}, {}>>)
Unscored  == Job(None, <<>>, <<{}, {}, {}, {}>>)
MCJobs ==
  {[Grouped EXCEPT !.local = l, !.older = o] : l \in BOOLEAN, o \in BOOLEAN}
  \cup {[Unscored EXCEPT !.local = l, !.sample = s] : l \in BOOLEAN, s \in BOOLEAN}
  \cup {Job("groups", <<2, 1>>, <<{1}, {1}, {1}, {1, 2}>>), Job("groups", <<2, 1>>, <<{1}, {}, {1}>>),
        Job("aggregate", <<1, 1>>, <<{1, 2}, {1}, {2}, {1, 2}>>)}

\* A contest that fills late and a queue behind a stale primary; windows that meet, with one too
\* many and a stale host.
At1(s, e) == [starts |-> s, ends |-> e]
MCPlans == {[contests |-> <<At1(2, 20)>>, work |-> "some", full |-> {}, stale |-> {"p"}],
            [contests |-> <<At1(1, 2), At1(5, 14), At1(6, 20)>>, work |-> "none", full |-> {1, 2, 3}, stale |-> {"b1"}]}
MCPrimaries == <<"p">>
MCBursts    == <<"b1", "b2">>

Symmetry == Permutations({c1, c2}) \cup Permutations({s1, s2})
=============================================================================

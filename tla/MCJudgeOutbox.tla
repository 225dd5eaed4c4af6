---------------------------- MODULE MCJudgeOutbox ----------------------------
(* Small instances of JudgeOutbox for TLC.                                 *)
EXTENDS JudgeOutbox, TLC

\* Solutions, hosts and bridges are interchangeable.
Symmetry == Permutations(Submissions) \cup Permutations(CodeRuns)
              \cup Permutations(Hosts) \cup Permutations(Bridges)

=============================================================================

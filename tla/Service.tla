------------------------------- MODULE Service ------------------------------
(***************************************************************************)
(* The parts of the service that keep state apart from the outbox and the  *)
(* contests, side by side: the limits of the API (Limits), scoring         *)
(* (Scoring), the local judge worker (LocalJudge), test files (TestFiles), *)
(* the pool of judge hosts (HostPool) and the rolling switch of their      *)
(* environment (RollingSwitch).                                            *)
(*                                                                         *)
(* They share no state, so every behaviour exercises one of them: part is  *)
(* chosen at the start and the others stay as they are.                    *)
(***************************************************************************)
EXTENDS Limits, Scoring, LocalJudge, TestFiles, HostPool, RollingSwitch

VARIABLE part  \* the part that moves

serviceVars == <<part, limitVars, scoringVars, localVars, fileVars, poolVars, switchVars>>

\* The parts that stay as they are begin in one state only.
Fixed(p, x, X) == part = p \/ x = CHOOSE y \in X : TRUE
Init ==
  /\ part \in {"limits", "scoring", "local", "files", "pool", "switch"}
  /\ LimitsInit  /\ Fixed("limits", demand, Demands)
  /\ ScoringInit /\ Fixed("scoring", task, Jobs) /\ Fixed("scoring", truth, [Cases -> Ends])
  /\ LocalInit
  /\ FilesInit   /\ Fixed("files", storage, Storages)
  /\ PoolInit    /\ Fixed("pool", given, Plans)
  /\ SwitchInit

Next ==
  \/ part = "limits"  /\ LimitsNext  /\ UNCHANGED <<part, scoringVars, localVars, fileVars, poolVars, switchVars>>
  \/ part = "scoring" /\ ScoringNext /\ UNCHANGED <<part, limitVars, localVars, fileVars, poolVars, switchVars>>
  \/ part = "local"   /\ LocalNext   /\ UNCHANGED <<part, limitVars, scoringVars, fileVars, poolVars, switchVars>>
  \/ part = "files"   /\ FilesNext   /\ UNCHANGED <<part, limitVars, scoringVars, localVars, poolVars, switchVars>>
  \/ part = "pool"    /\ PoolNext    /\ UNCHANGED <<part, limitVars, scoringVars, localVars, fileVars, switchVars>>
  \/ part = "switch"  /\ SwitchNext  /\ UNCHANGED <<part, limitVars, scoringVars, localVars, fileVars, poolVars>>
Spec == Init /\ [][Next]_serviceVars

TypeOK == LimitsTypeOK /\ ScoringTypeOK /\ LocalTypeOK /\ FilesTypeOK /\ PoolTypeOK /\ SwitchTypeOK

=============================================================================

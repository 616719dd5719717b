-------------------------- MODULE FencedExecution --------------------------
(***************************************************************************)
(* Executor.run_step with a fencing pair, over the claim registry.  The    *)
(* token is validated once, under claims.lock, before anything else the    *)
(* step does; the worktree, the adapter call and the artifact that follow  *)
(* take as long as they take, and nothing looks at the claim again.        *)
(***************************************************************************)
EXTENDS ClaimRegistry

VARIABLES
  running,   \* running[a]: the token a's run_step entered with, for each resource
  admitted,  \* admitted[r]: 1 + the token of the latest admitted run_step on r
  effect     \* effect[r]: 1 + the token behind the latest side effect on r

stepVars == <<running, admitted, effect>>
allVars == <<vars, stepVars>>

ValidTokenSoFar(r, token) == token < fencing[r]  \* mutant: any token issued

\* fencing.validate_fencing_token: exact equality, and no entry is no token.
ValidToken(r, token) == fencing[r] > 0 /\ token = fencing[r] - 1

StepInit ==
  /\ Init
  /\ running = [a \in Agents |-> [r \in Resources |-> 0]]
  /\ admitted = [r \in Resources |-> 0]
  /\ effect = [r \in Resources |-> 0]

\* Idle(a): a's process is in no run_step.
Idle(a) == \A r \in Resources : running[a][r] = 0

\* run_step's entry; a stale token raises ClaimStaleFencingError and nothing
\* has happened.
EnterStep(a, r) ==
  /\ Free
  /\ Idle(a)
  /\ held[a][r] # NoHandle
  /\ ValidToken(r, held[a][r].token)
  /\ running' = [running EXCEPT ![a][r] = held[a][r].token + 1]
  /\ admitted' = [admitted EXCEPT ![r] = held[a][r].token + 1]
  /\ UNCHANGED <<vars, effect>>

\* The worktree, the adapter invocation, the artifact.
SideEffect(a, r) ==
  /\ running[a][r] > 0
  /\ effect' = [effect EXCEPT ![r] = running[a][r]]
  /\ UNCHANGED <<vars, running, admitted>>

LeaveStep(a, r) ==
  /\ running[a][r] > 0
  /\ running' = [running EXCEPT ![a][r] = 0]
  /\ UNCHANGED <<vars, admitted, effect>>

CrashInStep(a) ==
  /\ Crash(a)
  /\ running' = [running EXCEPT ![a] = [r \in Resources |-> 0]]
  /\ UNCHANGED <<admitted, effect>>

RegistryStep == (Call \/ Stage \/ Tick \/ OpFails \/ IndexLost) /\ UNCHANGED stepVars

StepNext ==
  \/ RegistryStep
  \/ \E a \in Agents : CrashInStep(a)
  \/ \E a \in Agents, r \in Resources : EnterStep(a, r) \/ SideEffect(a, r) \/ LeaveStep(a, r)

StepSpec == StepInit /\ [][StepNext]_allVars

\* Fairness of the registry calls; a step may take for ever.
StepFairSpec == StepSpec /\ Fairness

-----------------------------------------------------------------------------
(* While a claim on r is on file nobody but its owner, with the token of    *)
(* that claim, enters a step on r: the victims of a takeover, and the       *)
(* former owners before them, are turned away.                              *)
AdmitsOwnerOnly ==
  [][\A a \in Agents, r \in Resources :
       (running[a][r] = 0 /\ running'[a][r] # 0 /\ Exists(r)) => Owns(a, r)]_allVars

(* Steps on a resource are admitted in the order of their grants: once the  *)
(* owner of a later grant got in, no earlier one does.                      *)
AdmittedInOrder ==
  [][\A r \in Resources : admitted'[r] >= admitted[r]]_allVars

(* Side effects on a resource happen in the order of the grants: a stale    *)
(* holder's are blocked.                                                    *)
EffectsInOrder ==
  [][\A r \in Resources : effect'[r] >= effect[r]]_allVars
=============================================================================

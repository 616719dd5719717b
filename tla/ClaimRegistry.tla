--------------------------- MODULE ClaimRegistry ---------------------------
(***************************************************************************)
(* The claim registry of ao_kernel/coordination: leases on resources with  *)
(* heartbeats, a grace period, takeover, fencing tokens and a per-agent    *)
(* quota.  The state is three kinds of JSON file under .ao/claims: one     *)
(* claim file per resource, _fencing.v1.json and the derived               *)
(* _index.v1.json.  Every operation holds claims.lock from its first read  *)
(* to its last write, but writes its files one at a time: op is the lock   *)
(* holder's position between two of those writes, where its process may    *)
(* die.  Clock time is kept as the age of each heartbeat.                  *)
(***************************************************************************)
EXTENDS Naturals, FiniteSets

CONSTANTS
  Agents,     \* owner_agent_id values
  Resources,  \* resource_id values
  Expiry,     \* policy.expiry_seconds, in ticks
  Grace,      \* policy.takeover_grace_period_seconds, in ticks
  MaxClaims,  \* policy.max_claims_per_agent; 0 is unlimited
  Faults,     \* which of the fault actions may happen
  MaxToken,   \* bound of the model: grants tried per resource
  Nobody,     \* no agent
  Nowhere     \* no resource

ASSUME PolicyAssumption ==
  Expiry \in Nat /\ Grace \in Nat /\ MaxClaims \in Nat /\ MaxToken \in Nat
ASSUME NullAssumption == Nobody \notin Agents /\ Nowhere \notin Resources
ASSUME FiniteAssumption == IsFiniteSet(Resources)

VARIABLES
  claim,    \* claim[r]: the content of {r}.v1.json, NoClaim when absent
  fencing,  \* fencing[r]: next_token of r, 0 when r has no entry
  index,    \* index[a]: the resources _index.v1.json lists under a
  indexOk,  \* the index file exists and its stored revision is its hash
  minted,   \* minted[r]: number of claim_ids (uuid4) made for r
  held,     \* held[a][r]: the Claim a's process got for r and still keeps
  op        \* the operation that holds claims.lock

vars == <<claim, fencing, index, indexOk, minted, held, op>>

-----------------------------------------------------------------------------
(* Types.                                                                  *)

\* The age at which a claim is past grace; ages beyond it are alike.
Horizon == Expiry + Grace + 1

ClaimFile == [id : Nat, owner : Agents \cup {Nobody}, token : Nat, idle : 0 .. Horizon]
NoClaim == [id |-> 0, owner |-> Nobody, token |-> 0, idle |-> 0]

Handle == [id : Nat, token : Nat]
NoHandle == [id |-> 0, token |-> 0]

Stages == {"idle", "fencing", "claim", "unindex", "index", "release", "prune", "pruned"}
Operation == [pc : Stages, agent : Agents \cup {Nobody}, res : Resources \cup {Nowhere},
              token : Nat, prev : Agents \cup {Nobody}, age : 0 .. Horizon,
              todo : SUBSET Resources]
NoOp == [pc |-> "idle", agent |-> Nobody, res |-> Nowhere, token |-> 0,
         prev |-> Nobody, age |-> 0, todo |-> {}]

-----------------------------------------------------------------------------
(* Reading the files.                                                      *)

Free == op.pc = "idle"
Exists(r) == claim[r].owner # Nobody
PastGrace(r) == claim[r].idle > Expiry + Grace
Live(r) == Exists(r) /\ ~PastGrace(r)

\* _rebuild_index_locked: the index the claim files imply.
DerivedIndex == [a \in Agents |-> {r \in Resources : claim[r].owner = a}]

\* _ensure_index_consistent looks at the index file alone: a file whose
\* stored revision is the hash of its own content is kept as it is.
EnsuredIndex == IF indexOk THEN index ELSE DerivedIndex

\* _count_agent_claims_live opens what the index lists under a and counts the
\* claims that are not past grace, whoever owns them.
LiveListed(a) == {r \in EnsuredIndex[a] : Live(r)}
OverQuota(a) == MaxClaims > 0 /\ Cardinality(LiveListed(a)) >= MaxClaims

\* The caller's claim_id and owner_agent_id match the claim file.
Owns(a, r) == claim[r].owner = a /\ claim[r].id = held[a][r].id

-----------------------------------------------------------------------------
Init ==
  /\ claim = [r \in Resources |-> NoClaim]
  /\ fencing = [r \in Resources |-> 0]
  /\ index = [a \in Agents |-> {}]
  /\ indexOk = FALSE
  /\ minted = [r \in Resources |-> 0]
  /\ held = [a \in Agents |-> [r \in Resources |-> NoHandle]]
  /\ op = NoOp

\* The operation takes the lock with the token it will issue and the claim it
\* will replace.
Grab(a, r) ==
  op' = [NoOp EXCEPT !.pc = "fencing", !.agent = a, !.res = r,
                     !.token = fencing[r], !.prev = claim[r].owner]

\* Mutants of Begin: the gate forgets the grace period; the takeover path
\* skips the quota; acquire_claim does not hand past-grace claims over.
BeginInGrace(a, r) ==
  /\ Free /\ (Exists(r) => claim[r].idle > Expiry) /\ minted[r] < MaxToken
  /\ ~OverQuota(a) /\ Grab(a, r)
  /\ index' = EnsuredIndex /\ indexOk' = TRUE /\ UNCHANGED <<claim, fencing, minted, held>>
BeginUncounted(a, r) ==
  /\ Free /\ (Exists(r) => PastGrace(r)) /\ minted[r] < MaxToken
  /\ (Exists(r) \/ ~OverQuota(a)) /\ Grab(a, r)
  /\ index' = EnsuredIndex /\ indexOk' = TRUE /\ UNCHANGED <<claim, fencing, minted, held>>
BeginFreshOnly(a, r) ==
  /\ Free /\ ~Exists(r) /\ minted[r] < MaxToken /\ ~OverQuota(a) /\ Grab(a, r)
  /\ index' = EnsuredIndex /\ indexOk' = TRUE /\ UNCHANGED <<claim, fencing, minted, held>>

(* acquire_claim and takeover_claim.  A live or in-grace claim is refused   *)
(* with nothing written.  The quota check leaves a rebuilt index behind     *)
(* even when it refuses.                                                    *)
Begin(a, r) ==
  /\ Free
  /\ Exists(r) => PastGrace(r)
  /\ minted[r] < MaxToken
  /\ index' = EnsuredIndex
  /\ indexOk' = TRUE
  /\ \/ OverQuota(a) /\ UNCHANGED op
     \/ /\ ~OverQuota(a)
        /\ Grab(a, r)
  /\ UNCHANGED <<claim, fencing, minted, held>>

WriteFencing ==
  /\ op.pc = "fencing"
  /\ fencing' = [fencing EXCEPT ![op.res] = op.token + 1]
  /\ minted' = [minted EXCEPT ![op.res] = @ + 1]
  /\ op' = [op EXCEPT !.pc = "claim"]
  /\ UNCHANGED <<claim, index, indexOk, held>>

\* A takeover stamps the heartbeat with the time of its gate, a fresh acquire
\* with the time of the write.
WriteClaim ==
  /\ op.pc = "claim"
  /\ claim' = [claim EXCEPT ![op.res] =
                 [id |-> minted[op.res], owner |-> op.agent, token |-> op.token,
                  idle |-> IF op.prev = Nobody THEN 0 ELSE op.age]]
  /\ op' = [op EXCEPT !.pc = IF op.prev = Nobody THEN "index" ELSE "unindex", !.age = 0]
  /\ UNCHANGED <<fencing, index, indexOk, minted, held>>

\* _remove_from_index and _add_to_index start from an empty index when the
\* file is absent or corrupt, and always leave one with a matching revision.
RemoveAgentFromIndex(r, a) ==  \* mutant: the agent's whole entry goes
  index' = [b \in Agents \ {a} |-> index[b]] /\ indexOk' = TRUE

RemoveFromIndex(r, a) ==
  /\ index' = [index EXCEPT ![a] = @ \ {r}]
  /\ indexOk' = TRUE

AddToIndex(a, r) ==
  /\ index' = [index EXCEPT ![a] = @ \cup {r}]
  /\ indexOk' = TRUE

\* Mutant: the previous owner's entry is left behind.
KeepPreviousIndexed ==
  op.pc = "unindex" /\ op' = [op EXCEPT !.pc = "index"]
  /\ UNCHANGED <<claim, fencing, index, indexOk, minted, held>>

UnindexPrevious ==
  /\ op.pc = "unindex"
  /\ RemoveFromIndex(op.res, op.prev)
  /\ op' = [op EXCEPT !.pc = "index"]
  /\ UNCHANGED <<claim, fencing, minted, held>>

IndexAndReturn ==
  /\ op.pc = "index"
  /\ AddToIndex(op.agent, op.res)
  /\ held' = [held EXCEPT ![op.agent][op.res] = [id |-> minted[op.res], token |-> op.token]]
  /\ op' = NoOp
  /\ UNCHANGED <<claim, fencing, minted>>

(* heartbeat: one write; refused past grace. *)
Heartbeat(a, r) ==
  /\ Free
  /\ Owns(a, r)
  /\ ~PastGrace(r)
  /\ claim' = [claim EXCEPT ![r].idle = 0]
  /\ UNCHANGED <<fencing, index, indexOk, minted, held, op>>

(* release_claim, at any age of the claim.  The audit fields the fencing    *)
(* file gets between the two writes are not kept; next_token stays.         *)
ReleaseDelete(a, r) ==
  /\ Free
  /\ Owns(a, r)
  /\ claim' = [claim EXCEPT ![r] = NoClaim]
  /\ op' = [NoOp EXCEPT !.pc = "release", !.agent = a, !.res = r]
  /\ UNCHANGED <<fencing, index, indexOk, minted, held>>

ReleaseUnindex ==
  /\ op.pc = "release"
  /\ RemoveFromIndex(op.res, op.agent)
  /\ held' = [held EXCEPT ![op.agent][op.res] = NoHandle]
  /\ op' = NoOp
  /\ UNCHANGED <<claim, fencing, minted>>

(* prune_expired_claims, run by an operator's process: now is read once, so *)
(* the claims to prune are fixed at the start.  It stops after the last of  *)
(* them or, with max_batch, after any of them.                              *)
\* Mutant: the scan takes claims that are in grace.
PruneBeginInGrace ==
  /\ Free
  /\ \E r \in Resources : Exists(r) /\ claim[r].idle > Expiry
  /\ op' = [NoOp EXCEPT !.pc = "prune",
                        !.todo = {r \in Resources : Exists(r) /\ claim[r].idle > Expiry}]
  /\ UNCHANGED <<claim, fencing, index, indexOk, minted, held>>

PruneBegin ==
  /\ Free
  /\ \E r \in Resources : Exists(r) /\ PastGrace(r)
  /\ op' = [NoOp EXCEPT !.pc = "prune",
                        !.todo = {r \in Resources : Exists(r) /\ PastGrace(r)}]
  /\ UNCHANGED <<claim, fencing, index, indexOk, minted, held>>

\* Mutant: the resource's fencing entry goes with its claim.
PruneDeleteWithToken(r) ==
  /\ op.pc = "prune" /\ r \in op.todo
  /\ claim' = [claim EXCEPT ![r] = NoClaim] /\ fencing' = [fencing EXCEPT ![r] = 0]
  /\ op' = [op EXCEPT !.pc = "pruned", !.res = r, !.prev = claim[r].owner]
  /\ UNCHANGED <<index, indexOk, minted, held>>

PruneDelete(r) ==
  /\ op.pc = "prune"
  /\ r \in op.todo
  /\ claim' = [claim EXCEPT ![r] = NoClaim]
  /\ op' = [op EXCEPT !.pc = "pruned", !.res = r, !.prev = claim[r].owner]
  /\ UNCHANGED <<fencing, index, indexOk, minted, held>>

PruneUnindex ==
  /\ op.pc = "pruned"
  /\ RemoveFromIndex(op.res, op.prev)
  /\ \/ op' = NoOp
     \/ /\ op.todo # {op.res}
        /\ op' = [NoOp EXCEPT !.pc = "prune", !.todo = op.todo \ {op.res}]
  /\ UNCHANGED <<claim, fencing, minted, held>>

(* list_agent_claims and live_claims_count: reads, but for the rebuild. *)
ListClaims ==
  /\ Free
  /\ ~indexOk
  /\ index' = EnsuredIndex
  /\ indexOk' = TRUE
  /\ UNCHANGED <<claim, fencing, minted, held, op>>

(* _reconcile_fencing_with_claims_locked. *)
ReconciledToClaim(r) ==  \* mutant: not forward-only
  IF Exists(r) THEN claim[r].token + 1 ELSE fencing[r]

Reconciled(r) ==
  IF Exists(r) /\ claim[r].token + 1 > fencing[r] THEN claim[r].token + 1 ELSE fencing[r]

Reconcile ==
  /\ Free
  /\ fencing' = [r \in Resources |-> Reconciled(r)]
  /\ UNCHANGED <<claim, index, indexOk, minted, held, op>>

Older(age) == IF age < Horizon THEN age + 1 ELSE age

Tick ==
  /\ claim' = [r \in Resources |->
                 IF Exists(r) THEN [claim[r] EXCEPT !.idle = Older(@)] ELSE claim[r]]
  /\ op' = IF op.pc \in {"fencing", "claim"} THEN [op EXCEPT !.age = Older(@)] ELSE op
  /\ UNCHANGED <<fencing, index, indexOk, minted, held>>

-----------------------------------------------------------------------------
(* Faults.  The kernel drops the flock of a dead process; an exception      *)
(* leaves the with block.  Every file is replaced by a rename, so each is   *)
(* either as before or as after the interrupted write.                      *)

\* a's process dies: its handles go with it, and its operation stops there.
Crash(a) ==
  /\ "crash" \in Faults
  /\ held' = [held EXCEPT ![a] = [r \in Resources |-> NoHandle]]
  /\ op' = IF op.agent = a THEN NoOp ELSE op
  /\ UNCHANGED <<claim, fencing, index, indexOk, minted>>

\* The next write of the operation raises, or the operator's process dies.
OpFails ==
  /\ "io_error" \in Faults
  /\ ~Free
  /\ op' = NoOp
  /\ UNCHANGED <<claim, fencing, index, indexOk, minted, held>>

\* _index.v1.json is removed or damaged: both read as an empty index.
IndexLost ==
  /\ "index_loss" \in Faults
  /\ index' = [a \in Agents |-> {}]
  /\ indexOk' = FALSE
  /\ UNCHANGED <<claim, fencing, minted, held, op>>

\* _fencing.v1.json is removed: read as the first-write bootstrap.
FencingLost ==
  /\ "fencing_loss" \in Faults
  /\ Free
  /\ fencing' = [r \in Resources |-> 0]
  /\ UNCHANGED <<claim, index, indexOk, minted, held, op>>

Fault == IndexLost \/ FencingLost \/ OpFails \/ \E a \in Agents : Crash(a)

-----------------------------------------------------------------------------
Stage == \/ WriteFencing \/ WriteClaim \/ UnindexPrevious \/ IndexAndReturn
         \/ ReleaseUnindex \/ PruneUnindex \/ \E r \in Resources : PruneDelete(r)

Call == \/ \E a \in Agents, r \in Resources :
             Begin(a, r) \/ Heartbeat(a, r) \/ ReleaseDelete(a, r)
        \/ PruneBegin \/ ListClaims \/ Reconcile

Next == Call \/ Stage \/ Tick \/ Fault

Spec == Init /\ [][Next]_vars

\* The registry while every process lives on and every write succeeds; the
\* fencing file may be lost.
UndisturbedSpec == Init /\ [][Call \/ Stage \/ Tick \/ FencingLost]_vars

(* The lock holder goes on to its next write (or dies); time passes; the    *)
(* callers of acquire_claim retry, as COORDINATION.md section 6 leaves      *)
(* cleanup to them, and do not die at the same write every time.            *)
Fairness ==
  /\ WF_vars(Stage)
  /\ WF_vars(Tick)
  /\ \A a \in Agents, r \in Resources : SF_vars(Begin(a, r))
  /\ \A r \in Resources :
       SF_vars(WriteFencing /\ op.res = r) /\ SF_vars(WriteClaim /\ op.res = r)

-----------------------------------------------------------------------------
(* The type invariant: what each file, handle and operation can contain. *)
TypeOK ==
  /\ claim \in [Resources -> ClaimFile]
  /\ fencing \in [Resources -> Nat]
  /\ index \in [Agents -> SUBSET Resources]
  /\ indexOk \in BOOLEAN
  /\ minted \in [Resources -> Nat]
  /\ held \in [Agents -> [Resources -> Handle]]
  /\ op \in Operation

(* The owner of a claim that is live or in grace passes the exact-equality  *)
(* check of validate_fencing_token, whatever operation is under way or died *)
(* half-way: the fencing file runs ahead of a claim only past its grace.    *)
LiveOwnerNotFenced ==
  \A r \in Resources : Live(r) => claim[r].token + 1 = fencing[r]

(* While somebody's claim is on file, a process that still holds an earlier *)
(* claim on the resource fails validate_fencing_token: acquire and takeover *)
(* advance next_token before they write the claim.                          *)
FormerOwnerFenced ==
  \A a \in Agents, r \in Resources :
    (Exists(r) /\ held[a][r] # NoHandle /\ held[a][r].id # claim[r].id)
      => held[a][r].token + 1 # fencing[r]

(* What the lock holder established by the time it reached its stage, and   *)
(* nobody without the lock can undo: the claim it replaces or deletes stays *)
(* past grace, and the token it took is above every handle's.               *)
StageInv ==
  /\ op.pc \in {"fencing", "claim", "unindex", "index", "release"} =>
       op.agent \in Agents /\ op.res \in Resources
  /\ op.pc \in {"fencing", "claim"} => ~Live(op.res)
  /\ op.pc = "fencing" => op.token = fencing[op.res]
  /\ op.pc = "claim" =>
       /\ op.token + 1 = fencing[op.res]
       /\ claim[op.res].id < minted[op.res]
       /\ Exists(op.res) => claim[op.res].token < op.token
       /\ \A a \in Agents : /\ held[a][op.res].id < minted[op.res]
                            /\ held[a][op.res] # NoHandle => held[a][op.res].token < op.token
  /\ op.pc \in {"unindex", "index"} =>
       /\ claim[op.res].owner = op.agent
       /\ claim[op.res].id = minted[op.res]
       /\ claim[op.res].token = op.token
  /\ op.pc = "prune" => \A r \in op.todo : Exists(r) /\ PastGrace(r)
  /\ op.pc = "pruned" => \A r \in op.todo \ {op.res} : Exists(r) /\ PastGrace(r)

(* Of one resource's grants, the claim on file is the latest: every handle  *)
(* is either for it, with its token, or for an earlier one, with a smaller. *)
GrantsInOrder(r) ==
  /\ claim[r].id <= minted[r]
  /\ Exists(r) => claim[r].token < fencing[r]
  /\ Live(r) => claim[r].token + 1 = fencing[r]
  /\ \A a \in Agents :
       /\ held[a][r].id <= minted[r]
       /\ held[a][r] # NoHandle => held[a][r].token < fencing[r]
       /\ (Exists(r) /\ held[a][r] # NoHandle) =>
            IF held[a][r].id = claim[r].id
              THEN held[a][r].token = claim[r].token
              ELSE held[a][r].token < claim[r].token

GrantInv == \A r \in Resources : GrantsInOrder(r)

(* The inductive invariant: the types, the stages and the order of grants   *)
(* together carry LiveOwnerNotFenced and FormerOwnerFenced across every     *)
(* step, the crashes included.                                              *)
GrantsOrdered == TypeOK /\ StageInv /\ GrantInv

(* A claim that is live or in grace is ended only by its owner's            *)
(* release_claim: no acquire, takeover or prune of another process replaces *)
(* or deletes it, though each of them judged its age steps earlier.         *)
OnlyOwnerEndsLiveClaim ==
  [][\A r \in Resources :
       (Live(r) /\ claim'[r].id # claim[r].id) => ReleaseDelete(claim[r].owner, r)]_vars

(* No agent has more than max_claims_per_agent claims that are not past     *)
(* grace, through any interleaving of acquire, takeover, release, expiry    *)
(* and revival in grace: the limit counts what the index lists.             *)
QuotaRespected ==
  MaxClaims > 0 =>
    \A a \in Agents :
      Cardinality({r \in Resources : claim[r].owner = a /\ Live(r)}) <= MaxClaims

(* Between operations the index lists for every agent exactly the claim     *)
(* files it owns.                                                           *)
IndexExact == (Free /\ indexOk) => index = DerivedIndex

(* list_agent_claims(a) returns the claims a holds, all of them and no      *)
(* other agent's.  The code does not keep this when the index is lost: see  *)
(* README.md, What TLC refutes.                                             *)
ListingExact ==
  Free => \A a \in Agents : LiveListed(a) = {r \in Resources : claim[r].owner = a /\ Live(r)}

(* A claim no process holds any more (its owner died, perhaps between the   *)
(* claim and the index write) does not keep its resource for ever: some     *)
(* retried acquire_claim takes it over, up to the model's bound on grants.  *)
OrphanTakenOver ==
  \A r \in Resources : \A i \in 1 .. MaxToken :
    LET orphaned == claim[r].id = i /\ \A a \in Agents : held[a][r].id # i
    IN  orphaned ~> (~orphaned \/ minted[r] = MaxToken)

-----------------------------------------------------------------------------
(* The lease service this registry implements.  Its next grant's token is   *)
(* the one a grant under way has taken from the fencing file but not yet    *)
(* written to a claim file.                                                 *)
Lease == INSTANCE LeaseService WITH
  owner <- [r \in Resources |-> claim[r].owner],
  token <- [r \in Resources |-> claim[r].token],
  lapsed <- [r \in Resources |-> Exists(r) /\ PastGrace(r)],
  next <- [r \in Resources |->
             IF op.pc = "claim" /\ op.res = r THEN op.token ELSE fencing[r]]

(* Every run of the registry, with its crashes between two writes, is a run *)
(* of the lease service.                                                    *)
ImplementsLease == Lease!Spec
=============================================================================

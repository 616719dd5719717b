------------------------ MODULE ClaimRegistryProofs ------------------------
(***************************************************************************)
(* Proofs about ClaimRegistry, and about the steps of FencedExecution that *)
(* it fences, for any agents, resources, policy and bounds.  Tokens and    *)
(* owners: for every fault but the loss of the fencing file.  The index    *)
(* and the quota: while every process lives on and every write succeeds.   *)
(***************************************************************************)
EXTENDS FencedExecution, FiniteSetTheorems, TLAPS

(* The null values have the type of what they stand for. *)
LEMMA NullTypes ==
  /\ 0 \in 0 .. Horizon
  /\ NoClaim \in ClaimFile
  /\ NoHandle \in Handle
  /\ NoOp \in Operation
<1>1. 0 \in 0 .. Horizon
  BY PolicyAssumption DEF Horizon
<1>2. NoClaim \in ClaimFile
  BY <1>1 DEF NoClaim, ClaimFile
<1>3. NoHandle \in Handle
  BY DEF NoHandle, Handle
<1>4. NoOp \in Operation
  BY <1>1 DEF NoOp, Operation, Stages
<1> QED
  BY <1>1, <1>2, <1>3, <1>4

(* One tick makes an age no larger than the horizon, and no claim that is   *)
(* past grace comes back by it.                                             *)
LEMMA OlderAge ==
  ASSUME NEW age \in 0 .. Horizon
  PROVE  /\ Older(age) \in 0 .. Horizon
         /\ age > Expiry + Grace => Older(age) > Expiry + Grace
<1>1. Expiry + Grace \in Nat /\ Horizon \in Nat /\ age \in Nat /\ age <= Horizon
  BY PolicyAssumption DEF Horizon
<1>2. CASE age < Horizon
  <2>1. Older(age) = age + 1
    BY <1>2 DEF Older
  <2> QED
    BY <1>1, <1>2, <2>1, PolicyAssumption
<1>3. CASE ~(age < Horizon)
  BY <1>3 DEF Older
<1> QED
  BY <1>2, <1>3

(* The types hold at first. *)
LEMMA InitTypes == Init => TypeOK
<1> SUFFICES ASSUME Init PROVE TypeOK
  OBVIOUS
<1>1. claim \in [Resources -> ClaimFile] /\ held \in [Agents -> [Resources -> Handle]]
  BY NullTypes DEF Init
<1>2. fencing \in [Resources -> Nat] /\ minted \in [Resources -> Nat]
  BY DEF Init
<1>3. index \in [Agents -> SUBSET Resources] /\ indexOk \in BOOLEAN /\ op \in Operation
  BY NullTypes DEF Init
<1> QED
  BY <1>1, <1>2, <1>3 DEF TypeOK

(* An operation past its first write of a grant, or half-way through a      *)
(* release, is an agent's, on a resource.                                   *)
HolderKnown ==
  op.pc \in {"fencing", "claim", "unindex", "index", "release"} =>
    op.agent \in Agents /\ op.res \in Resources

(* Every step keeps the types, given whose operation is under way.          *)
LEMMA NextTypes ==
  ASSUME TypeOK, HolderKnown, [Next]_vars
  PROVE  TypeOK'
<1> USE NullTypes
<1>1. ASSUME NEW a \in Agents, NEW r \in Resources, Begin(a, r) PROVE TypeOK'
  <2>1. index' \in [Agents -> SUBSET Resources]
    BY <1>1 DEF Begin, EnsuredIndex, DerivedIndex, TypeOK
  <2>2. op' \in Operation
    <3>1. fencing[r] \in Nat /\ claim[r].owner \in Agents \cup {Nobody}
      BY DEF TypeOK, ClaimFile
    <3>2. [NoOp EXCEPT !.pc = "fencing", !.agent = a, !.res = r, !.token = fencing[r],
                       !.prev = claim[r].owner] \in Operation
      BY <3>1 DEF Operation, Stages
    <3> QED
      BY <1>1, <3>2 DEF Begin, Grab, TypeOK
  <2> QED
    BY <1>1, <2>1, <2>2 DEF Begin, Grab, TypeOK
<1>2. ASSUME NEW a \in Agents, NEW r \in Resources, Heartbeat(a, r) PROVE TypeOK'
  <2>1. [claim[r] EXCEPT !.idle = 0] \in ClaimFile
    BY DEF TypeOK, ClaimFile
  <2> QED
    BY <1>2, <2>1 DEF Heartbeat, TypeOK
<1>3. ASSUME NEW a \in Agents, NEW r \in Resources, ReleaseDelete(a, r) PROVE TypeOK'
  <2>1. [NoOp EXCEPT !.pc = "release", !.agent = a, !.res = r] \in Operation
    BY DEF Operation, Stages
  <2> QED
    BY <1>3, <2>1 DEF ReleaseDelete, TypeOK
<1>4. CASE PruneBegin
  <2>1. [NoOp EXCEPT !.pc = "prune", !.todo = {r \in Resources : Exists(r) /\ PastGrace(r)}]
          \in Operation
    BY DEF Operation, Stages
  <2> QED
    BY <1>4, <2>1 DEF PruneBegin, TypeOK
<1>5. CASE ListClaims
  BY <1>5 DEF ListClaims, EnsuredIndex, DerivedIndex, TypeOK
<1>6. CASE Reconcile
  <2>1. ASSUME NEW r \in Resources PROVE Reconciled(r) \in Nat
    BY DEF Reconciled, TypeOK, ClaimFile
  <2> QED
    BY <1>6, <2>1 DEF Reconcile, TypeOK
<1>7. CASE WriteFencing
  <2>1. op.token + 1 \in Nat /\ minted[op.res] + 1 \in Nat
    <3>1. op.res \in Resources
      BY <1>7 DEF WriteFencing, HolderKnown
    <3>2. op.token \in Nat
      BY DEF TypeOK, Operation
    <3> QED
      BY <3>1, <3>2 DEF TypeOK
  <2>2. fencing' \in [Resources -> Nat] /\ minted' \in [Resources -> Nat]
    BY <1>7, <2>1 DEF WriteFencing, TypeOK
  <2>3. [op EXCEPT !.pc = "claim"] \in Operation
    BY DEF TypeOK, Operation, Stages
  <2> QED
    BY <1>7, <2>2, <2>3 DEF WriteFencing, TypeOK
<1>8. CASE WriteClaim
  <2>1. op.res \in Resources /\ op.agent \in Agents
    BY <1>8 DEF WriteClaim, HolderKnown
  <2> DEFINE age == IF op.prev = Nobody THEN 0 ELSE op.age
             pc == IF op.prev = Nobody THEN "index" ELSE "unindex"
  <2>2. age \in 0 .. Horizon /\ pc \in Stages
    <3>1. op.age \in 0 .. Horizon
      BY DEF TypeOK, Operation
    <3>2. "index" \in Stages /\ "unindex" \in Stages
      BY DEF Stages
    <3> QED
      BY <3>1, <3>2
  <2> HIDE DEF age, pc
  <2>3. [id |-> minted[op.res], owner |-> op.agent, token |-> op.token, idle |-> age] \in ClaimFile
    BY <2>1, <2>2 DEF TypeOK, Operation, ClaimFile
  <2>4. [op EXCEPT !.pc = pc, !.age = 0] \in Operation
    <3>1. [op EXCEPT !.pc = pc] \in Operation
      BY <2>2 DEF TypeOK, Operation
    <3>2. ASSUME NEW o \in Operation PROVE [o EXCEPT !.age = 0] \in Operation
      BY DEF Operation
    <3> QED
      BY <3>1, <3>2
  <2> QED
    BY <1>8, <2>3, <2>4 DEF WriteClaim, TypeOK, age, pc
<1>9. CASE UnindexPrevious
  <2>1. [op EXCEPT !.pc = "index"] \in Operation
    BY DEF TypeOK, Operation, Stages
  <2> QED
    BY <1>9, <2>1 DEF UnindexPrevious, RemoveFromIndex, TypeOK
<1>10. CASE IndexAndReturn
  <2>1. op.res \in Resources /\ op.agent \in Agents
    BY <1>10 DEF IndexAndReturn, HolderKnown
  <2>2. index' \in [Agents -> SUBSET Resources]
    BY <1>10, <2>1 DEF IndexAndReturn, AddToIndex, TypeOK
  <2>3. [id |-> minted[op.res], token |-> op.token] \in Handle
    BY <2>1 DEF TypeOK, Operation, Handle
  <2>4. held' \in [Agents -> [Resources -> Handle]]
    BY <1>10, <2>1, <2>3 DEF IndexAndReturn, TypeOK
  <2> QED
    BY <1>10, <2>2, <2>4 DEF IndexAndReturn, AddToIndex, TypeOK
<1>11. CASE ReleaseUnindex
  <2>1. held' \in [Agents -> [Resources -> Handle]]
    BY <1>11 DEF ReleaseUnindex, TypeOK
  <2> QED
    BY <1>11, <2>1 DEF ReleaseUnindex, RemoveFromIndex, TypeOK
<1>12. CASE PruneUnindex
  <2>1. [NoOp EXCEPT !.pc = "prune", !.todo = op.todo \ {op.res}] \in Operation
    BY DEF TypeOK, Operation, Stages
  <2> QED
    BY <1>12, <2>1 DEF PruneUnindex, RemoveFromIndex, TypeOK
<1>13. ASSUME NEW r \in Resources, PruneDelete(r) PROVE TypeOK'
  <2>1. claim[r].owner \in Agents \cup {Nobody}
    BY DEF TypeOK, ClaimFile
  <2>2. [op EXCEPT !.pc = "pruned", !.res = r, !.prev = claim[r].owner] \in Operation
    BY <2>1 DEF TypeOK, Operation, Stages
  <2> QED
    BY <1>13, <2>2 DEF PruneDelete, TypeOK
<1>14. CASE Tick
  <2>1. ASSUME NEW r \in Resources PROVE [claim[r] EXCEPT !.idle = Older(@)] \in ClaimFile
    BY OlderAge DEF TypeOK, ClaimFile
  <2>2. [op EXCEPT !.age = Older(@)] \in Operation
    BY OlderAge DEF TypeOK, Operation
  <2> QED
    BY <1>14, <2>1, <2>2 DEF Tick, TypeOK
<1>15. CASE IndexLost
  BY <1>15 DEF IndexLost, TypeOK
<1>16. CASE FencingLost
  BY <1>16 DEF FencingLost, TypeOK
<1>17. CASE OpFails
  BY <1>17 DEF OpFails, TypeOK
<1>18. ASSUME NEW a \in Agents, Crash(a) PROVE TypeOK'
  BY <1>18 DEF Crash, TypeOK
<1>19. CASE UNCHANGED vars
  BY <1>19 DEF vars, TypeOK
<1> QED
  BY <1>1, <1>2, <1>3, <1>4, <1>5, <1>6, <1>7, <1>8, <1>9, <1>10, <1>11, <1>12, <1>13,
     <1>14, <1>15, <1>16, <1>17, <1>18, <1>19 DEF Next, Call, Stage, Fault

-----------------------------------------------------------------------------
(* The numbers the grant order is about are numbers. *)
LEMMA Numbers ==
  ASSUME TypeOK, NEW r \in Resources
  PROVE  /\ claim[r].id \in Nat /\ claim[r].token \in Nat /\ claim[r].idle \in 0 .. Horizon
         /\ fencing[r] \in Nat /\ minted[r] \in Nat /\ op.token \in Nat
         /\ \A a \in Agents : held[a][r].id \in Nat /\ held[a][r].token \in Nat
  BY DEF TypeOK, ClaimFile, Handle, Operation

(* The initial state has no grants. *)
LEMMA InitGrants == Init => StageInv /\ GrantInv
<1> SUFFICES ASSUME Init PROVE StageInv /\ GrantInv
  OBVIOUS
<1>1. op.pc = "idle"
  BY DEF Init, NoOp
<1>2. StageInv
  BY <1>1 DEF StageInv
<1>3. ASSUME NEW r \in Resources PROVE GrantsInOrder(r)
  BY DEF Init, GrantsInOrder, Exists, Live, NoClaim, NoHandle
<1> QED
  BY <1>2, <1>3 DEF GrantInv

(* A step that leaves the claim and fencing files, the ids and the handles  *)
(* alone leaves the order of grants alone.                                  *)
LEMMA SameGrants ==
  ASSUME GrantInv, UNCHANGED <<claim, fencing, minted, held>>
  PROVE  GrantInv'
  BY DEF GrantInv, GrantsInOrder, Exists, Live, PastGrace

(* The lock holder's next write keeps the order of grants. *)
LEMMA StageGrants ==
  ASSUME TypeOK, StageInv, GrantInv, Stage
  PROVE  GrantInv'
<1>1. CASE WriteFencing
  <2> SUFFICES ASSUME NEW r \in Resources PROVE GrantsInOrder(r)'
    BY DEF GrantInv
  <2>1. CASE r = op.res
    <3>1. fencing'[r] = op.token + 1 /\ minted'[r] = minted[r] + 1 /\ op.token = fencing[r]
      BY <1>1, <2>1 DEF WriteFencing, StageInv, TypeOK
    <3>2. claim' = claim /\ held' = held /\ ~Live(r)
      BY <1>1, <2>1 DEF WriteFencing, StageInv
    <3> QED
      BY <3>1, <3>2, Numbers DEF GrantInv, GrantsInOrder, Exists, Live, PastGrace
  <2>2. CASE r # op.res
    <3>1. fencing'[r] = fencing[r] /\ minted'[r] = minted[r] /\ claim' = claim /\ held' = held
      BY <1>1, <2>2 DEF WriteFencing, TypeOK
    <3> QED
      BY <3>1 DEF GrantInv, GrantsInOrder, Exists, Live, PastGrace
  <2> QED
    BY <2>1, <2>2
<1>2. CASE WriteClaim
  <2> SUFFICES ASSUME NEW r \in Resources PROVE GrantsInOrder(r)'
    BY DEF GrantInv
  <2>1. fencing' = fencing /\ minted' = minted /\ held' = held
    BY <1>2 DEF WriteClaim
  <2>2. CASE r = op.res
    <3>1. claim'[r].id = minted[r] /\ claim'[r].token = op.token /\ claim'[r].owner = op.agent
      BY <1>2, <2>2 DEF WriteClaim, TypeOK
    <3>2. op.token + 1 = fencing[r]
      BY <1>2, <2>2 DEF WriteClaim, StageInv
    <3>3. ASSUME NEW a \in Agents
          PROVE  /\ held[a][r].id < minted[r]
                 /\ held[a][r] # NoHandle => held[a][r].token < op.token
      BY <1>2, <2>2 DEF WriteClaim, StageInv
    <3> QED
      BY <2>1, <3>1, <3>2, <3>3, Numbers DEF GrantInv, GrantsInOrder, Exists, Live, PastGrace
  <2>3. CASE r # op.res
    <3>1. claim'[r] = claim[r]
      BY <1>2, <2>3 DEF WriteClaim, TypeOK
    <3> QED
      BY <2>1, <3>1 DEF GrantInv, GrantsInOrder, Exists, Live, PastGrace
  <2> QED
    BY <2>2, <2>3
<1>3. CASE UnindexPrevious
  BY <1>3, SameGrants DEF UnindexPrevious
<1>4. CASE IndexAndReturn
  <2> SUFFICES ASSUME NEW r \in Resources PROVE GrantsInOrder(r)'
    BY DEF GrantInv
  <2>1. claim' = claim /\ fencing' = fencing /\ minted' = minted
    BY <1>4 DEF IndexAndReturn
  <2>2. ASSUME NEW a \in Agents
        PROVE  \/ held'[a][r] = held[a][r]
               \/ /\ r = op.res
                  /\ held'[a][r].id = minted[r] /\ held'[a][r].token = op.token
    BY <1>4 DEF IndexAndReturn, TypeOK
  <2>3. r = op.res => /\ claim[r].id = minted[r] /\ claim[r].token = op.token
                      /\ claim[r].owner = op.agent /\ op.agent \in Agents
    BY <1>4 DEF IndexAndReturn, StageInv
  <2>4. r = op.res => Exists(r)
    BY <2>3, NullAssumption DEF Exists
  <2> QED
    BY <2>1, <2>2, <2>3, <2>4, Numbers DEF GrantInv, GrantsInOrder, Exists, Live, PastGrace
<1>5. CASE ReleaseUnindex
  <2> SUFFICES ASSUME NEW r \in Resources PROVE GrantsInOrder(r)'
    BY DEF GrantInv
  <2>1. claim' = claim /\ fencing' = fencing /\ minted' = minted
    BY <1>5 DEF ReleaseUnindex
  <2>2. ASSUME NEW a \in Agents PROVE held'[a][r] = held[a][r] \/ held'[a][r] = NoHandle
    BY <1>5 DEF ReleaseUnindex, TypeOK
  <2>3. NoHandle.id = 0
    BY DEF NoHandle
  <2> QED
    BY <2>1, <2>2, <2>3, Numbers DEF GrantInv, GrantsInOrder, Exists, Live, PastGrace
<1>6. CASE PruneUnindex
  BY <1>6, SameGrants DEF PruneUnindex
<1>7. ASSUME NEW s \in Resources, PruneDelete(s) PROVE GrantInv'
  <2> SUFFICES ASSUME NEW r \in Resources PROVE GrantsInOrder(r)'
    BY DEF GrantInv
  <2>1. fencing' = fencing /\ minted' = minted /\ held' = held
    BY <1>7 DEF PruneDelete
  <2>2. claim'[r] = claim[r] \/ claim'[r] = NoClaim
    BY <1>7 DEF PruneDelete, TypeOK
  <2>3. NoClaim.id = 0 /\ NoClaim.owner = Nobody
    BY DEF NoClaim
  <2> QED
    BY <2>1, <2>2, <2>3, Numbers DEF GrantInv, GrantsInOrder, Exists, Live, PastGrace
<1> QED
  BY <1>1, <1>2, <1>3, <1>4, <1>5, <1>6, <1>7 DEF Stage

(* A call, the passing of time and every fault but the loss of the fencing  *)
(* file keep the order of grants.                                           *)
LEMMA OtherGrants ==
  ASSUME TypeOK, GrantInv, "fencing_loss" \notin Faults, Call \/ Tick \/ Fault
  PROVE  GrantInv'
<1>1. ASSUME NEW a \in Agents, NEW r \in Resources, Begin(a, r) PROVE GrantInv'
  BY <1>1, SameGrants DEF Begin
<1>2. ASSUME NEW a \in Agents, NEW s \in Resources, Heartbeat(a, s) PROVE GrantInv'
  <2> SUFFICES ASSUME NEW r \in Resources PROVE GrantsInOrder(r)'
    BY DEF GrantInv
  <2>1. fencing' = fencing /\ minted' = minted /\ held' = held
    BY <1>2 DEF Heartbeat
  <2>2. /\ claim'[r].id = claim[r].id /\ claim'[r].token = claim[r].token
        /\ claim'[r].owner = claim[r].owner
        /\ Live(r)' => Live(r)
    <3>1. CASE r = s
      <4>1. claim'[r] = [claim[r] EXCEPT !.idle = 0]
        BY <1>2, <3>1 DEF Heartbeat, TypeOK
      <4>2. ~PastGrace(r)
        BY <1>2, <3>1 DEF Heartbeat
      <4> QED
        BY <4>1, <4>2 DEF Live, Exists, TypeOK, ClaimFile
    <3>2. CASE r # s
      <4>1. claim'[r] = claim[r]
        BY <1>2, <3>2 DEF Heartbeat, TypeOK
      <4> QED
        BY <4>1 DEF Live, Exists, PastGrace
    <3> QED
      BY <3>1, <3>2
  <2> QED
    BY <2>1, <2>2 DEF GrantInv, GrantsInOrder, Exists
<1>3. ASSUME NEW a \in Agents, NEW s \in Resources, ReleaseDelete(a, s) PROVE GrantInv'
  <2> SUFFICES ASSUME NEW r \in Resources PROVE GrantsInOrder(r)'
    BY DEF GrantInv
  <2>1. fencing' = fencing /\ minted' = minted /\ held' = held
    BY <1>3 DEF ReleaseDelete
  <2>2. claim'[r] = claim[r] \/ claim'[r] = NoClaim
    BY <1>3 DEF ReleaseDelete, TypeOK
  <2>3. NoClaim.id = 0 /\ NoClaim.owner = Nobody
    BY DEF NoClaim
  <2> QED
    BY <2>1, <2>2, <2>3, Numbers DEF GrantInv, GrantsInOrder, Exists, Live, PastGrace
<1>4. CASE PruneBegin
  BY <1>4, SameGrants DEF PruneBegin
<1>5. CASE ListClaims
  BY <1>5, SameGrants DEF ListClaims
<1>6. CASE Reconcile
  <2>1. ASSUME NEW r \in Resources PROVE Reconciled(r) = fencing[r]
    BY Numbers DEF GrantInv, GrantsInOrder, Reconciled
  <2>2. fencing' = fencing
    BY <1>6, <2>1 DEF Reconcile, TypeOK
  <2> QED
    BY <1>6, <2>2, SameGrants DEF Reconcile
<1>7. CASE Tick
  <2> SUFFICES ASSUME NEW r \in Resources PROVE GrantsInOrder(r)'
    BY DEF GrantInv
  <2>1. fencing' = fencing /\ minted' = minted /\ held' = held
    BY <1>7 DEF Tick
  <2>2. /\ claim'[r].id = claim[r].id /\ claim'[r].token = claim[r].token
        /\ claim'[r].owner = claim[r].owner
        /\ Live(r)' => Live(r)
    <3>1. CASE Exists(r)
      <4>1. claim'[r] = [claim[r] EXCEPT !.idle = Older(@)]
        BY <1>7, <3>1 DEF Tick, TypeOK
      <4>2. /\ claim'[r].id = claim[r].id /\ claim'[r].token = claim[r].token
            /\ claim'[r].owner = claim[r].owner /\ claim'[r].idle = Older(claim[r].idle)
        BY <4>1 DEF TypeOK, ClaimFile
      <4>3. PastGrace(r) => PastGrace(r)'
        BY <4>2, OlderAge, Numbers DEF PastGrace
      <4> QED
        BY <4>2, <4>3 DEF Live, Exists
    <3>2. CASE ~Exists(r)
      <4>1. claim'[r] = claim[r]
        BY <1>7, <3>2 DEF Tick, TypeOK
      <4> QED
        BY <4>1 DEF Live, Exists, PastGrace
    <3> QED
      BY <3>1, <3>2
  <2> QED
    BY <2>1, <2>2 DEF GrantInv, GrantsInOrder, Exists
<1>8. CASE IndexLost
  BY <1>8, SameGrants DEF IndexLost
<1>9. CASE OpFails
  BY <1>9, SameGrants DEF OpFails
<1>10. ASSUME NEW b \in Agents, Crash(b) PROVE GrantInv'
  <2> SUFFICES ASSUME NEW r \in Resources PROVE GrantsInOrder(r)'
    BY DEF GrantInv
  <2>1. claim' = claim /\ fencing' = fencing /\ minted' = minted
    BY <1>10 DEF Crash
  <2>2. ASSUME NEW a \in Agents PROVE held'[a][r] = held[a][r] \/ held'[a][r] = NoHandle
    BY <1>10 DEF Crash, TypeOK
  <2>3. NoHandle.id = 0
    BY DEF NoHandle
  <2> QED
    BY <2>1, <2>2, <2>3, Numbers DEF GrantInv, GrantsInOrder, Exists, Live, PastGrace
<1> QED
  BY <1>1, <1>2, <1>3, <1>4, <1>5, <1>6, <1>7, <1>8, <1>9, <1>10 DEF Call, Fault, FencingLost

-----------------------------------------------------------------------------
(* With the lock free there is nothing to know of the lock holder. *)
LEMMA FreeStage == op'.pc = "idle" => StageInv'
  BY DEF StageInv

(* A call that takes the lock establishes what its first stage relies on. *)
LEMMA CallStage ==
  ASSUME TypeOK, StageInv, GrantInv, Call
  PROVE  StageInv'
<1>1. ASSUME NEW a \in Agents, NEW r \in Resources, Begin(a, r) PROVE StageInv'
  <2>1. CASE op' = op
    <3>1. op'.pc = "idle"
      BY <1>1, <2>1 DEF Begin, Free
    <3> QED
      BY <3>1, FreeStage
  <2>2. CASE op' # op
    <3>1. /\ op'.pc = "fencing" /\ op'.agent = a /\ op'.res = r /\ op'.token = fencing[r]
          /\ claim' = claim /\ fencing' = fencing /\ ~Live(r)
      BY <1>1, <2>2 DEF Begin, Grab, NoOp, Live
    <3> QED
      BY <3>1 DEF StageInv, Live, Exists, PastGrace
  <2> QED
    BY <2>1, <2>2
<1>2. ASSUME NEW a \in Agents, NEW r \in Resources, Heartbeat(a, r) PROVE StageInv'
  BY <1>2, FreeStage DEF Heartbeat, Free
<1>3. ASSUME NEW a \in Agents, NEW r \in Resources, ReleaseDelete(a, r) PROVE StageInv'
  <2>1. op'.pc = "release" /\ op'.agent = a /\ op'.res = r
    BY <1>3 DEF ReleaseDelete, NoOp
  <2> QED
    BY <2>1 DEF StageInv
<1>4. CASE PruneBegin
  <2>1. /\ op'.pc = "prune" /\ claim' = claim
        /\ op'.todo = {r \in Resources : Exists(r) /\ PastGrace(r)}
    BY <1>4 DEF PruneBegin, NoOp
  <2> QED
    BY <2>1 DEF StageInv, Live, Exists, PastGrace
<1>5. CASE ListClaims
  BY <1>5, FreeStage DEF ListClaims, Free
<1>6. CASE Reconcile
  BY <1>6, FreeStage DEF Reconcile, Free
<1> QED
  BY <1>1, <1>2, <1>3, <1>4, <1>5, <1>6 DEF Call

(* Each write hands the next stage what it relies on. *)
LEMMA NextStage ==
  ASSUME TypeOK, StageInv, GrantInv, Stage
  PROVE  StageInv'
<1>1. CASE WriteFencing
  <2> DEFINE r == op.res
  <2>1. op.agent \in Agents /\ r \in Resources /\ ~Live(r) /\ op.token = fencing[r]
    BY <1>1 DEF WriteFencing, StageInv
  <2>2. /\ op'.pc = "claim" /\ op'.agent = op.agent /\ op'.res = r /\ op'.token = op.token
        /\ fencing'[r] = op.token + 1 /\ minted'[r] = minted[r] + 1
        /\ claim' = claim /\ held' = held
    BY <1>1, <2>1 DEF WriteFencing, TypeOK, Operation
  <2> HIDE DEF r
  <2>3. GrantsInOrder(r)
    BY <2>1 DEF GrantInv
  <2>4. /\ claim[r].id < minted'[r]
        /\ Exists(r) => claim[r].token < op.token
        /\ \A a \in Agents : /\ held[a][r].id < minted'[r]
                             /\ held[a][r] # NoHandle => held[a][r].token < op.token
    BY <2>1, <2>2, <2>3, Numbers DEF GrantsInOrder
  <2>5. fencing'[r] = op'.token + 1
    BY <2>2
  <2> QED
    BY <2>1, <2>2, <2>4, <2>5 DEF StageInv, Live, Exists, PastGrace
<1>2. CASE WriteClaim
  <2> DEFINE r == op.res
  <2>1. op.agent \in Agents /\ r \in Resources
    BY <1>2 DEF WriteClaim, StageInv
  <2>2. op'.pc \in {"index", "unindex"} /\ op'.agent = op.agent /\ op'.res = r /\ op'.token = op.token
    BY <1>2 DEF WriteClaim, TypeOK, Operation
  <2>3. claim'[r].id = minted[r] /\ claim'[r].token = op.token /\ claim'[r].owner = op.agent
    BY <1>2, <2>1 DEF WriteClaim, TypeOK
  <2>4. minted' = minted
    BY <1>2 DEF WriteClaim
  <2> HIDE DEF r
  <2> QED
    BY <2>1, <2>2, <2>3, <2>4 DEF StageInv
<1>3. CASE UnindexPrevious
  <2>1. /\ op'.pc = "index" /\ op'.agent = op.agent /\ op'.res = op.res /\ op'.token = op.token
        /\ claim' = claim /\ minted' = minted /\ op.pc = "unindex"
    BY <1>3 DEF UnindexPrevious, TypeOK, Operation
  <2> QED
    BY <2>1 DEF StageInv
<1>4. CASE IndexAndReturn
  BY <1>4, FreeStage DEF IndexAndReturn, NoOp
<1>5. CASE ReleaseUnindex
  BY <1>5, FreeStage DEF ReleaseUnindex, NoOp
<1>6. CASE PruneUnindex
  <2>1. CASE op' = NoOp
    BY <2>1, FreeStage DEF NoOp
  <2>2. CASE op' # NoOp
    <3>1. op'.pc = "prune" /\ op'.todo = op.todo \ {op.res} /\ claim' = claim /\ op.pc = "pruned"
      BY <1>6, <2>2 DEF PruneUnindex, NoOp
    <3> QED
      BY <3>1 DEF StageInv, Live, Exists, PastGrace
  <2> QED
    BY <2>1, <2>2
<1>7. ASSUME NEW s \in Resources, PruneDelete(s) PROVE StageInv'
  <2>1. op'.pc = "pruned" /\ op'.todo = op.todo /\ op'.res = s
    BY <1>7 DEF PruneDelete, TypeOK, Operation
  <2>2. ASSUME NEW r \in op.todo \ {s} PROVE (Exists(r) /\ PastGrace(r))'
    <3>1. r \in Resources
      BY DEF TypeOK, Operation
    <3>2. claim'[r] = claim[r]
      BY <1>7, <3>1 DEF PruneDelete, TypeOK
    <3> QED
      BY <1>7, <3>2 DEF PruneDelete, StageInv, Live, Exists, PastGrace
  <2> QED
    BY <2>1, <2>2 DEF StageInv
<1> QED
  BY <1>1, <1>2, <1>3, <1>4, <1>5, <1>6, <1>7 DEF Stage

(* Neither time nor a fault undoes what the lock holder relies on: ages only *)
(* grow while it holds the lock, and handles are only lost.                  *)
LEMMA OtherStage ==
  ASSUME TypeOK, StageInv, "fencing_loss" \notin Faults, Tick \/ Fault
  PROVE  StageInv'
<1>1. CASE Tick
  <2>1. fencing' = fencing /\ minted' = minted /\ held' = held
    BY <1>1 DEF Tick
  <2>2. /\ op'.pc = op.pc /\ op'.agent = op.agent /\ op'.res = op.res /\ op'.token = op.token
        /\ op'.todo = op.todo
    BY <1>1 DEF Tick, TypeOK, Operation
  <2>3. ASSUME NEW r \in Resources
        PROVE  /\ claim'[r].id = claim[r].id /\ claim'[r].token = claim[r].token
               /\ claim'[r].owner = claim[r].owner
               /\ Live(r)' => Live(r)
               /\ Exists(r) /\ PastGrace(r) => (Exists(r) /\ PastGrace(r))'
    <3>1. CASE Exists(r)
      <4>1. claim'[r] = [claim[r] EXCEPT !.idle = Older(@)]
        BY <1>1, <3>1 DEF Tick, TypeOK
      <4>2. /\ claim'[r].id = claim[r].id /\ claim'[r].token = claim[r].token
            /\ claim'[r].owner = claim[r].owner /\ claim'[r].idle = Older(claim[r].idle)
        BY <4>1 DEF TypeOK, ClaimFile
      <4>3. PastGrace(r) => PastGrace(r)'
        BY <4>2, OlderAge, Numbers DEF PastGrace
      <4> QED
        BY <4>2, <4>3 DEF Live, Exists
    <3>2. CASE ~Exists(r)
      <4>1. claim'[r] = claim[r]
        BY <1>1, <3>2 DEF Tick, TypeOK
      <4> QED
        BY <4>1 DEF Live, Exists, PastGrace
    <3> QED
      BY <3>1, <3>2
  <2>4. op.todo \subseteq Resources
    BY DEF TypeOK, Operation
  <2> QED
    BY <2>1, <2>2, <2>3, <2>4 DEF StageInv, Exists
<1>2. CASE IndexLost
  BY <1>2 DEF IndexLost, StageInv, Live, Exists, PastGrace
<1>3. CASE OpFails
  BY <1>3, FreeStage DEF OpFails, NoOp
<1>4. ASSUME NEW b \in Agents, Crash(b) PROVE StageInv'
  <2>1. CASE op' = NoOp
    BY <2>1, FreeStage DEF NoOp
  <2>2. CASE op' = op
    <3>1. claim' = claim /\ fencing' = fencing /\ minted' = minted
      BY <1>4 DEF Crash
    <3>2. ASSUME NEW a \in Agents, NEW r \in Resources
          PROVE  held'[a][r] = held[a][r] \/ held'[a][r] = NoHandle
      BY <1>4 DEF Crash, TypeOK
    <3>3. NoHandle.id = 0
      BY DEF NoHandle
    <3>4. op.pc = "claim" =>
            /\ op.token + 1 = fencing[op.res]
            /\ claim[op.res].id < minted[op.res]
            /\ Exists(op.res) => claim[op.res].token < op.token
            /\ \A a \in Agents : /\ held'[a][op.res].id < minted[op.res]
                                 /\ held'[a][op.res] # NoHandle => held'[a][op.res].token < op.token
      <4> SUFFICES ASSUME op.pc = "claim" PROVE
            /\ op.token + 1 = fencing[op.res]
            /\ claim[op.res].id < minted[op.res]
            /\ Exists(op.res) => claim[op.res].token < op.token
            /\ \A a \in Agents : /\ held'[a][op.res].id < minted[op.res]
                                 /\ held'[a][op.res] # NoHandle => held'[a][op.res].token < op.token
        OBVIOUS
      <4>1. op.res \in Resources
        BY DEF StageInv
      <4>2. claim[op.res].id \in Nat /\ minted[op.res] \in Nat
        BY <4>1, Numbers
      <4>3. 0 < minted[op.res]
        BY <4>2 DEF StageInv
      <4> QED
        BY <3>2, <3>3, <4>1, <4>3 DEF StageInv
    <3> QED
      BY <2>2, <3>1, <3>4 DEF StageInv, Live, Exists, PastGrace
  <2> QED
    BY <1>4, <2>1, <2>2 DEF Crash
<1> QED
  BY <1>1, <1>2, <1>3, <1>4 DEF Fault, FencingLost

-----------------------------------------------------------------------------
(* The types, the stages and the order of grants are one inductive          *)
(* invariant.                                                               *)
LEMMA GrantsInductive ==
  ASSUME "fencing_loss" \notin Faults, GrantsOrdered, [Next]_vars
  PROVE  GrantsOrdered'
<1>1. TypeOK'
  BY NextTypes DEF GrantsOrdered, StageInv, HolderKnown
<1>2. CASE Call
  BY <1>1, <1>2, CallStage, OtherGrants DEF GrantsOrdered
<1>3. CASE Stage
  BY <1>1, <1>3, NextStage, StageGrants DEF GrantsOrdered
<1>4. CASE Tick \/ Fault
  BY <1>1, <1>4, OtherStage, OtherGrants DEF GrantsOrdered
<1>5. CASE UNCHANGED vars
  <2>1. GrantInv'
    BY <1>5, SameGrants DEF vars, GrantsOrdered
  <2>2. StageInv'
    BY <1>5 DEF vars, GrantsOrdered, StageInv, Live, Exists, PastGrace
  <2> QED
    BY <1>1, <2>1, <2>2 DEF GrantsOrdered
<1> QED
  BY <1>2, <1>3, <1>4, <1>5 DEF Next

(* The registry keeps its types and the order of its grants, whatever its   *)
(* callers do and wherever their processes die, as long as the fencing file *)
(* is not lost.                                                             *)
THEOREM GrantsStayOrdered ==
  ASSUME "fencing_loss" \notin Faults
  PROVE  Spec => []GrantsOrdered
<1>1. Init => GrantsOrdered
  BY InitTypes, InitGrants DEF GrantsOrdered
<1>2. GrantsOrdered /\ [Next]_vars => GrantsOrdered'
  BY GrantsInductive
<1> QED
  BY <1>1, <1>2, PTL DEF Spec

(* Every file, handle and operation record keeps its type. *)
THEOREM TypeCorrect ==
  ASSUME "fencing_loss" \notin Faults
  PROVE  Spec => []TypeOK
<1>1. GrantsOrdered => TypeOK
  BY DEF GrantsOrdered
<1> QED
  BY <1>1, GrantsStayOrdered, PTL

(* validate_fencing_token never refuses the owner of a claim that is live   *)
(* or in grace.                                                             *)
THEOREM LiveOwnersPass ==
  ASSUME "fencing_loss" \notin Faults
  PROVE  Spec => []LiveOwnerNotFenced
<1>1. GrantsOrdered => LiveOwnerNotFenced
  BY DEF GrantsOrdered, GrantInv, GrantsInOrder, LiveOwnerNotFenced
<1> QED
  BY <1>1, GrantsStayOrdered, PTL

(* validate_fencing_token always refuses a former owner while somebody      *)
(* else's claim is on file.                                                 *)
THEOREM FormerOwnersFail ==
  ASSUME "fencing_loss" \notin Faults
  PROVE  Spec => []FormerOwnerFenced
<1>1. GrantsOrdered => FormerOwnerFenced
  BY Numbers DEF GrantsOrdered, GrantInv, GrantsInOrder, FormerOwnerFenced
<1> QED
  BY <1>1, GrantsStayOrdered, PTL

-----------------------------------------------------------------------------
(* A step that ends a claim which is live or in grace is its owner's        *)
(* release_claim: of the steps that write claim files, a heartbeat and a    *)
(* tick keep the claim_id, and a takeover or a prune meets a claim that is  *)
(* past grace still.                                                        *)
LEMMA LiveClaimStep ==
  ASSUME GrantsOrdered, [Next]_vars, NEW r \in Resources, Live(r), claim'[r].id # claim[r].id
  PROVE  ReleaseDelete(claim[r].owner, r)
<1> USE DEF GrantsOrdered
<1>1. claim' # claim
  OBVIOUS
<1>2. ASSUME NEW a \in Agents, NEW s \in Resources, Heartbeat(a, s) PROVE FALSE
  <2>1. claim' = [claim EXCEPT ![s].idle = 0]
    BY <1>2 DEF Heartbeat
  <2> QED
    BY <2>1 DEF TypeOK, ClaimFile
<1>3. ASSUME NEW a \in Agents, NEW s \in Resources, ReleaseDelete(a, s)
      PROVE  ReleaseDelete(claim[r].owner, r)
  <2>1. r = s
    BY <1>3 DEF ReleaseDelete, TypeOK
  <2>2. claim[r].owner = a
    BY <1>3, <2>1 DEF ReleaseDelete, Owns
  <2> QED
    BY <1>3, <2>1, <2>2
<1>4. CASE WriteClaim
  <2>1. r = op.res
    BY <1>4 DEF WriteClaim, TypeOK
  <2> QED
    BY <1>4, <2>1 DEF WriteClaim, StageInv
<1>5. ASSUME NEW s \in Resources, PruneDelete(s) PROVE FALSE
  <2>1. r = s
    BY <1>5 DEF PruneDelete, TypeOK
  <2> QED
    BY <1>5, <2>1 DEF PruneDelete, StageInv, Live
<1>6. CASE Tick
  <2>1. claim'[r] = [claim[r] EXCEPT !.idle = Older(@)]
    BY <1>6 DEF Tick, TypeOK, Live
  <2> QED
    BY <2>1 DEF TypeOK, ClaimFile
<1> QED
  BY <1>1, <1>2, <1>3, <1>4, <1>5, <1>6
     DEF Next, Call, Stage, Fault, vars, Begin, PruneBegin, ListClaims, Reconcile, WriteFencing,
         UnindexPrevious, IndexAndReturn, ReleaseUnindex, PruneUnindex, IndexLost, FencingLost,
         OpFails, Crash

(* A claim that is live or in grace is ended by nobody but its owner.       *)
THEOREM LiveClaimsAreSafe ==
  ASSUME "fencing_loss" \notin Faults
  PROVE  Spec => OnlyOwnerEndsLiveClaim
<1>1. GrantsOrdered /\ [Next]_vars =>
        [\A r \in Resources :
           (Live(r) /\ claim'[r].id # claim[r].id) => ReleaseDelete(claim[r].owner, r)]_vars
  BY LiveClaimStep
<1> QED
  BY <1>1, GrantsStayOrdered, PTL DEF Spec, OnlyOwnerEndsLiveClaim

-----------------------------------------------------------------------------
(* The registry implements the lease service.                               *)

(* The next token the lease service has to grant: the fencing file's, but   *)
(* for a grant between its fencing write and its claim write.               *)
NextToken(r) == IF op.pc = "claim" /\ op.res = r THEN op.token ELSE fencing[r]

(* A step that changes neither the claims' owners, tokens and lapses nor    *)
(* the next tokens is a stuttering step of the lease service.               *)
LEMMA LeaseStutter ==
  ASSUME \A r \in Resources :
           /\ claim'[r].owner = claim[r].owner /\ claim'[r].token = claim[r].token
           /\ Live(r)' <=> Live(r)
           /\ NextToken(r)' = NextToken(r)
  PROVE  UNCHANGED Lease!vars
<1>1. \A r \in Resources : (Exists(r) /\ PastGrace(r))' <=> (Exists(r) /\ PastGrace(r))
  BY DEF Live, Exists
<1> QED
  BY <1>1 DEF Lease!vars, NextToken

(* The registry starts as the lease service does. *)
LEMMA LeaseInit == Init => Lease!Init
<1> SUFFICES ASSUME Init PROVE Lease!Init
  OBVIOUS
<1>1. ASSUME NEW r \in Resources
      PROVE  claim[r].owner = Nobody /\ claim[r].token = 0 /\ fencing[r] = 0
  BY DEF Init, NoClaim
<1>2. op.pc = "idle"
  BY DEF Init, NoOp
<1>3. [r \in Resources |-> claim[r].owner] = [r \in Resources |-> Nobody]
  BY <1>1
<1>4. [r \in Resources |-> claim[r].token] = [r \in Resources |-> 0]
  BY <1>1
<1>5. [r \in Resources |-> Exists(r) /\ PastGrace(r)] = [r \in Resources |-> FALSE]
  <2>1. ASSUME NEW r \in Resources PROVE (Exists(r) /\ PastGrace(r)) = FALSE
    BY <1>1 DEF Exists
  <2> QED
    BY <2>1
<1>6. [r \in Resources |-> IF op.pc = "claim" /\ op.res = r THEN op.token ELSE fencing[r]]
        = [r \in Resources |-> 0]
  BY <1>1, <1>2
<1> QED
  BY <1>3, <1>4, <1>5, <1>6 DEF Lease!Init

(* A function that differs from another at one point at most. *)
LEMMA OnePoint ==
  ASSUME NEW S, NEW f, NEW h, f = [x \in S |-> f[x]], h = [x \in S |-> h[x]], NEW p \in S,
         \A x \in S : x # p => h[x] = f[x]
  PROVE  h = [f EXCEPT ![p] = h[p]]
  OBVIOUS

(* The claim write is the grant. *)
LEMMA LeaseGrant ==
  ASSUME GrantsOrdered, WriteClaim, NEW g \in Resources, g = op.res
  PROVE  Lease!Grant(op.agent, g)
<1>1. op.agent \in Agents /\ ~Live(g) /\ op.token + 1 = fencing[g]
  BY DEF GrantsOrdered, StageInv, WriteClaim
<1>2. Lease!Available(g)
  BY <1>1 DEF Lease!Available, Live, Exists
<1>3. [r \in Resources |-> claim'[r].owner]
        = [[r \in Resources |-> claim[r].owner] EXCEPT ![g] = op.agent]
  BY DEF WriteClaim, GrantsOrdered, TypeOK
<1>4. [r \in Resources |-> claim'[r].token]
        = [[r \in Resources |-> claim[r].token] EXCEPT
             ![g] = [r \in Resources |-> NextToken(r)][g]]
  BY <1>1 DEF WriteClaim, GrantsOrdered, TypeOK, NextToken
<1>5. [r \in Resources |-> (Exists(r) /\ PastGrace(r))']
        = [[r \in Resources |-> Exists(r) /\ PastGrace(r)] EXCEPT ![g] = (Exists(g) /\ PastGrace(g))']
  <2>1. ASSUME NEW r \in Resources, r # g
        PROVE  (Exists(r) /\ PastGrace(r))' = (Exists(r) /\ PastGrace(r))
    <3>1. claim'[r] = claim[r]
      BY <2>1 DEF WriteClaim, GrantsOrdered, TypeOK
    <3> QED
      BY <3>1 DEF Exists, PastGrace
  <2> DEFINE f == [r \in Resources |-> Exists(r) /\ PastGrace(r)]
             h == [r \in Resources |-> (Exists(r) /\ PastGrace(r))']
  <2>2. f = [r \in Resources |-> f[r]] /\ h = [r \in Resources |-> h[r]]
    OBVIOUS
  <2>3. \A r \in Resources : r # g => h[r] = f[r]
    BY <2>1
  <2>4. h[g] = (Exists(g) /\ PastGrace(g))'
    BY <1>1
  <2> HIDE DEF f, h
  <2>5. h = [f EXCEPT ![g] = h[g]]
    BY <1>1, <2>2, <2>3, OnePoint
  <2> QED
    BY <2>4, <2>5 DEF f, h
<1>6. [r \in Resources |-> NextToken(r)']
        = [[r \in Resources |-> NextToken(r)] EXCEPT ![g] = @ + 1]
  <2>1. op'.pc # "claim" /\ fencing' = fencing /\ op.pc = "claim"
    BY DEF WriteClaim, GrantsOrdered, TypeOK, Operation
  <2>2. ASSUME NEW r \in Resources
        PROVE  NextToken(r)' = IF r = g THEN NextToken(r) + 1 ELSE NextToken(r)
    BY <1>1, <2>1 DEF NextToken
  <2> QED
    BY <2>2
<1> QED
  BY <1>1, <1>2, <1>3, <1>4, <1>5, <1>6 DEF Lease!Grant, NextToken

(* Deleting a claim file is the end of the lease. *)
LEMMA LeaseEnd ==
  ASSUME GrantsOrdered, NEW s \in Resources, Exists(s), claim' = [claim EXCEPT ![s] = NoClaim],
         fencing' = fencing, op.pc # "claim", op'.pc # "claim"
  PROVE  Lease!End(s)
<1>1. /\ claim'[s] = NoClaim /\ claim'[s].owner = Nobody /\ claim'[s].token = 0
      /\ \A r \in Resources : r # s => claim'[r] = claim[r]
  BY DEF GrantsOrdered, TypeOK, NoClaim
<1>2. [r \in Resources |-> claim'[r].owner]
        = [[r \in Resources |-> claim[r].owner] EXCEPT ![s] = Nobody]
  <2>1. ASSUME NEW r \in Resources
        PROVE  claim'[r].owner = IF r = s THEN Nobody ELSE claim[r].owner
    BY <1>1
  <2> QED
    BY <2>1
<1>3. [r \in Resources |-> claim'[r].token]
        = [[r \in Resources |-> claim[r].token] EXCEPT ![s] = 0]
  <2>1. ASSUME NEW r \in Resources
        PROVE  claim'[r].token = IF r = s THEN 0 ELSE claim[r].token
    BY <1>1
  <2> QED
    BY <2>1
<1>4. [r \in Resources |-> (Exists(r) /\ PastGrace(r))']
        = [[r \in Resources |-> Exists(r) /\ PastGrace(r)] EXCEPT ![s] = FALSE]
  <2> DEFINE f == [r \in Resources |-> Exists(r) /\ PastGrace(r)]
             h == [r \in Resources |-> (Exists(r) /\ PastGrace(r))']
  <2>1. f = [r \in Resources |-> f[r]] /\ h = [r \in Resources |-> h[r]]
    OBVIOUS
  <2>2. \A r \in Resources : r # s => h[r] = f[r]
    BY <1>1 DEF Exists, PastGrace
  <2>3. h[s] = FALSE
    <3>1. (Exists(s) /\ PastGrace(s))' = FALSE
      BY <1>1 DEF Exists, NoClaim
    <3> QED
      BY <3>1
  <2> HIDE DEF f, h
  <2>4. h = [f EXCEPT ![s] = h[s]]
    BY <2>1, <2>2, OnePoint
  <2> QED
    BY <2>3, <2>4 DEF f, h
<1>5. \A r \in Resources : NextToken(r)' = NextToken(r)
  BY DEF NextToken
<1> QED
  BY <1>2, <1>3, <1>4, <1>5 DEF Lease!End, NextToken, Exists

(* A grant that dies between its fencing write and its claim write has used *)
(* its token up.                                                            *)
LEMMA LeaseBurn ==
  ASSUME GrantsOrdered, NEW g \in Resources, g = op.res, op.pc = "claim", op' = NoOp,
         claim' = claim, fencing' = fencing
  PROVE  Lease!Burn(g)
<1>1. ~Live(g) /\ op.token + 1 = fencing[g]
  BY DEF GrantsOrdered, StageInv
<1>2. Lease!Available(g)
  BY <1>1 DEF Lease!Available, Live, Exists
<1>3. \A r \in Resources : (Exists(r) /\ PastGrace(r))' = (Exists(r) /\ PastGrace(r))
  BY DEF Exists, PastGrace
<1>4. [r \in Resources |-> NextToken(r)']
        = [[r \in Resources |-> NextToken(r)] EXCEPT ![g] = @ + 1]
  <2>1. op'.pc # "claim"
    BY DEF NoOp
  <2>2. ASSUME NEW r \in Resources
        PROVE  NextToken(r)' = IF r = g THEN NextToken(r) + 1 ELSE NextToken(r)
    BY <1>1, <2>1 DEF NextToken
  <2> QED
    BY <2>2
<1> QED
  BY <1>2, <1>3, <1>4 DEF Lease!Burn, NextToken

(* A tick lets leases lapse, and none come back. *)
LEMMA LeaseLapse ==
  ASSUME GrantsOrdered, Tick
  PROVE  Lease!Lapse
<1>1. ASSUME NEW r \in Resources
      PROVE  /\ claim'[r].owner = claim[r].owner /\ claim'[r].token = claim[r].token
             /\ Exists(r) /\ PastGrace(r) => PastGrace(r)'
  <2>1. CASE Exists(r)
    <3>1. claim'[r] = [claim[r] EXCEPT !.idle = Older(@)]
      BY <2>1 DEF Tick, GrantsOrdered, TypeOK
    <3>2. /\ claim'[r].token = claim[r].token /\ claim'[r].owner = claim[r].owner
          /\ claim'[r].idle = Older(claim[r].idle)
      BY <3>1 DEF GrantsOrdered, TypeOK, ClaimFile
    <3> QED
      BY <3>2, OlderAge, Numbers DEF PastGrace, GrantsOrdered
  <2>2. CASE ~Exists(r)
    <3>1. claim'[r] = claim[r]
      BY <2>2 DEF Tick, GrantsOrdered, TypeOK
    <3> QED
      BY <2>2, <3>1
  <2> QED
    BY <2>1, <2>2
<1>2. ASSUME NEW r \in Resources PROVE NextToken(r)' = NextToken(r)
  <2>1. op'.pc = op.pc /\ op'.res = op.res /\ op'.token = op.token /\ fencing' = fencing
    BY DEF Tick, GrantsOrdered, TypeOK, Operation
  <2> QED
    BY <2>1 DEF NextToken
<1> DEFINE late == {r \in Resources : (Exists(r) /\ PastGrace(r))'}
<1>3. late \in SUBSET {r \in Resources : [x \in Resources |-> claim[x].owner][r] # Nobody}
  BY <1>1 DEF Exists
<1>4. [r \in Resources |-> (Exists(r) /\ PastGrace(r))']
        = [r \in Resources |-> [x \in Resources |-> Exists(x) /\ PastGrace(x)][r] \/ r \in late]
  <2>1. ASSUME NEW r \in Resources
        PROVE  (Exists(r) /\ PastGrace(r))' = ((Exists(r) /\ PastGrace(r)) \/ r \in late)
    BY <1>1 DEF Exists
  <2> QED
    BY <2>1
<1> HIDE DEF late
<1> QED
  BY <1>1, <1>2, <1>3, <1>4 DEF Lease!Lapse, NextToken

(* Every step of the registry is a step of the lease service, or none. *)
LEMMA LeaseStep ==
  ASSUME "fencing_loss" \notin Faults, GrantsOrdered, [Next]_vars
  PROVE  [Lease!Next]_Lease!vars
<1> DEFINE Quiet == /\ claim' = claim
                    /\ \A r \in Resources : NextToken(r)' = NextToken(r)
<1>1. Quiet => UNCHANGED Lease!vars
  BY LeaseStutter DEF Live, Exists, PastGrace
<1>2. ASSUME NEW a \in Agents, NEW r \in Resources, Begin(a, r) PROVE Quiet
  <2>1. op.pc # "claim" /\ op'.pc # "claim"
    BY <1>2 DEF Begin, Grab, Free, NoOp
  <2> QED
    BY <1>2, <2>1 DEF Begin, NextToken
<1>3. ASSUME NEW a \in Agents, NEW s \in Resources, Heartbeat(a, s)
      PROVE  UNCHANGED Lease!vars
  <2>1. ASSUME NEW r \in Resources
        PROVE  /\ claim'[r].owner = claim[r].owner /\ claim'[r].token = claim[r].token
               /\ Live(r)' <=> Live(r)
    <3>1. CASE r = s
      <4>1. claim'[r] = [claim[r] EXCEPT !.idle = 0] /\ ~PastGrace(r)
        BY <1>3, <3>1 DEF Heartbeat, GrantsOrdered, TypeOK
      <4>2. /\ claim'[r].owner = claim[r].owner /\ claim'[r].token = claim[r].token
            /\ claim'[r].idle = 0
        BY <4>1 DEF GrantsOrdered, TypeOK, ClaimFile
      <4>3. ~PastGrace(r)'
        BY <4>2, PolicyAssumption DEF PastGrace
      <4> QED
        BY <4>1, <4>2, <4>3 DEF Live, Exists
    <3>2. CASE r # s
      <4>1. claim'[r] = claim[r]
        BY <1>3, <3>2 DEF Heartbeat, GrantsOrdered, TypeOK
      <4> QED
        BY <4>1 DEF Live, Exists, PastGrace
    <3> QED
      BY <3>1, <3>2
  <2>2. \A r \in Resources : NextToken(r)' = NextToken(r)
    BY <1>3 DEF Heartbeat, NextToken
  <2> QED
    BY <2>1, <2>2, LeaseStutter
<1>4. ASSUME NEW a \in Agents, NEW s \in Resources, ReleaseDelete(a, s) PROVE Lease!End(s)
  <2>1. Exists(s)
    BY <1>4, NullAssumption DEF ReleaseDelete, Owns, Exists
  <2>2. op.pc # "claim" /\ op'.pc # "claim"
    BY <1>4 DEF ReleaseDelete, Free, NoOp
  <2> QED
    BY <1>4, <2>1, <2>2, LeaseEnd DEF ReleaseDelete
<1>5. CASE PruneBegin
  <2>1. op.pc # "claim" /\ op'.pc # "claim"
    BY <1>5 DEF PruneBegin, Free, NoOp
  <2> QED
    BY <1>1, <1>5, <2>1 DEF PruneBegin, NextToken
<1>6. CASE ListClaims
  BY <1>1, <1>6 DEF ListClaims, NextToken
<1>7. CASE Reconcile
  <2>1. ASSUME NEW r \in Resources PROVE Reconciled(r) = fencing[r]
    BY Numbers DEF GrantsOrdered, GrantInv, GrantsInOrder, Reconciled
  <2>2. fencing' = fencing
    BY <1>7, <2>1 DEF Reconcile, GrantsOrdered, TypeOK
  <2> QED
    BY <1>1, <1>7, <2>2 DEF Reconcile, NextToken
<1>8. CASE WriteFencing
  <2>1. op.token = fencing[op.res]
    BY <1>8 DEF WriteFencing, GrantsOrdered, StageInv
  <2>2. op.pc = "fencing" /\ op'.pc = "claim" /\ op'.res = op.res /\ op'.token = op.token
    BY <1>8 DEF WriteFencing, GrantsOrdered, TypeOK, Operation
  <2>3. \A r \in Resources : r # op.res => fencing'[r] = fencing[r]
    BY <1>8 DEF WriteFencing, GrantsOrdered, TypeOK
  <2>4. \A r \in Resources : NextToken(r)' = NextToken(r)
    BY <2>1, <2>2, <2>3 DEF NextToken
  <2> QED
    BY <1>1, <1>8, <2>4 DEF WriteFencing
<1>9. CASE WriteClaim
  <2>1. PICK g \in Resources : g = op.res
    BY <1>9 DEF WriteClaim, GrantsOrdered, StageInv
  <2>2. op.agent \in Agents
    BY <1>9 DEF WriteClaim, GrantsOrdered, StageInv
  <2> QED
    BY <1>9, <2>1, <2>2, LeaseGrant DEF Lease!Next
<1>10. CASE UnindexPrevious
  <2>1. op.pc # "claim" /\ op'.pc # "claim"
    BY <1>10 DEF UnindexPrevious, GrantsOrdered, TypeOK, Operation
  <2> QED
    BY <1>1, <1>10, <2>1 DEF UnindexPrevious, NextToken
<1>11. CASE IndexAndReturn
  <2>1. op.pc # "claim" /\ op'.pc # "claim"
    BY <1>11 DEF IndexAndReturn, NoOp
  <2> QED
    BY <1>1, <1>11, <2>1 DEF IndexAndReturn, NextToken
<1>12. CASE ReleaseUnindex
  <2>1. op.pc # "claim" /\ op'.pc # "claim"
    BY <1>12 DEF ReleaseUnindex, NoOp
  <2> QED
    BY <1>1, <1>12, <2>1 DEF ReleaseUnindex, NextToken
<1>13. CASE PruneUnindex
  <2>1. op.pc # "claim" /\ op'.pc # "claim"
    <3>1. op.pc = "pruned"
      BY <1>13 DEF PruneUnindex
    <3>2. CASE op' = NoOp
      BY <3>1, <3>2 DEF NoOp
    <3>3. CASE op' # NoOp
      <4>1. op'.pc = "prune"
        BY <1>13, <3>3 DEF PruneUnindex, NoOp
      <4> QED
        BY <3>1, <4>1
    <3> QED
      BY <3>2, <3>3
  <2> QED
    BY <1>1, <1>13, <2>1 DEF PruneUnindex, NextToken
<1>14. ASSUME NEW s \in Resources, PruneDelete(s)
       PROVE  Lease!End(s)
  <2>1. op.pc # "claim" /\ op'.pc # "claim"
    BY <1>14 DEF PruneDelete, GrantsOrdered, TypeOK, Operation
  <2>2. Exists(s)
    BY <1>14 DEF PruneDelete, GrantsOrdered, StageInv
  <2> QED
    BY <1>14, <2>1, <2>2, LeaseEnd DEF PruneDelete
<1>15. CASE Tick
  BY <1>15, LeaseLapse DEF Lease!Next
<1>16. CASE IndexLost
  BY <1>1, <1>16 DEF IndexLost, NextToken
<1>17. ASSUME claim' = claim, fencing' = fencing, op' = NoOp
       PROVE  [Lease!Next]_Lease!vars
  <2>1. CASE op.pc = "claim"
    <3>1. PICK g \in Resources : g = op.res
      BY <2>1 DEF GrantsOrdered, StageInv
    <3>2. Lease!Burn(g)
      BY <1>17, <2>1, <3>1, LeaseBurn
    <3> QED
      BY <3>2 DEF Lease!Next
  <2>2. CASE op.pc # "claim"
    BY <1>1, <1>17, <2>2 DEF NextToken, NoOp
  <2> QED
    BY <2>1, <2>2
<1>18. CASE OpFails
  BY <1>17, <1>18 DEF OpFails
<1>19. ASSUME NEW a \in Agents, Crash(a) PROVE [Lease!Next]_Lease!vars
  <2>1. CASE op' = NoOp
    BY <1>17, <1>19, <2>1 DEF Crash
  <2>2. CASE op' = op
    BY <1>1, <1>19, <2>2 DEF Crash, NextToken
  <2> QED
    BY <1>19, <2>1, <2>2 DEF Crash
<1>20. CASE UNCHANGED vars
  BY <1>1, <1>20 DEF vars, NextToken
<1> HIDE DEF Quiet
<1> QED
  BY <1>1, <1>2, <1>3, <1>4, <1>5, <1>6, <1>7, <1>8, <1>9, <1>10, <1>11, <1>12, <1>13, <1>14,
     <1>15, <1>16, <1>18, <1>19, <1>20 DEF Next, Call, Stage, Fault, FencingLost, Lease!Next

(* Every behaviour of the registry without a loss of the fencing file, with *)
(* crashes between any two writes, is a behaviour of the lease service: its *)
(* lock, stages, index, quota and prunes are invisible to the callers.      *)
THEOREM RegistryIsLeaseService ==
  ASSUME "fencing_loss" \notin Faults
  PROVE  Spec => ImplementsLease
<1>1. GrantsOrdered /\ [Next]_vars => [Lease!Next]_Lease!vars
  BY LeaseStep
<1> QED
  BY <1>1, LeaseInit, GrantsStayOrdered, PTL DEF Spec, ImplementsLease, Lease!Spec

-----------------------------------------------------------------------------
(* The index and the quota, while every process lives on and every write    *)
(* succeeds.                                                                *)

(* Under whom the index lists r: its owner, but for the resource that the   *)
(* lock holder has under way.                                               *)
IndexedUnder(r) ==
  IF op.res # r \/ op.pc \notin {"unindex", "index", "release", "pruned"} THEN claim[r].owner
  ELSE IF op.pc = "release" THEN op.agent
  ELSE IF op.pc = "index" THEN Nobody ELSE op.prev

IndexInv == \A a \in Agents, r \in Resources : r \in index[a] <=> a = IndexedUnder(r)

(* What is on file for the resource under way.                              *)
OwnersInv ==
  /\ op.pc \in {"fencing", "claim"} => claim[op.res].owner = op.prev
  /\ op.pc \in {"unindex", "index"} => claim[op.res].owner = op.agent
  /\ op.pc \in {"release", "pruned"} => op.res \in Resources /\ claim[op.res].owner = Nobody

(* Who is about to get a claim has room for it, by the count of the claims  *)
(* themselves.                                                              *)
LiveOwned(a) == {r \in Resources : claim[r].owner = a /\ Live(r)}

QuotaInv ==
  MaxClaims > 0 =>
    /\ \A a \in Agents : Cardinality(LiveOwned(a)) <= MaxClaims
    /\ op.pc \in {"fencing", "claim"} => Cardinality(LiveOwned(op.agent)) < MaxClaims

CountedInv == TypeOK /\ HolderKnown /\ OwnersInv /\ IndexInv /\ QuotaInv

\* The steps of a registry whose processes live on.
Undisturbed == Call \/ Stage \/ Tick \/ FencingLost

(* Time and heartbeats change no owner.                                     *)
LEMMA SameOwners ==
  ASSUME TypeOK, \/ Tick
                 \/ \E a \in Agents, r \in Resources : Heartbeat(a, r)
  PROVE  \A r \in Resources : claim'[r].owner = claim[r].owner
<1>1. CASE Tick
  BY <1>1 DEF Tick, TypeOK, ClaimFile
<1>2. ASSUME NEW a \in Agents, NEW s \in Resources, Heartbeat(a, s)
      PROVE  \A r \in Resources : claim'[r].owner = claim[r].owner
  BY <1>2 DEF Heartbeat, TypeOK, ClaimFile
<1> QED
  BY <1>1, <1>2

(* The prune goes on to its next claim, or ends.                            *)
LEMMA PruneGoesOn == PruneUnindex => op'.pc \in {"idle", "prune"}
<1>1. NoOp.pc = "idle" /\ [NoOp EXCEPT !.pc = "prune", !.todo = op.todo \ {op.res}].pc = "prune"
  BY DEF NoOp
<1> QED
  BY <1>1 DEF PruneUnindex

LEMMA HolderStep ==
  ASSUME TypeOK, HolderKnown, OwnersInv, [Undisturbed]_vars
  PROVE  HolderKnown' /\ OwnersInv'
<1>1. ASSUME NEW a \in Agents, NEW r \in Resources, Begin(a, r) PROVE HolderKnown' /\ OwnersInv'
  <2>1. claim' = claim /\ (op' = op \/ Grab(a, r))
    BY <1>1 DEF Begin
  <2>2. CASE op' = op
    BY <2>1, <2>2 DEF HolderKnown, OwnersInv
  <2>3. CASE Grab(a, r)
    <3>1. op'.pc = "fencing" /\ op'.agent = a /\ op'.res = r /\ op'.prev = claim[r].owner
      BY <2>3 DEF Grab, NoOp
    <3> QED
      BY <2>1, <3>1 DEF HolderKnown, OwnersInv
  <2> QED
    BY <2>1, <2>2, <2>3
<1>2. ASSUME NEW a \in Agents, NEW r \in Resources, Heartbeat(a, r) PROVE HolderKnown' /\ OwnersInv'
  <2>1. op'.pc = "idle" /\ op' = op
    BY <1>2 DEF Heartbeat, Free
  <2> QED
    BY <2>1 DEF HolderKnown, OwnersInv
<1>3. ASSUME NEW a \in Agents, NEW r \in Resources, ReleaseDelete(a, r) PROVE HolderKnown' /\ OwnersInv'
  <2>1. op'.pc = "release" /\ op'.agent = a /\ op'.res = r /\ claim'[r] = NoClaim
    BY <1>3 DEF ReleaseDelete, NoOp, TypeOK
  <2> QED
    BY <2>1 DEF HolderKnown, OwnersInv, NoClaim
<1>4. CASE PruneBegin
  <2>1. op'.pc = "prune"
    BY <1>4 DEF PruneBegin, NoOp
  <2> QED
    BY <2>1 DEF HolderKnown, OwnersInv
<1>5. CASE ListClaims \/ Reconcile \/ FencingLost \/ UNCHANGED vars
  <2>1. op' = op /\ claim' = claim
    BY <1>5 DEF ListClaims, Reconcile, FencingLost, vars
  <2> QED
    BY <2>1 DEF HolderKnown, OwnersInv
<1>6. CASE WriteFencing
  <2>1. /\ op'.pc = "claim" /\ op'.agent = op.agent /\ op'.res = op.res /\ op'.prev = op.prev
        /\ claim' = claim /\ op.pc = "fencing"
    BY <1>6 DEF WriteFencing, TypeOK, Operation
  <2> QED
    BY <2>1 DEF HolderKnown, OwnersInv
<1>7. CASE WriteClaim
  <2>1. op.res \in Resources /\ op.agent \in Agents
    BY <1>7 DEF WriteClaim, HolderKnown
  <2>2. /\ op'.pc \in {"index", "unindex"} /\ op'.agent = op.agent /\ op'.res = op.res
        /\ claim'[op.res].owner = op.agent
    BY <1>7, <2>1 DEF WriteClaim, TypeOK, Operation
  <2> QED
    BY <2>1, <2>2 DEF HolderKnown, OwnersInv
<1>8. CASE UnindexPrevious
  <2>1. /\ op'.pc = "index" /\ op'.agent = op.agent /\ op'.res = op.res
        /\ claim' = claim /\ op.pc = "unindex"
    BY <1>8 DEF UnindexPrevious, TypeOK, Operation
  <2> QED
    BY <2>1 DEF HolderKnown, OwnersInv
<1>9. CASE IndexAndReturn \/ ReleaseUnindex \/ PruneUnindex
  <2>1. op'.pc \in {"idle", "prune"}
    BY <1>9, PruneGoesOn DEF IndexAndReturn, ReleaseUnindex, NoOp
  <2> QED
    BY <2>1 DEF HolderKnown, OwnersInv
<1>10. ASSUME NEW r \in Resources, PruneDelete(r) PROVE HolderKnown' /\ OwnersInv'
  <2>1. op'.pc = "pruned" /\ op'.res = r /\ claim'[r] = NoClaim
    BY <1>10 DEF PruneDelete, TypeOK, Operation
  <2> QED
    BY <2>1 DEF HolderKnown, OwnersInv, NoClaim
<1>11. CASE Tick
  <2>1. /\ op'.pc = op.pc /\ op'.agent = op.agent /\ op'.res = op.res /\ op'.prev = op.prev
    BY <1>11 DEF Tick, TypeOK, Operation
  <2> QED
    BY <1>11, <2>1, SameOwners DEF HolderKnown, OwnersInv
<1> QED
  BY <1>1, <1>2, <1>3, <1>4, <1>5, <1>6, <1>7, <1>8, <1>9, <1>10, <1>11
     DEF Undisturbed, Call, Stage

(* The index follows the claim files, one write behind.                     *)
LEMMA IndexStep ==
  ASSUME TypeOK, HolderKnown, OwnersInv, IndexInv, [Undisturbed]_vars
  PROVE  IndexInv'
<1>t. index \in [Agents -> SUBSET Resources] /\ claim \in [Resources -> ClaimFile]
  BY DEF TypeOK
<1>e. Free => \A a \in Agents, r \in Resources : r \in EnsuredIndex[a] <=> a = claim[r].owner
  BY DEF Free, EnsuredIndex, DerivedIndex, IndexInv, IndexedUnder
<1>f. ASSUME Free, index' = EnsuredIndex, claim' = claim, op'.pc \in {"idle", "fencing"}
      PROVE  IndexInv'
  BY <1>e, <1>f DEF IndexInv, IndexedUnder
<1>1. ASSUME NEW a \in Agents, NEW r \in Resources, Begin(a, r) PROVE IndexInv'
  <2>1. op'.pc \in {"idle", "fencing"}
    BY <1>1 DEF Begin, Free, Grab, NoOp
  <2> QED
    BY <1>1, <1>f, <2>1 DEF Begin
<1>2. ASSUME NEW a \in Agents, NEW r \in Resources, Heartbeat(a, r) PROVE IndexInv'
  <2>1. index' = index /\ op' = op
    BY <1>2 DEF Heartbeat
  <2> QED
    BY <1>2, <2>1, SameOwners DEF IndexInv, IndexedUnder
<1>3. ASSUME NEW a \in Agents, NEW r \in Resources, ReleaseDelete(a, r) PROVE IndexInv'
  <2>1. op'.pc = "release" /\ op'.agent = a /\ op'.res = r /\ op.pc = "idle"
    BY <1>3 DEF ReleaseDelete, NoOp, Free
  <2>2. index' = index /\ claim[r].owner = a /\ \A s \in Resources : s # r => claim'[s] = claim[s]
    BY <1>3 DEF ReleaseDelete, Owns, TypeOK
  <2> QED
    BY <2>1, <2>2 DEF IndexInv, IndexedUnder
<1>4. CASE PruneBegin
  <2>1. op'.pc = "prune" /\ op.pc = "idle" /\ index' = index /\ claim' = claim
    BY <1>4 DEF PruneBegin, NoOp, Free
  <2> QED
    BY <2>1 DEF IndexInv, IndexedUnder
<1>5. CASE ListClaims
  BY <1>5, <1>f DEF ListClaims, Free
<1>6. CASE Reconcile \/ FencingLost \/ UNCHANGED vars
  <2>1. op' = op /\ claim' = claim /\ index' = index
    BY <1>6 DEF Reconcile, FencingLost, vars
  <2> QED
    BY <2>1 DEF IndexInv, IndexedUnder
<1>7. CASE WriteFencing
  <2>1. op'.pc = "claim" /\ op.pc = "fencing" /\ claim' = claim /\ index' = index
    BY <1>7 DEF WriteFencing, TypeOK, Operation
  <2> QED
    BY <2>1 DEF IndexInv, IndexedUnder
<1>8. CASE WriteClaim
  <2>1. /\ op.pc = "claim" /\ claim[op.res].owner = op.prev /\ index' = index
        /\ op'.res = op.res /\ op'.prev = op.prev
        /\ op'.pc = IF op.prev = Nobody THEN "index" ELSE "unindex"
    BY <1>8 DEF WriteClaim, OwnersInv, TypeOK, Operation
  <2>2. \A s \in Resources : s # op.res => claim'[s] = claim[s]
    BY <1>8 DEF WriteClaim, TypeOK
  <2> QED
    BY <2>1, <2>2 DEF IndexInv, IndexedUnder
<1>9. CASE UnindexPrevious
  <2>1. /\ op.pc = "unindex" /\ op'.pc = "index" /\ op'.res = op.res /\ claim' = claim
        /\ index' = [index EXCEPT ![op.prev] = @ \ {op.res}]
    BY <1>9 DEF UnindexPrevious, RemoveFromIndex, TypeOK, Operation
  <2>2. \A a \in Agents, r \in Resources : r \in index'[a] <=> r \in index[a] /\ (a # op.prev \/ r # op.res)
    BY <1>t, <2>1
  <2> QED
    BY <2>1, <2>2, NullAssumption DEF IndexInv, IndexedUnder
<1>10. CASE IndexAndReturn
  <2>1. /\ op.pc = "index" /\ op'.pc = "idle" /\ claim' = claim /\ claim[op.res].owner = op.agent
        /\ index' = [index EXCEPT ![op.agent] = @ \cup {op.res}]
    BY <1>10 DEF IndexAndReturn, AddToIndex, NoOp, OwnersInv
  <2>2. \A a \in Agents, r \in Resources : r \in index'[a] <=> r \in index[a] \/ (a = op.agent /\ r = op.res)
    BY <1>t, <2>1
  <2> QED
    BY <2>1, <2>2, NullAssumption DEF IndexInv, IndexedUnder
<1>11. CASE ReleaseUnindex
  <2>1. /\ op.pc = "release" /\ op'.pc = "idle" /\ claim' = claim /\ claim[op.res].owner = Nobody
        /\ index' = [index EXCEPT ![op.agent] = @ \ {op.res}]
    BY <1>11 DEF ReleaseUnindex, RemoveFromIndex, NoOp, OwnersInv
  <2>2. \A a \in Agents, r \in Resources : r \in index'[a] <=> r \in index[a] /\ (a # op.agent \/ r # op.res)
    BY <1>t, <2>1
  <2> QED
    BY <2>1, <2>2, NullAssumption DEF IndexInv, IndexedUnder
<1>12. CASE PruneUnindex
  <2>1. /\ op.pc = "pruned" /\ op'.pc \in {"idle", "prune"} /\ claim' = claim
        /\ claim[op.res].owner = Nobody
        /\ index' = [index EXCEPT ![op.prev] = @ \ {op.res}]
    BY <1>12, PruneGoesOn DEF PruneUnindex, RemoveFromIndex, OwnersInv
  <2>2. \A a \in Agents, r \in Resources : r \in index'[a] <=> r \in index[a] /\ (a # op.prev \/ r # op.res)
    BY <1>t, <2>1
  <2> QED
    BY <2>1, <2>2, NullAssumption DEF IndexInv, IndexedUnder
<1>13. ASSUME NEW r \in Resources, PruneDelete(r) PROVE IndexInv'
  <2>1. /\ op.pc = "prune" /\ op'.pc = "pruned" /\ op'.res = r /\ op'.prev = claim[r].owner
        /\ index' = index
    BY <1>13 DEF PruneDelete, TypeOK, Operation
  <2>2. \A s \in Resources : s # r => claim'[s] = claim[s]
    BY <1>13 DEF PruneDelete, TypeOK
  <2> QED
    BY <2>1, <2>2 DEF IndexInv, IndexedUnder
<1>14. CASE Tick
  <2>1. /\ op'.pc = op.pc /\ op'.agent = op.agent /\ op'.res = op.res /\ op'.prev = op.prev
        /\ index' = index
    BY <1>14 DEF Tick, TypeOK, Operation
  <2> QED
    BY <1>14, <2>1, SameOwners DEF IndexInv, IndexedUnder
<1> QED
  BY <1>1, <1>2, <1>3, <1>4, <1>5, <1>6, <1>7, <1>8, <1>9, <1>10, <1>11, <1>12, <1>13, <1>14
     DEF Undisturbed, Call, Stage

(* Where no claim comes alive and no grant begins, the quota goes on.       *)
LEMMA NoMoreLive ==
  ASSUME QuotaInv, HolderKnown,
         \A r \in Resources : Live(r)' => Live(r) /\ claim'[r].owner = claim[r].owner,
         op'.pc \in {"fencing", "claim"} => op.pc \in {"fencing", "claim"} /\ op'.agent = op.agent
  PROVE  QuotaInv'
<1>1. ASSUME NEW a \in Agents
      PROVE  /\ Cardinality(LiveOwned(a)') \in Nat /\ Cardinality(LiveOwned(a)) \in Nat
             /\ Cardinality(LiveOwned(a)') <= Cardinality(LiveOwned(a))
  <2>1. LiveOwned(a)' \subseteq LiveOwned(a) /\ LiveOwned(a) \subseteq Resources
    BY DEF LiveOwned
  <2> QED
    BY <2>1, FiniteAssumption, FS_Subset, FS_CardinalityType
<1>2. SUFFICES ASSUME MaxClaims > 0 PROVE QuotaInv'
  BY DEF QuotaInv
<1>3. ASSUME NEW a \in Agents PROVE Cardinality(LiveOwned(a)') <= MaxClaims
  BY <1>1, <1>2, <1>3, PolicyAssumption DEF QuotaInv
<1>4. ASSUME op'.pc \in {"fencing", "claim"}
      PROVE  Cardinality(LiveOwned(op.agent)') < MaxClaims /\ op'.agent = op.agent
  <2>1. op.agent \in Agents /\ Cardinality(LiveOwned(op.agent)) < MaxClaims
    BY <1>2, <1>4 DEF QuotaInv, HolderKnown
  <2>2. \A a \in Agents : a = op.agent => Cardinality(LiveOwned(a)') < MaxClaims
    BY <1>1, <2>1, PolicyAssumption
  <2> QED
    BY <1>4, <2>1, <2>2 DEF LiveOwned
<1> QED
  BY <1>3, <1>4 DEF QuotaInv, LiveOwned

(* While the lock is free, the quota check counts the claims themselves.    *)
LEMMA ListedIsOwned ==
  ASSUME TypeOK, IndexInv, Free, NEW a \in Agents
  PROVE  LiveListed(a) = LiveOwned(a)
<1>1. \A r \in Resources : r \in EnsuredIndex[a] <=> a = claim[r].owner
  BY DEF Free, EnsuredIndex, DerivedIndex, IndexInv, IndexedUnder
<1>2. EnsuredIndex[a] \subseteq Resources
  BY DEF EnsuredIndex, DerivedIndex, TypeOK
<1> QED
  BY <1>1, <1>2 DEF LiveListed, LiveOwned

(* A grant fills the room its quota check left; nothing else brings a claim *)
(* to life: a heartbeat is refused past grace.                              *)
LEMMA QuotaStep ==
  ASSUME TypeOK, HolderKnown, OwnersInv, IndexInv, QuotaInv, [Undisturbed]_vars
  PROVE  QuotaInv'
<1>s. ASSUME \A r \in Resources : claim'[r] = claim[r] \/ claim'[r].owner = Nobody
      PROVE  \A r \in Resources : Live(r)' => Live(r) /\ claim'[r].owner = claim[r].owner
  BY <1>s DEF Live, Exists, PastGrace
<1>1. ASSUME NEW a \in Agents, NEW r \in Resources, Begin(a, r) PROVE QuotaInv'
  <2>1. claim' = claim /\ Free
    BY <1>1 DEF Begin
  <2>2. CASE op' = op
    BY <2>1, <2>2, <1>s, NoMoreLive
  <2>3. CASE ~OverQuota(a) /\ Grab(a, r)
    <3>1. op'.agent = a
      BY <2>3 DEF Grab, NoOp
    <3>2. ASSUME MaxClaims > 0
          PROVE  Cardinality(LiveOwned(a)) < MaxClaims
      <4>1. IsFiniteSet(LiveOwned(a)) /\ Cardinality(LiveOwned(a)) \in Nat
        BY FiniteAssumption, FS_Subset, FS_CardinalityType DEF LiveOwned
      <4>2. ~(Cardinality(LiveOwned(a)) >= MaxClaims)
        BY <2>1, <2>3, <3>2, ListedIsOwned DEF OverQuota
      <4> QED
        BY <4>1, <4>2, PolicyAssumption
    <3>3. \A b : LiveOwned(b)' = LiveOwned(b)
      BY <2>1 DEF LiveOwned, Live, Exists, PastGrace
    <3>4. MaxClaims > 0 => Cardinality(LiveOwned(op.agent)') < MaxClaims
      BY <3>1, <3>2, <2>1 DEF LiveOwned, Live, Exists, PastGrace
    <3> QED
      BY <3>3, <3>1, <3>2 DEF QuotaInv
  <2> QED
    BY <1>1, <2>2, <2>3 DEF Begin
<1>2. ASSUME NEW a \in Agents, NEW r \in Resources, Heartbeat(a, r) PROVE QuotaInv'
  <2>1. op' = op /\ ~PastGrace(r) /\ \A s \in Resources : s # r => claim'[s] = claim[s]
    BY <1>2 DEF Heartbeat, TypeOK
  <2>2. \A s \in Resources : claim'[s].owner = claim[s].owner
    BY <1>2, SameOwners
  <2>3. \A s \in Resources : Live(s)' => Live(s) /\ claim'[s].owner = claim[s].owner
    BY <2>1, <2>2 DEF Live, Exists, PastGrace
  <2> QED
    BY <2>1, <2>3, NoMoreLive
<1>3. ASSUME NEW a \in Agents, NEW r \in Resources, ReleaseDelete(a, r) PROVE QuotaInv'
  <2>1. op'.pc = "release"
    BY <1>3 DEF ReleaseDelete, NoOp
  <2>2. \A s \in Resources : claim'[s] = claim[s] \/ claim'[s].owner = Nobody
    BY <1>3 DEF ReleaseDelete, TypeOK, NoClaim
  <2> QED
    BY <2>1, <2>2, <1>s, NoMoreLive
<1>4. ASSUME NEW r \in Resources, PruneDelete(r) PROVE QuotaInv'
  <2>1. op'.pc = "pruned"
    BY <1>4 DEF PruneDelete, TypeOK, Operation
  <2>2. \A s \in Resources : claim'[s] = claim[s] \/ claim'[s].owner = Nobody
    BY <1>4 DEF PruneDelete, TypeOK, NoClaim
  <2> QED
    BY <2>1, <2>2, <1>s, NoMoreLive
<1>5. CASE PruneBegin \/ UnindexPrevious \/ IndexAndReturn \/ ReleaseUnindex \/ PruneUnindex
  <2>1. claim' = claim
    BY <1>5 DEF PruneBegin, UnindexPrevious, IndexAndReturn, ReleaseUnindex, PruneUnindex
  <2>2. op'.pc \in {"prune", "index", "idle"}
    <3>1. CASE PruneBegin
      BY <3>1 DEF PruneBegin, NoOp
    <3>2. CASE IndexAndReturn \/ ReleaseUnindex
      BY <3>2 DEF IndexAndReturn, ReleaseUnindex, NoOp
    <3>3. CASE UnindexPrevious
      BY <3>3 DEF UnindexPrevious, TypeOK, Operation
    <3> QED
      BY <1>5, <3>1, <3>2, <3>3, PruneGoesOn
  <2> QED
    BY <2>1, <2>2, <1>s, NoMoreLive
<1>6. CASE ListClaims \/ Reconcile \/ FencingLost \/ UNCHANGED vars
  <2>1. claim' = claim /\ op' = op
    BY <1>6 DEF ListClaims, Reconcile, FencingLost, vars
  <2> QED
    BY <2>1, <1>s, NoMoreLive
<1>7. CASE WriteFencing
  <2>1. claim' = claim /\ op.pc = "fencing" /\ op'.agent = op.agent
    BY <1>7 DEF WriteFencing, TypeOK, Operation
  <2> QED
    BY <2>1, <1>s, NoMoreLive
<1>8. CASE WriteClaim
  <2>1. /\ op.pc = "claim" /\ op.agent \in Agents /\ op.res \in Resources
        /\ op'.pc \in {"index", "unindex"} /\ claim'[op.res].owner = op.agent
        /\ \A s \in Resources : s # op.res => claim'[s] = claim[s]
    BY <1>8 DEF WriteClaim, HolderKnown, TypeOK, Operation
  <2>2. SUFFICES ASSUME MaxClaims > 0, NEW a \in Agents
                 PROVE  Cardinality(LiveOwned(a)') <= MaxClaims
    BY <2>1 DEF QuotaInv
  <2>3. /\ IsFiniteSet(LiveOwned(a)) /\ Cardinality(LiveOwned(a)) \in Nat
        /\ LiveOwned(a)' \subseteq Resources
    BY FiniteAssumption, FS_Subset, FS_CardinalityType DEF LiveOwned
  <2>4. CASE a = op.agent
    <3>1. LiveOwned(a)' \subseteq LiveOwned(a) \cup {op.res}
      BY <2>1 DEF LiveOwned, Live, Exists, PastGrace
    <3>2. /\ IsFiniteSet(LiveOwned(a) \cup {op.res})
          /\ Cardinality(LiveOwned(a) \cup {op.res}) \in Nat
          /\ Cardinality(LiveOwned(a) \cup {op.res}) <= Cardinality(LiveOwned(a)) + 1
      <4>1. /\ IsFiniteSet(LiveOwned(a) \cup {op.res})
            /\ Cardinality(LiveOwned(a) \cup {op.res})
                 = IF op.res \in LiveOwned(a) THEN Cardinality(LiveOwned(a))
                                              ELSE Cardinality(LiveOwned(a)) + 1
        BY <2>3, FS_AddElement
      <4> QED
        BY <2>3, <4>1
    <3>3. /\ Cardinality(LiveOwned(a)') \in Nat
          /\ Cardinality(LiveOwned(a)') <= Cardinality(LiveOwned(a) \cup {op.res})
      BY <3>1, <3>2, FS_Subset, FS_CardinalityType
    <3>4. Cardinality(LiveOwned(a)) < MaxClaims
      BY <2>1, <2>2, <2>4 DEF QuotaInv
    <3> QED
      BY <2>3, <3>2, <3>3, <3>4, PolicyAssumption
  <2>5. CASE a # op.agent
    <3>1. LiveOwned(a)' \subseteq LiveOwned(a)
      BY <2>1, <2>5 DEF LiveOwned, Live, Exists, PastGrace
    <3>2. Cardinality(LiveOwned(a)') \in Nat /\ Cardinality(LiveOwned(a)') <= Cardinality(LiveOwned(a))
      BY <2>3, <3>1, FS_Subset, FS_CardinalityType
    <3>3. Cardinality(LiveOwned(a)) <= MaxClaims
      BY <2>2 DEF QuotaInv
    <3> QED
      BY <2>3, <3>2, <3>3, PolicyAssumption
  <2> QED
    BY <2>4, <2>5
<1>9. CASE Tick
  <2>1. op'.pc = op.pc /\ op'.agent = op.agent
    BY <1>9 DEF Tick, TypeOK, Operation
  <2>2. ASSUME NEW r \in Resources
        PROVE  Live(r)' => Live(r) /\ claim'[r].owner = claim[r].owner
    <3>1. claim'[r].owner = claim[r].owner
      BY <1>9, SameOwners
    <3>2. claim[r].idle \in 0 .. Horizon
      BY DEF TypeOK, ClaimFile
    <3>3. PastGrace(r) => claim'[r].idle > Expiry + Grace
      BY <1>9, <3>2, OlderAge DEF Tick, PastGrace, TypeOK, ClaimFile
    <3> QED
      BY <3>1, <3>3 DEF Live, Exists, PastGrace
  <2> QED
    BY <2>1, <2>2, NoMoreLive
<1> QED
  BY <1>1, <1>2, <1>3, <1>4, <1>5, <1>6, <1>7, <1>8, <1>9 DEF Undisturbed, Call, Stage

(* An index that is not lost, and a quota that is kept, for as long as no   *)
(* process dies and no write fails: the invariant is inductive.             *)
LEMMA CountedInductive ==
  /\ Init => CountedInv
  /\ CountedInv /\ [Undisturbed]_vars => CountedInv'
<1>1. ASSUME Init PROVE CountedInv
  <2>1. claim = [r \in Resources |-> NoClaim] /\ index = [a \in Agents |-> {}] /\ op = NoOp
    BY <1>1 DEF Init
  <2>2. op.pc = "idle" /\ \A r \in Resources : claim[r].owner = Nobody
    BY <2>1 DEF NoOp, NoClaim
  <2>3. \A a \in Agents : Cardinality(LiveOwned(a)) = 0
    <3>1. \A a \in Agents : LiveOwned(a) = {}
      BY <2>2 DEF LiveOwned, Live, Exists
    <3> QED
      BY <3>1, FS_EmptySet
  <2>4. IndexInv
    BY <2>1, <2>2, NullAssumption DEF IndexInv, IndexedUnder
  <2>5. QuotaInv
    BY <2>2, <2>3, PolicyAssumption DEF QuotaInv
  <2> QED
    BY <1>1, <2>2, <2>4, <2>5, InitTypes DEF CountedInv, HolderKnown, OwnersInv
<1>2. ASSUME CountedInv, [Undisturbed]_vars PROVE CountedInv'
  <2>1. [Next]_vars
    BY <1>2 DEF Undisturbed, Next, Fault
  <2> QED
    BY <1>2, <2>1, NextTypes, HolderStep, IndexStep, QuotaStep DEF CountedInv
<1> QED
  BY <1>1, <1>2

(* While no process dies in an operation and every write succeeds, the      *)
(* index file lists under every agent exactly the claim files it owns, save *)
(* the one the lock holder has under way, and no agent goes over its quota; *)
(* the fencing file may be lost at any time.                                *)
THEOREM IndexAndQuotaInvariant == UndisturbedSpec => []CountedInv
<1> QED
  BY CountedInductive, PTL DEF UndisturbedSpec, Undisturbed

(* Between the operations the index is the one the claim files give:        *)
(* _add_to_index and _remove_from_index never drift from the claims.        *)
THEOREM IndexStaysExact == UndisturbedSpec => []IndexExact
<1>1. ASSUME CountedInv PROVE IndexExact
  <2>1. SUFFICES ASSUME Free PROVE index = DerivedIndex
    BY DEF IndexExact
  <2>2. index \in [Agents -> SUBSET Resources]
    BY <1>1 DEF CountedInv, TypeOK
  <2>3. \A a \in Agents : index[a] = {r \in Resources : claim[r].owner = a}
    BY <1>1, <2>1, <2>2 DEF CountedInv, IndexInv, IndexedUnder, Free
  <2> QED
    BY <2>2, <2>3 DEF DerivedIndex
<1> QED
  BY <1>1, IndexAndQuotaInvariant, PTL

(* No agent ever has more than max_claims_per_agent claims that are not     *)
(* past grace: the count that acquire_claim and takeover_claim make through *)
(* the index is the count of the claims.                                    *)
THEOREM QuotaIsRespected == UndisturbedSpec => []QuotaRespected
<1>1. CountedInv => QuotaRespected
  BY DEF CountedInv, QuotaInv, LiveOwned, QuotaRespected
<1> QED
  BY <1>1, IndexAndQuotaInvariant, PTL

-----------------------------------------------------------------------------
(* The steps that run_step admits.                                          *)

(* The handle for the claim on file is its owner's.                         *)
HandlesOwned ==
  \A a \in Agents, r \in Resources :
    Exists(r) /\ held[a][r] # NoHandle /\ held[a][r].id = claim[r].id => claim[r].owner = a

(* No step was admitted with a token that was not issued.                   *)
AdmittedIssued ==
  /\ running \in [Agents -> [Resources -> Nat]]
  /\ admitted \in [Resources -> Nat]
  /\ \A r \in Resources : admitted[r] <= fencing[r]

FencedInv == GrantsOrdered /\ HandlesOwned /\ AdmittedIssued

-----------------------------------------------------------------------------
(* What a step does to the registry is a step of the registry, or none.     *)
LEMMA StepIsRegistryStep == [StepNext]_allVars => [Next]_vars
  BY DEF StepNext, RegistryStep, CrashInStep, EnterStep, SideEffect, LeaveStep, allVars,
         Next, Fault

(* Whoever has the handle of the claim on file goes on being its owner: a   *)
(* new claim is nobody's until it is handed out.                            *)
LEMMA OwnersKept ==
  ASSUME GrantsOrdered, HandlesOwned, [Next]_vars
  PROVE  HandlesOwned'
<1> SUFFICES ASSUME NEW a \in Agents, NEW r \in Resources, Exists(r)', held'[a][r] # NoHandle,
                    held'[a][r].id = claim'[r].id
             PROVE  claim'[r].owner = a
  BY DEF HandlesOwned
<1> USE DEF GrantsOrdered
<1>1. ASSUME held'[a][r] = held[a][r], claim'[r].id = claim[r].id,
             claim'[r].owner = claim[r].owner
      PROVE  claim'[r].owner = a
  BY <1>1 DEF HandlesOwned, Exists
<1>2. ASSUME NEW s \in Resources, claim' = [claim EXCEPT ![s] = NoClaim], held' = held
      PROVE  claim'[r].owner = a
  <2>1. CASE s = r
    BY <1>2, <2>1 DEF TypeOK, Exists, NoClaim
  <2>2. CASE s # r
    BY <1>1, <1>2, <2>2 DEF TypeOK
  <2> QED
    BY <2>1, <2>2
<1>3. CASE WriteClaim
  <2>1. held' = held /\ op.pc = "claim" /\ op.res \in Resources
    BY <1>3 DEF WriteClaim, StageInv
  <2>2. CASE r = op.res
    <3>1. claim'[r].id = minted[r]
      BY <1>3, <2>2 DEF WriteClaim, TypeOK
    <3>2. held[a][r].id < minted[r]
      BY <2>1, <2>2 DEF StageInv
    <3> QED
      BY <2>1, <3>1, <3>2, Numbers
  <2>3. CASE r # op.res
    BY <1>1, <1>3, <2>1, <2>3 DEF WriteClaim, TypeOK
  <2> QED
    BY <2>2, <2>3
<1>4. CASE IndexAndReturn
  <2>1. /\ claim' = claim /\ op.pc = "index"
        /\ held' = [held EXCEPT ![op.agent][op.res] = [id |-> minted[op.res], token |-> op.token]]
    BY <1>4 DEF IndexAndReturn
  <2>2. op.agent \in Agents /\ op.res \in Resources /\ claim[op.res].owner = op.agent
    BY <2>1 DEF StageInv
  <2>3. CASE a = op.agent /\ r = op.res
    BY <2>1, <2>2, <2>3
  <2>4. CASE ~(a = op.agent /\ r = op.res)
    <3>1. held'[a][r] = held[a][r]
      BY <2>1, <2>2, <2>4 DEF TypeOK
    <3> QED
      BY <1>1, <2>1, <3>1
  <2> QED
    BY <2>3, <2>4
<1>5. ASSUME NEW b \in Agents, NEW s \in Resources, Heartbeat(b, s)
      PROVE  claim'[r].owner = a
  <2>1. claim'[r].id = claim[r].id /\ claim'[r].owner = claim[r].owner /\ held' = held
    BY <1>5 DEF Heartbeat, TypeOK, ClaimFile
  <2> QED
    BY <1>1, <2>1
<1>6. CASE Tick
  <2>1. claim'[r].id = claim[r].id /\ claim'[r].owner = claim[r].owner /\ held' = held
    BY <1>6 DEF Tick, TypeOK, ClaimFile
  <2> QED
    BY <1>1, <2>1
<1>7. ASSUME NEW b \in Agents, Crash(b) PROVE claim'[r].owner = a
  <2>1. claim' = claim /\ held' = [held EXCEPT ![b] = [s \in Resources |-> NoHandle]]
    BY <1>7 DEF Crash
  <2>2. a # b
    BY <2>1 DEF TypeOK
  <2> QED
    BY <1>1, <2>1, <2>2 DEF TypeOK
<1>8. ASSUME NEW b \in Agents, NEW s \in Resources, ReleaseDelete(b, s)
      PROVE  claim'[r].owner = a
  BY <1>2, <1>8 DEF ReleaseDelete
<1>9. ASSUME NEW s \in Resources, PruneDelete(s) PROVE claim'[r].owner = a
  BY <1>2, <1>9 DEF PruneDelete
<1>10. ASSUME claim' = claim, held' = held PROVE claim'[r].owner = a
  BY <1>1, <1>10
<1>11. ASSUME NEW b \in Agents, NEW s \in Resources, Begin(b, s) PROVE claim' = claim /\ held' = held
  BY <1>11 DEF Begin
<1>12. CASE PruneBegin
  BY <1>10, <1>12 DEF PruneBegin
<1>13. CASE ListClaims \/ Reconcile
  BY <1>10, <1>13 DEF ListClaims, Reconcile
<1>14. CASE WriteFencing \/ UnindexPrevious \/ ReleaseUnindex \/ PruneUnindex
  <2>1. CASE WriteFencing
    BY <1>10, <2>1 DEF WriteFencing
  <2>2. CASE UnindexPrevious
    BY <1>10, <2>2 DEF UnindexPrevious
  <2>3. CASE ReleaseUnindex
    <3>1. /\ claim' = claim
          /\ held' = [held EXCEPT ![op.agent][op.res] = NoHandle]
      BY <2>3 DEF ReleaseUnindex
    <3>2. op.agent \in Agents /\ op.res \in Resources
      BY <2>3 DEF ReleaseUnindex, StageInv
    <3>3. ~(a = op.agent /\ r = op.res)
      BY <3>1, <3>2 DEF TypeOK
    <3>4. held'[a][r] = held[a][r]
      BY <3>1, <3>2, <3>3 DEF TypeOK
    <3> QED
      BY <1>1, <3>1, <3>4
  <2>4. CASE PruneUnindex
    BY <1>10, <2>4 DEF PruneUnindex
  <2> QED
    BY <1>14, <2>1, <2>2, <2>3, <2>4
<1>15. CASE IndexLost \/ FencingLost \/ OpFails
  BY <1>10, <1>15 DEF IndexLost, FencingLost, OpFails
<1>16. CASE UNCHANGED vars
  BY <1>10, <1>16 DEF vars
<1> HIDE DEF GrantsOrdered
<1>17. CASE Call
  BY <1>5, <1>8, <1>10, <1>11, <1>12, <1>13, <1>17 DEF Call
<1>18. CASE Stage
  BY <1>3, <1>4, <1>9, <1>14, <1>18 DEF Stage
<1>19. CASE Fault
  BY <1>7, <1>15, <1>19 DEF Fault
<1> QED
  BY <1>6, <1>16, <1>17, <1>18, <1>19 DEF Next

(* Unless its file is lost, next_token never goes back.                     *)
LEMMA TokensGrow ==
  ASSUME "fencing_loss" \notin Faults, GrantsOrdered, [Next]_vars, NEW r \in Resources
  PROVE  fencing[r] <= fencing'[r]
<1> USE DEF GrantsOrdered
<1>1. fencing[r] \in Nat
  BY DEF TypeOK
<1>2. CASE Reconcile
  <2>1. fencing'[r] = Reconciled(r)
    BY <1>2 DEF Reconcile
  <2> QED
    BY <1>1, <2>1, Numbers DEF Reconciled
<1>3. CASE WriteFencing
  <2>1. op.token = fencing[op.res] /\ op.res \in Resources
    BY <1>3 DEF WriteFencing, StageInv
  <2>2. fencing'[r] = IF r = op.res THEN op.token + 1 ELSE fencing[r]
    BY <1>3, <2>1 DEF WriteFencing, TypeOK
  <2> QED
    BY <1>1, <2>1, <2>2
<1>4. ASSUME fencing' = fencing PROVE fencing[r] <= fencing'[r]
  BY <1>1, <1>4
<1> QED
  BY <1>2, <1>3, <1>4
     DEF Next, Call, Stage, Tick, Fault, vars, Begin, Heartbeat, ReleaseDelete, PruneBegin, ListClaims,
         WriteClaim, UnindexPrevious, IndexAndReturn, ReleaseUnindex, PruneDelete, PruneUnindex,
         IndexLost, FencingLost, OpFails, Crash

-----------------------------------------------------------------------------
(* Who is admitted holds the claim that is on file, if one is: every other  *)
(* handle's token is below the live one.                                    *)
LEMMA AdmittedOwns ==
  ASSUME FencedInv, NEW a \in Agents, NEW r \in Resources, EnterStep(a, r)
  PROVE  /\ admitted'[r] = fencing[r]
         /\ running'[a][r] = fencing[r]
         /\ Exists(r) => Owns(a, r)
<1>1. /\ held[a][r] # NoHandle /\ held[a][r].token = fencing[r] - 1
      /\ fencing[r] \in Nat /\ held[a][r].token \in Nat /\ claim[r].token \in Nat
  BY Numbers DEF EnterStep, ValidToken, FencedInv, GrantsOrdered
<1>2. held[a][r].token + 1 = fencing[r]
  BY <1>1
<1>3. admitted'[r] = fencing[r] /\ running'[a][r] = fencing[r]
  BY <1>2 DEF EnterStep, FencedInv, AdmittedIssued
<1>4. ASSUME Exists(r) PROVE Owns(a, r)
  <2>1. claim[r].token < fencing[r]
    BY <1>4 DEF FencedInv, GrantsOrdered, GrantInv, GrantsInOrder
  <2>2. held[a][r].id = claim[r].id
    BY <1>1, <1>2, <1>4, <2>1 DEF FencedInv, GrantsOrdered, GrantInv, GrantsInOrder
  <2> QED
    BY <1>1, <1>4, <2>2 DEF FencedInv, HandlesOwned, Owns
<1> QED
  BY <1>3, <1>4

(* Every step keeps the invariant, and the admissions in their order.       *)
LEMMA FencedStep ==
  ASSUME "fencing_loss" \notin Faults, FencedInv, [StepNext]_allVars
  PROVE  /\ FencedInv'
         /\ \A r \in Resources : admitted'[r] >= admitted[r]
<1>1. [Next]_vars
  BY StepIsRegistryStep
<1>2. GrantsOrdered' /\ HandlesOwned'
  BY <1>1, GrantsInductive, OwnersKept DEF FencedInv
<1>3. \A r \in Resources : fencing[r] <= fencing'[r] /\ fencing[r] \in Nat /\ fencing'[r] \in Nat
  BY <1>1, <1>2, TokensGrow DEF FencedInv, GrantsOrdered, TypeOK
<1>4. \A r \in Resources : admitted[r] \in Nat /\ admitted[r] <= fencing[r]
  BY DEF FencedInv, AdmittedIssued
<1>5. ASSUME admitted' = admitted, running' \in [Agents -> [Resources -> Nat]]
      PROVE  AdmittedIssued' /\ \A r \in Resources : admitted'[r] >= admitted[r]
  BY <1>3, <1>4, <1>5 DEF FencedInv, AdmittedIssued
<1>6. ASSUME NEW a \in Agents, NEW r \in Resources, EnterStep(a, r)
      PROVE  AdmittedIssued' /\ \A s \in Resources : admitted'[s] >= admitted[s]
  <2>1. /\ admitted'[r] = fencing[r] /\ fencing' = fencing
        /\ \A s \in Resources : s # r => admitted'[s] = admitted[s]
    BY <1>6, AdmittedOwns DEF EnterStep, FencedInv, AdmittedIssued, vars
  <2>2. running' \in [Agents -> [Resources -> Nat]] /\ DOMAIN admitted' = Resources
    <3>1. held[a][r].token + 1 \in Nat
      BY Numbers DEF FencedInv, GrantsOrdered
    <3> QED
      BY <1>6, <3>1 DEF EnterStep, FencedInv, AdmittedIssued
  <2>3. admitted' \in [Resources -> Nat]
    <3>1. held[a][r].token + 1 \in Nat
      BY Numbers DEF FencedInv, GrantsOrdered
    <3> QED
      BY <1>6, <3>1 DEF EnterStep, FencedInv, AdmittedIssued
  <2>4. ASSUME NEW s \in Resources
        PROVE  admitted'[s] <= fencing'[s] /\ admitted'[s] >= admitted[s]
    <3>1. CASE s = r
      BY <1>3, <1>4, <2>1, <3>1
    <3>2. CASE s # r
      BY <1>3, <1>4, <2>1, <3>2
    <3> QED
      BY <3>1, <3>2
  <2> QED
    BY <2>2, <2>3, <2>4 DEF AdmittedIssued
<1>7. ASSUME NEW a \in Agents, NEW r \in Resources, SideEffect(a, r) \/ LeaveStep(a, r)
      PROVE  AdmittedIssued' /\ \A s \in Resources : admitted'[s] >= admitted[s]
  <2>1. admitted' = admitted /\ running' \in [Agents -> [Resources -> Nat]]
    BY <1>7 DEF SideEffect, LeaveStep, FencedInv, AdmittedIssued
  <2> QED
    BY <1>5, <2>1
<1>8. ASSUME NEW a \in Agents, CrashInStep(a)
      PROVE  AdmittedIssued' /\ \A s \in Resources : admitted'[s] >= admitted[s]
  <2>1. admitted' = admitted /\ running' \in [Agents -> [Resources -> Nat]]
    BY <1>8 DEF CrashInStep, FencedInv, AdmittedIssued
  <2> QED
    BY <1>5, <2>1
<1>9. ASSUME RegistryStep \/ UNCHANGED allVars
      PROVE  AdmittedIssued' /\ \A s \in Resources : admitted'[s] >= admitted[s]
  <2>1. admitted' = admitted /\ running' = running
    BY <1>9 DEF RegistryStep, stepVars, allVars
  <2> QED
    BY <1>5, <2>1 DEF FencedInv, AdmittedIssued
<1> QED
  BY <1>2, <1>6, <1>7, <1>8, <1>9 DEF FencedInv, StepNext

LEMMA FencedStart == StepInit => FencedInv
<1> SUFFICES ASSUME StepInit PROVE FencedInv
  OBVIOUS
<1>1. GrantsOrdered
  BY InitTypes, InitGrants DEF StepInit, GrantsOrdered
<1>2. HandlesOwned
  BY DEF StepInit, Init, HandlesOwned
<1>3. AdmittedIssued
  BY DEF StepInit, Init, AdmittedIssued
<1> QED
  BY <1>1, <1>2, <1>3 DEF FencedInv

(* The invariant of the registry and of the admissions, whatever the steps  *)
(* do and wherever a process dies in one.                                   *)
THEOREM StepsStayFenced ==
  ASSUME "fencing_loss" \notin Faults
  PROVE  StepSpec => []FencedInv
<1>1. FencedInv /\ [StepNext]_allVars => FencedInv'
  BY FencedStep
<1> QED
  BY <1>1, FencedStart, PTL DEF StepSpec

(* run_step turns away everybody but the owner of the claim on file, however *)
(* many releases, prunes and takeovers the others slept through.            *)
THEOREM AdmitsItsOwner ==
  ASSUME "fencing_loss" \notin Faults
  PROVE  StepSpec => AdmitsOwnerOnly
<1>1. ASSUME FencedInv, [StepNext]_allVars, NEW a \in Agents, NEW r \in Resources,
             running[a][r] = 0, running'[a][r] # 0, Exists(r)
      PROVE  Owns(a, r)
  <2>1. running \in [Agents -> [Resources -> Nat]]
    BY <1>1 DEF FencedInv, AdmittedIssued
  <2>2. PICK b \in Agents, s \in Resources : EnterStep(b, s)
    BY <1>1, <2>1 DEF StepNext, RegistryStep, CrashInStep, SideEffect, LeaveStep, stepVars, allVars
  <2>3. b = a /\ s = r
    BY <1>1, <2>1, <2>2 DEF EnterStep
  <2> QED
    BY <1>1, <2>2, <2>3, AdmittedOwns
<1>2. FencedInv /\ [StepNext]_allVars =>
        [\A a \in Agents, r \in Resources :
           (running[a][r] = 0 /\ running'[a][r] # 0 /\ Exists(r)) => Owns(a, r)]_allVars
  BY <1>1
<1> QED
  BY <1>2, StepsStayFenced, PTL DEF StepSpec, AdmitsOwnerOnly

(* Once the owner of a later grant got into a step on a resource, no earlier *)
(* one does.                                                                *)
THEOREM AdmitsInGrantOrder ==
  ASSUME "fencing_loss" \notin Faults
  PROVE  StepSpec => AdmittedInOrder
<1>1. FencedInv /\ [StepNext]_allVars =>
        [\A r \in Resources : admitted'[r] >= admitted[r]]_allVars
  BY FencedStep
<1> QED
  BY <1>1, StepsStayFenced, PTL DEF StepSpec, AdmittedInOrder
=============================================================================

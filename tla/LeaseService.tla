--------------------------- MODULE LeaseService ---------------------------
(***************************************************************************)
(* What the coordination package promises its callers, with no files, no   *)
(* lock, no index and no clock: each resource has at most one lease, ended *)
(* only by its owner until it has lapsed, and granted with a token above   *)
(* every token granted before, so that the executor's exact-equality check *)
(* admits the owner of the latest grant only.                              *)
(***************************************************************************)
EXTENDS Naturals

CONSTANTS Agents, Resources, Nobody

VARIABLES
  owner,   \* owner[r]: the agent that has the lease on r, or Nobody
  token,   \* token[r]: the fencing token of that lease, 0 without one
  lapsed,  \* lapsed[r]: the owner let the lease pass its grace period
  next     \* next[r]: the token the next grant of r carries

vars == <<owner, token, lapsed, next>>

Init ==
  /\ owner = [r \in Resources |-> Nobody]
  /\ token = [r \in Resources |-> 0]
  /\ lapsed = [r \in Resources |-> FALSE]
  /\ next = [r \in Resources |-> 0]

\* The lease on r may be given away.
Available(r) == owner[r] = Nobody \/ lapsed[r]

\* By the time a grant is on file its owner may have let it lapse already.
Grant(a, r) ==
  /\ Available(r)
  /\ owner' = [owner EXCEPT ![r] = a]
  /\ token' = [token EXCEPT ![r] = next[r]]
  /\ \E late \in BOOLEAN : lapsed' = [lapsed EXCEPT ![r] = late]
  /\ next' = [next EXCEPT ![r] = @ + 1]

\* A grant that came to nothing has used its token up.
Burn(r) ==
  /\ Available(r)
  /\ next' = [next EXCEPT ![r] = @ + 1]
  /\ UNCHANGED <<owner, token, lapsed>>

\* By its owner; or, once lapsed, by anyone.
End(r) ==
  /\ owner[r] # Nobody
  /\ owner' = [owner EXCEPT ![r] = Nobody]
  /\ token' = [token EXCEPT ![r] = 0]
  /\ lapsed' = [lapsed EXCEPT ![r] = FALSE]
  /\ UNCHANGED next

\* Time takes any number of leases past their grace at once.
Lapse ==
  /\ \E late \in SUBSET {r \in Resources : owner[r] # Nobody} :
       lapsed' = [r \in Resources |-> lapsed[r] \/ r \in late]
  /\ UNCHANGED <<owner, token, next>>

Next ==
  \/ \E r \in Resources : Burn(r) \/ End(r) \/ \E a \in Agents : Grant(a, r)
  \/ Lapse

Spec == Init /\ [][Next]_vars

=============================================================================

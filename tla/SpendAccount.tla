---------------------------- MODULE SpendAccount ----------------------------
(***************************************************************************)
(* What the spend protocol promises of the budget of each run: estimates   *)
(* are reserved up front, and every call is settled at most once, with one *)
(* amount, however often it is retried and wherever a process dies.        *)
(***************************************************************************)
EXTENDS Integers

CONSTANTS Calls, Runs, RunOf, Estimate, Limit

VARIABLES
  spent,    \* spent[r]: the spent side of the budget of r
  settled   \* the settlements [call, amount] made

Init ==
  /\ spent = [r \in Runs |-> 0]
  /\ settled = {}

InBudget(amount) == amount >= 0 /\ amount <= Limit

Reserve(r) ==
  /\ InBudget(spent[r] + Estimate)
  /\ spent' = [spent EXCEPT ![r] = @ + Estimate]
  /\ UNCHANGED settled

Settle(c, amount) ==
  /\ \A s \in settled : s.call # c
  /\ InBudget(spent[RunOf[c]] + amount)
  /\ spent' = [spent EXCEPT ![RunOf[c]] = @ + amount]
  /\ settled' = settled \cup {[call |-> c, amount |-> amount]}

\* A settlement refunds part of the estimate at most.
Next ==
  \/ \E r \in Runs : Reserve(r)
  \/ \E c \in Calls, amount \in (-Estimate)..Limit : Settle(c, amount)

Spec == Init /\ [][Next]_<<spent, settled>>
=============================================================================

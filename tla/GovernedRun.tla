---------------------------- MODULE GovernedRun ----------------------------
(***************************************************************************)
(* What a workflow run promises, whoever drives it and whatever dies on    *)
(* the way: its state moves along the transition table only, a step is     *)
(* performed after every step before it has passed, a gate is passed by a  *)
(* grant and by nothing else, and the run is walked to completed only when *)
(* every step has passed.                                                  *)
(***************************************************************************)
EXTENDS Naturals

CONSTANTS
  N,     \* the workflow definition has steps 1..N, in this order
  Gate   \* the steps with a governance gate before them

VARIABLES
  state,    \* the run's state
  worked,   \* the steps whose work has succeeded at least once
  granted   \* the steps a human has granted

Steps == 1..N

\* state_machine.TRANSITIONS
Transitions(s) ==
  CASE s = "created" -> {"running", "cancelled"}
    [] s = "running" ->
         {"interrupted", "waiting_approval", "applying", "failed", "cancelled"}
    [] s = "interrupted" -> {"running", "failed", "cancelled"}
    [] s = "waiting_approval" -> {"applying", "running", "failed", "cancelled"}
    [] s = "applying" -> {"verifying", "failed", "cancelled"}
    [] s = "verifying" -> {"completed", "waiting_approval", "failed", "cancelled"}
    [] OTHER -> {}

Terminal == {"completed", "failed", "cancelled"}
States == {"created", "running", "interrupted", "waiting_approval", "applying",
           "verifying"} \cup Terminal

\* validate_transition(s, t)
MayMove(s, t) == t \in Transitions(s)

\* Passed(s): nothing stands in the way of the steps after s.
Passed(s) == IF s \in Gate THEN s \in granted ELSE s \in worked
AllPassed == \A s \in Steps : Passed(s)

Init == state = "created" /\ worked = {} /\ granted = {}

\* A step's work succeeds; nothing says the run is still running by then.
Work(s) ==
  /\ s \notin Gate /\ \A j \in 1..(s - 1) : Passed(j)
  /\ worked' = worked \cup {s}
  /\ UNCHANGED <<state, granted>>

\* A human grants the step a run waits for.
Grant(s) ==
  /\ MayMove(state, "running") /\ state # "created"
  /\ state' = "running"
  /\ granted' = granted \cup {s}
  /\ UNCHANGED worked

\* A move towards completed asks that every step has passed.
Move ==
  \E t \in Transitions(state) :
    /\ t \in {"applying", "verifying", "completed"} => AllPassed
    /\ state' = t
    /\ UNCHANGED <<worked, granted>>

Next == Move \/ \E s \in Steps : Work(s) \/ Grant(s)

Spec == Init /\ [][Next]_<<state, worked, granted>>
=============================================================================

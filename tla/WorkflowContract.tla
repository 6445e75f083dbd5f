-------------------------- MODULE WorkflowContract --------------------------
(***************************************************************************)
(* What the run table promises about one run of a workflow: the steps      *)
(* recorded as completed only grow and respect the dependencies, and a run *)
(* is completed once, when nothing is left to do, and stays so.            *)
(***************************************************************************)
CONSTANTS
  Steps,       \* step ids of the workflow
  DependsOn    \* step -> the steps it depends on

VARIABLES
  state,       \* what the table says of the run
  recorded     \* its completed steps

Contract == <<state, recorded>>

Init == state = "absent" /\ recorded = {}

Checkpoint ==
  /\ state # "completed"
  /\ state' \in {"running", "failed", "completed"}
  /\ recorded \subseteq recorded' /\ recorded' \subseteq Steps
  /\ \A s \in recorded' : DependsOn[s] \subseteq recorded'
  /\ state' = "completed" => recorded' = Steps

Spec == Init /\ [][Checkpoint]_Contract
=============================================================================

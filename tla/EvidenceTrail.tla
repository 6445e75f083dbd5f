--------------------------- MODULE EvidenceTrail ---------------------------
(***************************************************************************)
(* What the audit trail promises about recorded evidence, independent of   *)
(* SQLite tables, files and processes: a decision row, once issued, stays  *)
(* in the live log until it is also in cold storage; cold storage never    *)
(* loses a row; and the one destructive operation, a purge, is possible    *)
(* only when it is configured and nothing has been sealed yet.             *)
(*                                                                         *)
(* kernel/decision_log.py, adapters/audit/retention.py and                 *)
(* adapters/audit/worm_store.py are the program; AuditArchive is its       *)
(* detailed model and refines this one.                                    *)
(***************************************************************************)
EXTENDS Naturals

CONSTANT AllowPurge      \* audit_retention.allow_purge

VARIABLES
  issued,                \* number of rows ever recorded; row ids are 1..issued
  live,                  \* ids in the hot log
  cold                   \* ids in sealed segments

trailVars == <<issued, live, cold>>

Init ==
  /\ issued = 0
  /\ live = {}
  /\ cold = {}

\* DecisionLog.record: the next id enters the live log.
Append ==
  /\ issued' = issued + 1
  /\ live' = live \cup {issued + 1}
  /\ UNCHANGED cold

\* WormStore.seal_from_log: live rows are copied into cold storage.
Seal ==
  /\ \E S \in SUBSET live : cold' = cold \cup S
  /\ UNCHANGED <<issued, live>>

\* DecisionLog.delete_through after a seal: only rows already cold leave.
Release ==
  /\ \E n \in 1..issued :
       /\ live \cap (1..n) \subseteq cold
       /\ live' = live \ (1..n)
  /\ UNCHANGED <<issued, cold>>

\* apply_retention with action "purge".
Purge ==
  /\ AllowPurge
  /\ cold = {}
  /\ \E n \in 1..issued : live' = live \ (1..n)
  /\ UNCHANGED <<issued, cold>>

Next == Append \/ Seal \/ Release \/ Purge

Spec == Init /\ [][Next]_trailVars
=============================================================================

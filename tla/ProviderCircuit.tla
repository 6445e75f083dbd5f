-------------------------- MODULE ProviderCircuit --------------------------
(***************************************************************************)
(* The circuit breaker of one LLM provider (adapters/llm/resilience.py):   *)
(* what the ProviderCircuitRegistry methods do to a ProviderCircuit, each  *)
(* operator from one Python call to the next.                              *)
(*                                                                         *)
(* Times are elapsed ticks instead of clock readings: `opened` is          *)
(* now - opened_at and `locked` is now - locked_at, Never when the field   *)
(* is None; both stop counting where the code stops caring.  last_error    *)
(* and the published events are left out; config.enabled is true.          *)
(***************************************************************************)
EXTENDS Integers

CONSTANTS
  FailureThreshold,   \* config.failure_threshold
  Cooldown,           \* config.cooldown_s, in ticks
  LockoutOpens,       \* config.lockout_opens
  Lockout             \* config.lockout_s, in ticks

\* from_mapping clamps every one of them to a positive value.
ASSUME ConfigAssumption ==
  /\ FailureThreshold \in Nat \ {0} /\ LockoutOpens \in Nat \ {0}
  /\ Cooldown \in Nat \ {0} /\ Lockout \in Nat \ {0}

Never == -1
CircuitState == {"closed", "open", "half_open", "locked"}

Circuit == [state : CircuitState, failures : Nat, opens : Nat,
            opened : {Never} \cup 0..Cooldown, locked : {Never} \cup 0..Lockout,
            probe : BOOLEAN]

Fresh == [state |-> "closed", failures |-> 0, opens |-> 0,
          opened |-> Never, locked |-> Never, probe |-> FALSE]

\* One tick later.
Older(c) ==
  [c EXCEPT !.opened = IF @ \in 0..(Cooldown - 1) THEN @ + 1 ELSE @,
            !.locked = IF @ \in 0..(Lockout - 1) THEN @ + 1 ELSE @]

-----------------------------------------------------------------------------
(* Slips a maintainer could make in the operators below.                   *)

\* The failures are not forgiven when the lockout expires.
SlipKeepFailures(c) ==
  CASE c.state = "locked" /\ c.locked = Lockout ->
         [c EXCEPT !.locked = Never, !.opens = 0, !.probe = FALSE]
    [] c.state = "open" /\ c.opened = Cooldown -> [c EXCEPT !.probe = FALSE]
    [] OTHER -> c

\* The lockout is compared with the cooldown.
SlipShortLockout(c) == c.state = "locked" /\ c.locked >= Cooldown

\* The cooldown is not waited for.
SlipHotProbe(c) == c.state = "open"

\* opened_at is never set.
SlipUndated(c) == [c EXCEPT !.opens = @ + 1]

\* A failure is answered without freeing the probe slot.
SlipKeepProbe(c) == [c EXCEPT !.failures = @ + 1]

-----------------------------------------------------------------------------
LockoutOver(c) == c.state = "locked" /\ c.locked = Lockout
CooledDown(c) == c.state = "open" /\ c.opened = Cooldown

\* What allow(name) would answer after its refresh.
Admits(c) ==
  \/ c.state = "closed" \/ LockoutOver(c) \/ CooledDown(c)
  \/ c.state = "half_open" /\ ~ c.probe

\* _refresh up to its _transition, and the state that is to set ("none": it
\* returns).
Lapsed(c) ==
  CASE LockoutOver(c) -> [c EXCEPT !.locked = Never, !.opens = 0,
                                   !.failures = 0, !.probe = FALSE]
    [] CooledDown(c) -> [c EXCEPT !.probe = FALSE]
    [] OTHER -> c
LapsesTo(c) ==
  CASE LockoutOver(c) -> "closed" [] CooledDown(c) -> "half_open" [] OTHER -> "none"

\* record_failure up to its _open, if there is one.
Missed(c) == [c EXCEPT !.probe = FALSE, !.failures = @ + 1]
Trips(c, permanent) ==
  c.state = "half_open" \/ permanent \/ c.failures >= FailureThreshold

\* _open: the time and the count; then the time of the lockout.
Dated(c) == [c EXCEPT !.opened = 0, !.opens = @ + 1]
LockDated(c) == [c EXCEPT !.locked = 0]

\* _transition up to the event; an equal state publishes none.
Turned(c, state) == [c EXCEPT !.state = state]

\* record_success up to its _transition, and after it.
Answered(c) == [c EXCEPT !.failures = 0, !.probe = FALSE]
Cleared(c) == [c EXCEPT !.opened = Never]
=============================================================================

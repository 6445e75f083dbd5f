---------------------------- MODULE CompositeLLM ----------------------------
(***************************************************************************)
(* CompositeLLMAdapter (adapters/llm/composite_adapter.py): a thread walks *)
(* a chain of providers through their circuit breakers until one answers,  *)
(* asks for the status, or resets circuits.  The adapter is a singleton of *)
(* the kernel's container and nothing locks the registry, so the callers   *)
(* are all the threads that share it (chat, sub-agent pool, scheduler,     *)
(* webhooks).                                                              *)
(*                                                                         *)
(* The interpreter switches threads at calls, and the registry's methods   *)
(* call each other, the clock and the event bus amid their assignments: a  *)
(* step here is the code from one such call to the next.  A clock reading  *)
(* and its use are one step.                                               *)
(***************************************************************************)
EXTENDS ProviderCircuit, Sequences, FiniteSets

CONSTANTS
  Callers,     \* threads that use the adapter
  Providers,   \* provider names
  Names,       \* the same in the order of snapshot() and reset()
  Chains,      \* what _build_chain can return
  MaxOpens     \* bound: a call starts only while every open_count is below

ASSUME ChainsAssumption ==
  /\ Names \in Seq(Providers) /\ Names # <<>>
  /\ Chains \subseteq Seq(Providers) /\ <<>> \notin Chains
ASSUME OpensAssumption == MaxOpens \in Nat

VARIABLES
  circuit,     \* provider -> its Circuit
  caller,      \* thread -> where it stands
  probing      \* history: provider -> callers that took the slot since the
               \* circuit went half-open

vars == <<circuit, caller, probing>>

\* chain: the providers from the present one on; todo: the circuits that a
\* snapshot or reset has yet to do; to: the state a _transition is about to
\* set; slot (history): this call took the probe slot.
CallerState ==
  [pc : {"idle", "allow", "decide", "snapshot", "call", "open", "lock", "trip",
         "close", "clear", "reset"},
   chain : Seq(Providers), todo : Seq(Providers),
   to : CircuitState \cup {"none"}, slot : BOOLEAN]
Idle == [pc |-> "idle", chain |-> <<>>, todo |-> <<>>, to |-> "none", slot |-> FALSE]

At(p, label) == caller[p].pc = label
Goto(p, label) == caller' = [caller EXCEPT ![p].pc = label]

\* The circuit a thread works on.
On(p) == Head(IF caller[p].todo = <<>> THEN caller[p].chain ELSE caller[p].todo)
Calling(p, q) == At(p, "call") /\ On(p) = q
Recording(p, q) == caller[p].pc \in {"open", "lock", "trip", "close"} /\ On(p) = q

\* Circuits, callers and the history keep their types, and a thread in a
\* method of the registry has a circuit to work on and the state to give it.
TypeOK ==
  /\ circuit \in [Providers -> Circuit]
  /\ caller \in [Callers -> CallerState]
  /\ \A p \in Callers :
       /\ caller[p].pc \in {"snapshot", "reset"} => caller[p].todo # <<>>
       /\ caller[p].pc \notin {"idle", "snapshot", "reset"} =>
            caller[p].chain # <<>> /\ caller[p].todo = <<>>
       /\ caller[p].pc = "trip" => caller[p].to \in {"open", "locked"}
       /\ caller[p].pc \in {"allow", "snapshot"} =>
            caller[p].to \in {"none", "closed", "half_open"}
       /\ caller[p].pc \notin {"allow", "snapshot", "trip"} => caller[p].to = "none"
  /\ probing \in [Providers -> SUBSET Callers]

\* Circuit q becomes c; one that goes half-open starts a probe period.
Update(q, c) ==
  /\ circuit' = [circuit EXCEPT ![q] = c]
  /\ probing' = [probing EXCEPT ![q] =
                   IF c.state = "half_open" /\ circuit[q].state # "half_open"
                   THEN {} ELSE @]

\* A slip: the probe is admitted but the slot not taken.
SlipProbeUncounted(p) ==
  /\ At(p, "decide")
  /\ IF circuit[On(p)].state \in {"closed", "half_open"}
     THEN /\ caller' = [caller EXCEPT ![p] = [@ EXCEPT !.pc = "call", !.slot = TRUE]]
          /\ probing' = [probing EXCEPT ![On(p)] = @ \cup {p}]
     ELSE /\ caller' = [caller EXCEPT ![p] = [@ EXCEPT !.pc = "snapshot", !.todo = Names]]
          /\ UNCHANGED probing
  /\ UNCHANGED circuit

-----------------------------------------------------------------------------
(* complete().                                                             *)

Return(p) == caller' = [caller EXCEPT ![p] = Idle]

\* continue: the next provider of the chain, or "all LLM providers failed".
Advance(p) ==
  LET rest == Tail(caller[p].chain) IN
  caller' = [caller EXCEPT ![p] =
               IF rest = <<>> THEN Idle
               ELSE [Idle EXCEPT !.pc = "allow", !.chain = rest]]

\* _build_chain picks the chain for the hint.
Complete(p) ==
  /\ At(p, "idle")
  /\ \A q \in Providers : circuit[q].opens < MaxOpens
  /\ \E chain \in Chains :
       caller' = [caller EXCEPT ![p] = [Idle EXCEPT !.pc = "allow", !.chain = chain]]
  /\ UNCHANGED <<circuit, probing>>

\* allow(), after its refresh: a half-open circuit has one probe slot; who is
\* refused takes a snapshot() for the error text.
AllowDecide(p) ==
  LET q == On(p) IN
  /\ At(p, "decide")
  /\ \/ /\ circuit[q].state = "closed"
        /\ Goto(p, "call")
        /\ UNCHANGED <<circuit, probing>>
     \/ /\ circuit[q].state = "half_open" /\ ~ circuit[q].probe
        /\ circuit' = [circuit EXCEPT ![q].probe = TRUE]
        /\ probing' = [probing EXCEPT ![q] = @ \cup {p}]
        /\ caller' = [caller EXCEPT ![p] = [@ EXCEPT !.pc = "call", !.slot = TRUE]]
     \/ /\ circuit[q].state \in {"open", "locked"} \/ circuit[q].probe
        /\ caller' = [caller EXCEPT ![p] = [@ EXCEPT !.pc = "snapshot", !.todo = Names]]
        /\ UNCHANGED <<circuit, probing>>

-----------------------------------------------------------------------------
(* _refresh, of one circuit in allow() and of each in snapshot().          *)

RefreshDone(p) ==
  LET left == Tail(caller[p].todo) IN
  \/ /\ At(p, "allow")
     /\ caller' = [caller EXCEPT ![p] = [@ EXCEPT !.pc = "decide", !.to = "none"]]
  \/ /\ At(p, "snapshot") /\ left # <<>>
     /\ caller' = [caller EXCEPT ![p] = [@ EXCEPT !.todo = left, !.to = "none"]]
  \/ /\ At(p, "snapshot") /\ left = <<>>
     /\ IF caller[p].chain = <<>> THEN Return(p) ELSE Advance(p)

RefreshBegins(p) ==
  LET c == circuit[On(p)] IN
  /\ caller[p].pc \in {"allow", "snapshot"} /\ caller[p].to = "none"
  /\ Update(On(p), Lapsed(c))
  /\ IF LapsesTo(c) = "none"
     THEN RefreshDone(p)
     ELSE caller' = [caller EXCEPT ![p].to = LapsesTo(c)]

RefreshTurns(p) ==
  /\ caller[p].pc \in {"allow", "snapshot"} /\ caller[p].to # "none"
  /\ Update(On(p), Turned(circuit[On(p)], caller[p].to))
  /\ RefreshDone(p)

-----------------------------------------------------------------------------
(* The call, and record_failure.                                           *)

\* The status of a local provider says it is not available, the adapter raises
\* (permanently for an authentication error), or returns the text of a failure.
CallFails(p) ==
  LET c == Missed(circuit[On(p)]) IN
  /\ At(p, "call")
  /\ Update(On(p), c)
  /\ \E permanent \in BOOLEAN :
       IF Trips(c, permanent)
       THEN caller' = [caller EXCEPT ![p] = [@ EXCEPT !.pc = "open", !.slot = FALSE]]
       ELSE Advance(p)

Open(p) ==
  LET c == Dated(circuit[On(p)]) IN
  /\ At(p, "open")
  /\ Update(On(p), c)
  /\ IF c.opens >= LockoutOpens
     THEN Goto(p, "lock")
     ELSE caller' = [caller EXCEPT ![p] = [@ EXCEPT !.pc = "trip", !.to = "open"]]

Lock(p) ==
  /\ At(p, "lock")
  /\ Update(On(p), LockDated(circuit[On(p)]))
  /\ caller' = [caller EXCEPT ![p] = [@ EXCEPT !.pc = "trip", !.to = "locked"]]

Trip(p) ==
  /\ At(p, "trip")
  /\ Update(On(p), Turned(circuit[On(p)], caller[p].to))
  /\ Advance(p)

-----------------------------------------------------------------------------
(* The call answers: record_success.                                       *)

CallSucceeds(p) ==
  LET c == Answered(circuit[On(p)]) IN
  /\ At(p, "call")
  /\ IF c.state = "closed"
     THEN Update(On(p), Cleared(c)) /\ Return(p)
     ELSE /\ Update(On(p), c)
          /\ caller' = [caller EXCEPT ![p] = [@ EXCEPT !.pc = "close", !.slot = FALSE]]

\* _transition; opened_at is cleared after the event it publishes.
Close(p) ==
  LET c == circuit[On(p)] IN
  /\ At(p, "close")
  /\ IF c.state = "closed"
     THEN Update(On(p), Cleared(c)) /\ Return(p)
     ELSE Update(On(p), Turned(c, "closed")) /\ Goto(p, "clear")

Clear(p) ==
  /\ At(p, "clear")
  /\ Update(On(p), Cleared(circuit[On(p)]))
  /\ Return(p)

-----------------------------------------------------------------------------
(* Operators, and time.                                                    *)

\* /llm or status(): a snapshot outside of any call.
Status(p) ==
  /\ At(p, "idle")
  /\ caller' = [caller EXCEPT ![p] = [Idle EXCEPT !.pc = "snapshot", !.todo = Names]]
  /\ UNCHANGED <<circuit, probing>>

\* /llm reset <provider>; without a name, every circuit in turn.
Reset(p) ==
  /\ At(p, "idle")
  /\ \E todo \in {<<q>> : q \in Providers} \cup {Names} :
       caller' = [caller EXCEPT ![p] = [Idle EXCEPT !.pc = "reset", !.todo = todo]]
  /\ UNCHANGED <<circuit, probing>>

ResetNext(p) ==
  /\ At(p, "reset")
  /\ Update(On(p), Fresh)
  /\ IF Tail(caller[p].todo) = <<>>
     THEN Return(p)
     ELSE caller' = [caller EXCEPT ![p].todo = Tail(@)]

Tick ==
  /\ \E q \in Providers : Older(circuit[q]) # circuit[q]
  /\ circuit' = [q \in Providers |-> Older(circuit[q])]
  /\ UNCHANGED <<caller, probing>>

Proceed(p) ==
  \/ RefreshBegins(p) \/ RefreshTurns(p) \/ AllowDecide(p)
  \/ CallFails(p) \/ Open(p) \/ Lock(p) \/ Trip(p)
  \/ CallSucceeds(p) \/ Close(p) \/ Clear(p)
  \/ ResetNext(p)

Init ==
  /\ circuit = [q \in Providers |-> Fresh]
  /\ caller = [p \in Callers |-> Idle]
  /\ probing = [q \in Providers |-> {}]

Next ==
  \/ \E p \in Callers : Complete(p) \/ Status(p) \/ Reset(p) \/ Proceed(p)
  \/ Tick

Spec == Init /\ [][Next]_vars

\* What was started goes on (every adapter has a request timeout) and time
\* passes.  Nobody has to call, look at the status or reset.
FairSpec == Spec /\ WF_vars(Tick) /\ \A p \in Callers : WF_vars(Proceed(p))

-----------------------------------------------------------------------------
(* Safety.                                                                 *)

\* A circuit never stays closed once failure_threshold failures in a row
\* were recorded, whatever reopened, expired or was reset in between: it is
\* being opened then (record_failure, _refresh).  For one thread.
ClosedBelowThreshold ==
  \A q \in Providers :
    circuit[q].state = "closed" =>
      circuit[q].failures < FailureThreshold \/ \E p \in Callers : Recording(p, q)

\* A locked circuit has been opened lockout_opens times and knows when it was
\* locked, or is being unlocked, so that no lockout is for ever (_open,
\* _refresh).  For one thread.
LockedIsDated ==
  \A q \in Providers :
    circuit[q].state = "locked" =>
      \/ circuit[q].opens >= LockoutOpens /\ circuit[q].locked # Never
      \/ \E p \in Callers : On(p) = q /\ caller[p].to = "closed"

\* The probe slot is never leaked, however many threads record, refresh and
\* reset the circuit meanwhile: a taken slot belongs to a caller that took it
\* and still waits for the provider (allow, record_success, record_failure).
SlotIsHeld ==
  \A q \in Providers :
    circuit[q].probe => \E p \in Callers : Calling(p, q) /\ caller[p].slot

\* One probe per half-open period, however many callers wait for it; another
\* can slip in only while an outcome is being recorded, between the freeing of
\* the slot and the change of state that ends the period (resilience.py:160,
\* 149 and 90).
OneProbe ==
  \A q \in Providers :
    circuit[q].state = "half_open" =>
      \/ \A p1, p2 \in probing[q] : p1 = p2
      \/ \E p \in Callers : Recording(p, q)

\* A provider that tripped is left alone for the cooldown (or the lockout,
\* if that is shorter) before it is called again.  For one thread.
CoolingIsLeftAlone ==
  [][\A p \in Callers :
       (At(p, "decide") /\ caller'[p].pc = "call") =>
         LET t == circuit[On(p)].opened IN
         t = Never \/ t >= Cooldown \/ t >= Lockout]_vars

\* A lockout ends, or is forgotten in order to end, when lockout_s is over or
\* an operator resets the circuit.  For one thread.
LockoutLasts ==
  [][\A q \in Providers :
       LET c == circuit[q]  d == circuit'[q] IN
       /\ c.state = "locked" /\ c.locked # Never
       /\ d.state # "locked" \/ d.locked = Never
       => c.locked >= Lockout \/ d = Fresh]_vars

-----------------------------------------------------------------------------
(* Liveness.                                                               *)

\* No outage of the gate is for ever: again and again a provider's circuit
\* would admit a call, with nobody resetting it.  For one thread.
OutageEnds == \A q \in Providers : []<>Admits(circuit[q])
=============================================================================

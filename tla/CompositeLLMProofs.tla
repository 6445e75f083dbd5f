------------------------- MODULE CompositeLLMProofs -------------------------
(***************************************************************************)
(* Proofs about CompositeLLM for any threads and providers, any chains and *)
(* any thresholds.  For any number of threads: the probe slot.  For one    *)
(* thread: the counters, the cooldown and the lockout.                     *)
(***************************************************************************)
EXTENDS CompositeLLM, TLAPS

(* The caller records that TypeOK allows, and the circuit one works on.    *)
CallerOK(a) ==
  /\ a \in CallerState
  /\ a.pc \in {"snapshot", "reset"} => a.todo # <<>>
  /\ a.pc \notin {"idle", "snapshot", "reset"} => a.chain # <<>> /\ a.todo = <<>>
  /\ a.pc = "trip" => a.to \in {"open", "locked"}
  /\ a.pc \in {"allow", "snapshot"} => a.to \in {"none", "closed", "half_open"}
  /\ a.pc \notin {"allow", "snapshot", "trip"} => a.to = "none"
OnOf(a) == Head(IF a.todo = <<>> THEN a.chain ELSE a.todo)

(* A step of thread p that makes c of circuit q and leaves p as b.         *)
Step(p, q, c, b) ==
  /\ q \in Providers /\ c \in Circuit /\ CallerOK(b)
  /\ Update(q, c)
  /\ caller' = [caller EXCEPT ![p] = b]

(* Where a thread waits for nothing that it has found out.                 *)
Quiet(b) ==
  b.pc \in {"idle", "allow", "decide", "snapshot", "reset"} /\ b.to = "none"

-----------------------------------------------------------------------------
(* The registry's assignments.                                             *)

(* The fields of a circuit have their types.                               *)
LEMMA CircuitTypes ==
  ASSUME NEW c \in Circuit
  PROVE  /\ c.state \in CircuitState /\ c.failures \in Nat /\ c.opens \in Nat
         /\ c.opened \in {Never} \cup 0..Cooldown
         /\ c.locked \in {Never} \cup 0..Lockout
         /\ c.probe \in BOOLEAN
BY DEF Circuit

LEMMA FreshIs == Fresh \in Circuit
BY DEF Fresh, Circuit, CircuitState

LEMMA ProbeTaken ==
  ASSUME NEW c \in Circuit
  PROVE  /\ [c EXCEPT !.probe = TRUE] \in Circuit
         /\ [c EXCEPT !.probe = TRUE].probe = TRUE
         /\ [c EXCEPT !.probe = TRUE].state = c.state
         /\ [c EXCEPT !.probe = TRUE].failures = c.failures
         /\ [c EXCEPT !.probe = TRUE].opens = c.opens
         /\ [c EXCEPT !.probe = TRUE].opened = c.opened
         /\ [c EXCEPT !.probe = TRUE].locked = c.locked
BY DEF Circuit

LEMMA MissedIs ==
  ASSUME NEW c \in Circuit
  PROVE  /\ Missed(c) \in Circuit
         /\ Missed(c).probe = FALSE /\ Missed(c).state = c.state
         /\ Missed(c).failures = c.failures + 1
         /\ Missed(c).opens = c.opens /\ Missed(c).opened = c.opened
         /\ Missed(c).locked = c.locked
<1>1. c.failures + 1 \in Nat
  BY CircuitTypes
<1> QED
  BY <1>1 DEF Missed, Circuit

LEMMA DatedIs ==
  ASSUME NEW c \in Circuit
  PROVE  /\ Dated(c) \in Circuit
         /\ Dated(c).probe = c.probe /\ Dated(c).state = c.state
         /\ Dated(c).failures = c.failures /\ Dated(c).opened = 0
         /\ Dated(c).locked = c.locked
<1>1. c.opens + 1 \in Nat /\ 0 \in 0..Cooldown
  BY CircuitTypes, ConfigAssumption
<1> QED
  BY <1>1 DEF Dated, Circuit

LEMMA LockDatedIs ==
  ASSUME NEW c \in Circuit
  PROVE  /\ LockDated(c) \in Circuit
         /\ LockDated(c).probe = c.probe /\ LockDated(c).state = c.state
         /\ LockDated(c).opens = c.opens /\ LockDated(c).opened = c.opened
         /\ LockDated(c).locked = 0
<1>1. 0 \in 0..Lockout
  BY ConfigAssumption
<1> QED
  BY <1>1 DEF LockDated, Circuit

LEMMA TurnedIs ==
  ASSUME NEW c \in Circuit, NEW state \in CircuitState
  PROVE  /\ Turned(c, state) \in Circuit
         /\ Turned(c, state).state = state
         /\ Turned(c, state).probe = c.probe
         /\ Turned(c, state).failures = c.failures
         /\ Turned(c, state).opens = c.opens
         /\ Turned(c, state).opened = c.opened
         /\ Turned(c, state).locked = c.locked
BY DEF Turned, Circuit

LEMMA AnsweredIs ==
  ASSUME NEW c \in Circuit
  PROVE  /\ Answered(c) \in Circuit
         /\ Answered(c).state = c.state /\ Answered(c).probe = FALSE
         /\ Answered(c).failures = 0 /\ Answered(c).opened = c.opened
         /\ Answered(c).opens = c.opens /\ Answered(c).locked = c.locked
BY DEF Answered, Circuit

LEMMA ClearedIs ==
  ASSUME NEW c \in Circuit
  PROVE  /\ Cleared(c) \in Circuit
         /\ Cleared(c).state = c.state /\ Cleared(c).probe = c.probe
         /\ Cleared(c).failures = c.failures /\ Cleared(c).opened = Never
         /\ Cleared(c).opens = c.opens /\ Cleared(c).locked = c.locked
BY DEF Cleared, Circuit

(* What _refresh finds, and what it prepares.                              *)
LEMMA LapsedIs ==
  ASSUME NEW c \in Circuit
  PROVE  /\ Lapsed(c) \in Circuit
         /\ Lapsed(c).state = c.state /\ Lapsed(c).opened = c.opened
         /\ Lapsed(c).probe => c.probe
         /\ \/ /\ LapsesTo(c) = "none" /\ Lapsed(c) = c
            \/ /\ LapsesTo(c) = "closed"
               /\ c.state = "locked" /\ c.locked = Lockout
               /\ Lapsed(c).locked = Never /\ Lapsed(c).failures = 0
            \/ /\ LapsesTo(c) = "half_open"
               /\ c.state = "open" /\ c.opened = Cooldown
<1>1. CASE LockoutOver(c)
  <2>1. /\ LapsesTo(c) = "closed"
        /\ Lapsed(c) = [c EXCEPT !.locked = Never, !.opens = 0,
                                 !.failures = 0, !.probe = FALSE]
    BY <1>1 DEF LapsesTo, Lapsed, CooledDown, LockoutOver
  <2>2. c.state = "locked" /\ c.locked = Lockout
    BY <1>1 DEF LockoutOver
  <2>3. Never \in {Never} \cup 0..Lockout /\ 0 \in Nat
    OBVIOUS
  <2>4. Lapsed(c) \in Circuit
    BY <2>1, <2>3 DEF Circuit
  <2>5. /\ Lapsed(c).state = c.state /\ Lapsed(c).opened = c.opened
        /\ Lapsed(c).probe = FALSE
        /\ Lapsed(c).locked = Never /\ Lapsed(c).failures = 0
    BY <2>1 DEF Circuit
  <2> QED
    BY <2>1, <2>2, <2>4, <2>5
<1>2. CASE ~ LockoutOver(c) /\ CooledDown(c)
  <2>1. LapsesTo(c) = "half_open" /\ Lapsed(c) = [c EXCEPT !.probe = FALSE]
    BY <1>2 DEF LapsesTo, Lapsed
  <2> QED
    BY <1>2, <2>1 DEF CooledDown, Circuit
<1>3. CASE ~ LockoutOver(c) /\ ~ CooledDown(c)
  BY <1>3 DEF LapsesTo, Lapsed
<1> QED
  BY <1>1, <1>2, <1>3

(* Time moves the clocks of a circuit and nothing else.                    *)
LEMMA OlderIs ==
  ASSUME NEW c \in Circuit
  PROVE  /\ Older(c) \in Circuit
         /\ Older(c).state = c.state /\ Older(c).probe = c.probe
         /\ Older(c).failures = c.failures /\ Older(c).opens = c.opens
         /\ Older(c).opened = IF c.opened \in 0..(Cooldown - 1) THEN c.opened + 1 ELSE c.opened
         /\ Older(c).locked = IF c.locked \in 0..(Lockout - 1) THEN c.locked + 1 ELSE c.locked
<1>1. \A b \in Nat \ {0} : \A t \in {Never} \cup 0..b :
        (IF t \in 0..(b - 1) THEN t + 1 ELSE t) \in {Never} \cup 0..b
  BY DEF Never
<1> QED
  BY <1>1, CircuitTypes, ConfigAssumption DEF Older, Circuit


-----------------------------------------------------------------------------
(* Steps.                                                                  *)

(* A sequence that is not empty has a head in its set and a tail.          *)
LEMMA Sequence ==
  ASSUME NEW S, NEW s \in Seq(S), s # <<>>
  PROVE  Head(s) \in S /\ Tail(s) \in Seq(S)
OBVIOUS

(* A thread in a method of the registry has a circuit to work on.          *)
LEMMA OnIs ==
  ASSUME NEW a, CallerOK(a), a.pc # "idle"
  PROVE  OnOf(a) \in Providers
<1>1. a.chain \in Seq(Providers) /\ a.todo \in Seq(Providers)
  BY DEF CallerOK, CallerState
<1>2. CASE a.todo # <<>>
  BY <1>1, <1>2, Sequence DEF OnOf
<1>3. CASE a.todo = <<>>
  <2>1. a.chain # <<>>
    BY <1>3 DEF CallerOK
  <2> QED
    BY <1>1, <1>3, <2>1, Sequence DEF OnOf
<1> QED
  BY <1>2, <1>3

LEMMA CallerTyped ==
  ASSUME TypeOK, NEW p \in Callers
  PROVE  /\ CallerOK(caller[p]) /\ On(p) = OnOf(caller[p])
         /\ \A q \in Providers : circuit[q] \in Circuit
         /\ caller[p].pc # "idle" => On(p) \in Providers
<1>1. CallerOK(caller[p])
  BY DEF TypeOK, CallerOK, At
<1>2. On(p) = OnOf(caller[p])
  BY DEF On, OnOf
<1>3. \A q \in Providers : circuit[q] \in Circuit
  BY DEF TypeOK
<1> QED
  BY <1>1, <1>2, <1>3, OnIs

(* A step that changes no circuit.                                         *)
LEMMA NoUpdate ==
  ASSUME TypeOK, NEW q \in Providers, UNCHANGED <<circuit, probing>>
  PROVE  Update(q, circuit[q])
<1>1. [circuit EXCEPT ![q] = circuit[q]] = circuit
  BY DEF TypeOK
<1>2. [probing EXCEPT ![q] = probing[q]] = probing
  BY DEF TypeOK
<1> QED
  BY <1>1, <1>2 DEF Update

LEMMA StepFacts ==
  ASSUME TypeOK, NEW p \in Callers, NEW q, NEW c, NEW b, Step(p, q, c, b)
  PROVE  /\ TypeOK'
         /\ circuit'[q] = c /\ caller'[p] = b
         /\ \A r \in Providers : r # q => circuit'[r] = circuit[r] /\ probing'[r] = probing[r]
         /\ \A r \in Callers : r # p => caller'[r] = caller[r]
         /\ probing'[q] = IF c.state = "half_open" /\ circuit[q].state # "half_open"
                          THEN {} ELSE probing[q]
<1>1. /\ circuit \in [Providers -> Circuit] /\ caller \in [Callers -> CallerState]
      /\ probing \in [Providers -> SUBSET Callers]
  BY DEF TypeOK
<1>2. /\ q \in Providers /\ c \in Circuit /\ CallerOK(b) /\ b \in CallerState
      /\ circuit' = [circuit EXCEPT ![q] = c]
      /\ caller' = [caller EXCEPT ![p] = b]
      /\ probing' = [probing EXCEPT ![q] =
                       IF c.state = "half_open" /\ circuit[q].state # "half_open"
                       THEN {} ELSE probing[q]]
  BY DEF Step, Update, CallerOK
<1>3. /\ circuit' \in [Providers -> Circuit] /\ caller' \in [Callers -> CallerState]
      /\ probing' \in [Providers -> SUBSET Callers]
  BY <1>1, <1>2
<1>4. /\ circuit'[q] = c /\ caller'[p] = b
      /\ \A r \in Providers : r # q => circuit'[r] = circuit[r] /\ probing'[r] = probing[r]
      /\ \A r \in Callers : r # p => caller'[r] = caller[r]
      /\ probing'[q] = IF c.state = "half_open" /\ circuit[q].state # "half_open"
                       THEN {} ELSE probing[q]
  BY <1>1, <1>2
<1>5. \A r \in Callers : CallerOK(caller'[r])
  BY <1>2, <1>4, CallerTyped
<1>6. TypeOK'
  BY <1>3, <1>5 DEF TypeOK, CallerOK, At
<1> QED
  BY <1>4, <1>6

(* A thread on its way to the next provider, or done.                      *)
LEMMA IdleIs == CallerOK(Idle) /\ Quiet(Idle)
<1>1. <<>> \in Seq(Providers)
  OBVIOUS
<1> QED
  BY <1>1 DEF Idle, CallerOK, CallerState, Quiet

LEMMA AdvanceIs ==
  ASSUME TypeOK, NEW p \in Callers, caller[p].chain # <<>>, Advance(p)
  PROVE  \E b : CallerOK(b) /\ Quiet(b) /\ caller' = [caller EXCEPT ![p] = b]
<1> DEFINE rest == Tail(caller[p].chain)
<1>1. rest \in Seq(Providers)
  BY Sequence DEF TypeOK, CallerState
<1>2. CASE rest = <<>>
  BY <1>2, IdleIs DEF Advance
<1>3. CASE rest # <<>>
  <2> DEFINE b == [Idle EXCEPT !.pc = "allow", !.chain = rest]
  <2>1. Idle \in CallerState /\ Idle.todo = <<>> /\ Idle.to = "none"
    BY IdleIs DEF CallerOK, Idle
  <2>2. CallerOK(b) /\ Quiet(b)
    <3> HIDE DEF rest
    <3> QED
      BY <1>1, <1>3, <2>1 DEF CallerOK, CallerState, Quiet
  <2>3. caller' = [caller EXCEPT ![p] = b]
    BY <1>3 DEF Advance
  <2> HIDE DEF b
  <2> QED
    BY <2>2, <2>3
<1> QED
  BY <1>2, <1>3

LEMMA ReturnIs ==
  ASSUME NEW p \in Callers, Return(p)
  PROVE  caller' = [caller EXCEPT ![p] = Idle] /\ CallerOK(Idle) /\ Quiet(Idle)
BY IdleIs DEF Return

(* The end of a refresh.                                                   *)
LEMMA RefreshDoneIs ==
  ASSUME TypeOK, NEW p \in Callers, caller[p].pc \in {"allow", "snapshot"}, RefreshDone(p)
  PROVE  \E b : CallerOK(b) /\ Quiet(b) /\ caller' = [caller EXCEPT ![p] = b]
<1> DEFINE left == Tail(caller[p].todo)
<1>1. /\ caller[p] \in CallerState /\ CallerOK(caller[p])
  BY CallerTyped DEF CallerOK
<1>2. CASE At(p, "allow")
  <2> DEFINE b == [caller[p] EXCEPT !.pc = "decide", !.to = "none"]
  <2>1. CallerOK(b) /\ Quiet(b)
    BY <1>1, <1>2 DEF CallerOK, CallerState, Quiet, At
  <2>2. caller' = [caller EXCEPT ![p] = b]
    BY <1>2 DEF RefreshDone, At
  <2> HIDE DEF b
  <2> QED
    BY <2>1, <2>2
<1>3. CASE At(p, "snapshot") /\ left # <<>>
  <2> DEFINE b == [caller[p] EXCEPT !.todo = left, !.to = "none"]
  <2>1. left \in Seq(Providers)
    <3>1. caller[p].todo # <<>> /\ caller[p].todo \in Seq(Providers)
      BY <1>1, <1>3 DEF At, CallerOK, CallerState
    <3> QED
      BY <3>1, Sequence
  <2>2. CallerOK(b) /\ Quiet(b)
    <3> HIDE DEF left
    <3> QED
      BY <1>1, <1>3, <2>1 DEF CallerOK, CallerState, Quiet, At
  <2>3. caller' = [caller EXCEPT ![p] = b]
    BY <1>1, <1>3 DEF RefreshDone, At
  <2> HIDE DEF b
  <2> QED
    BY <2>2, <2>3
<1>4. CASE /\ At(p, "snapshot") /\ left = <<>>
           /\ IF caller[p].chain = <<>> THEN Return(p) ELSE Advance(p)
  <2>1. CASE caller[p].chain = <<>>
    BY <1>4, <2>1, ReturnIs
  <2>2. CASE caller[p].chain # <<>>
    BY <1>4, <2>2, AdvanceIs
  <2> QED
    BY <2>1, <2>2
<1> QED
  BY <1>2, <1>3, <1>4 DEF RefreshDone

-----------------------------------------------------------------------------
(* What each action does: the circuit it writes, and where its thread is.  *)

LEMMA StartIs ==
  ASSUME TypeOK, NEW p \in Callers, Complete(p) \/ Status(p) \/ Reset(p)
  PROVE  \E b : /\ At(p, "idle") /\ Quiet(b) /\ b.pc # "idle"
                /\ Step(p, OnOf(b), circuit[OnOf(b)], b)
<1> USE CallerTyped
<1>1. /\ At(p, "idle") /\ UNCHANGED <<circuit, probing>>
      /\ caller[p] \in CallerState
  BY DEF Complete, Status, Reset, TypeOK
<1>2. ASSUME NEW b, CallerOK(b), Quiet(b), b.pc # "idle", caller' = [caller EXCEPT ![p] = b]
      PROVE  /\ At(p, "idle") /\ Quiet(b) /\ b.pc # "idle"
             /\ Step(p, OnOf(b), circuit[OnOf(b)], b)
  <2>1. OnOf(b) \in Providers
    BY <1>2, OnIs
  <2>2. circuit[OnOf(b)] \in Circuit
    BY <2>1
  <2>3. Update(OnOf(b), circuit[OnOf(b)])
    BY <1>1, <2>1, NoUpdate
  <2> QED
    BY <1>1, <1>2, <2>1, <2>2, <2>3 DEF Step
<1>3. CASE Complete(p)
  <2>1. PICK chain \in Chains :
          caller' = [caller EXCEPT ![p] = [Idle EXCEPT !.pc = "allow", !.chain = chain]]
    BY <1>3 DEF Complete
  <2> DEFINE b == [Idle EXCEPT !.pc = "allow", !.chain = chain]
  <2>2. chain \in Seq(Providers) /\ chain # <<>>
    BY ChainsAssumption
  <2>3. Idle \in CallerState /\ Idle.todo = <<>> /\ Idle.to = "none"
    BY IdleIs DEF CallerOK, Idle
  <2>4. CallerOK(b) /\ Quiet(b) /\ b.pc # "idle"
    BY <2>2, <2>3 DEF CallerOK, CallerState, Quiet
  <2>5. caller' = [caller EXCEPT ![p] = b]
    BY <2>1
  <2> HIDE DEF b
  <2> QED
    BY <1>2, <2>4, <2>5
<1>4. CASE Status(p) \/ Reset(p)
  <2>1. PICK pc \in {"snapshot", "reset"}, todo \in Seq(Providers) :
          /\ todo # <<>>
          /\ caller' = [caller EXCEPT ![p] = [Idle EXCEPT !.pc = pc, !.todo = todo]]
    <3>1. CASE Status(p)
      BY <3>1, ChainsAssumption DEF Status
    <3>2. CASE Reset(p)
      <4>1. \A q \in Providers : <<q>> \in Seq(Providers) /\ <<q>> # <<>>
        OBVIOUS
      <4>2. \A todo \in {<<q>> : q \in Providers} \cup {Names} :
              todo \in Seq(Providers) /\ todo # <<>>
        BY <4>1, ChainsAssumption
      <4> QED
        BY <3>2, <4>2 DEF Reset
    <3> QED
      BY <1>4, <3>1, <3>2
  <2> DEFINE b == [Idle EXCEPT !.pc = pc, !.todo = todo]
  <2>2. Idle \in CallerState /\ Idle.to = "none"
    BY IdleIs DEF CallerOK, Idle
  <2>3. CallerOK(b) /\ Quiet(b) /\ b.pc # "idle"
    BY <2>1, <2>2 DEF CallerOK, CallerState, Quiet
  <2>4. caller' = [caller EXCEPT ![p] = b]
    BY <2>1
  <2> HIDE DEF b
  <2> QED
    BY <1>2, <2>3, <2>4
<1> QED
  BY <1>3, <1>4

(* A refusal, the admission of a closed circuit, and that of a probe.      *)
LEMMA RefusalIs ==
  ASSUME TypeOK, NEW p \in Callers, At(p, "decide"), UNCHANGED <<circuit, probing>>,
         caller' = [caller EXCEPT ![p] = [@ EXCEPT !.pc = "snapshot", !.todo = Names]]
  PROVE  \E b : Quiet(b) /\ b.pc # "idle" /\ Step(p, OnOf(b), circuit[OnOf(b)], b)
<1> DEFINE b == [caller[p] EXCEPT !.pc = "snapshot", !.todo = Names]
<1>1. CallerOK(caller[p]) /\ caller[p] \in CallerState
  BY CallerTyped DEF CallerOK
<1>2. CallerOK(b) /\ Quiet(b) /\ b.pc # "idle"
  BY <1>1, ChainsAssumption DEF CallerOK, CallerState, Quiet, At
<1>3. caller' = [caller EXCEPT ![p] = b]
  OBVIOUS
<1> HIDE DEF b
<1>4. OnOf(b) \in Providers
  BY <1>2, OnIs
<1>5. circuit[OnOf(b)] \in Circuit /\ Update(OnOf(b), circuit[OnOf(b)])
  BY <1>4, NoUpdate, CallerTyped
<1> QED
  BY <1>2, <1>3, <1>4, <1>5 DEF Step

(* Admission and refusal.                                                  *)
LEMMA AdmitIs ==
  ASSUME TypeOK, NEW p \in Callers, AllowDecide(p)
  PROVE  LET q == On(p) IN
         \/ /\ circuit[q].state = "closed"
            /\ \E b : b.pc = "call" /\ OnOf(b) = q /\ Step(p, q, circuit[q], b)
         \/ /\ circuit[q].state = "half_open" /\ ~ circuit[q].probe
            /\ \E b : /\ b.pc = "call" /\ OnOf(b) = q /\ b.slot /\ CallerOK(b)
                      /\ caller' = [caller EXCEPT ![p] = b]
            /\ circuit' = [circuit EXCEPT ![q].probe = TRUE]
            /\ probing' = [probing EXCEPT ![q] = @ \cup {p}]
         \/ \E b : Quiet(b) /\ b.pc # "idle" /\ Step(p, OnOf(b), circuit[OnOf(b)], b)
<1> DEFINE q == On(p)
<1>1. At(p, "decide") /\ CallerOK(caller[p]) /\ q \in Providers /\ q = OnOf(caller[p])
  BY CallerTyped DEF AllowDecide, At
<1>2. CASE circuit[q].state = "closed" /\ Goto(p, "call") /\ UNCHANGED <<circuit, probing>>
  <2> DEFINE b == [caller[p] EXCEPT !.pc = "call"]
  <2>1. CallerOK(b) /\ b.pc = "call" /\ OnOf(b) = OnOf(caller[p])
    BY <1>1 DEF CallerOK, CallerState, OnOf, At
  <2>2. caller' = [caller EXCEPT ![p] = b]
    BY <1>2 DEF Goto
  <2> HIDE DEF b
  <2>3. circuit[q] \in Circuit /\ Update(q, circuit[q])
    BY <1>1, <1>2, NoUpdate, CallerTyped
  <2>4. b.pc = "call" /\ OnOf(b) = q /\ Step(p, q, circuit[q], b)
    BY <1>1, <2>1, <2>2, <2>3 DEF Step
  <2> QED
    BY <1>2, <2>4
<1>3. CASE /\ circuit[q].state = "half_open" /\ ~ circuit[q].probe
           /\ circuit' = [circuit EXCEPT ![q].probe = TRUE]
           /\ probing' = [probing EXCEPT ![q] = @ \cup {p}]
           /\ caller' = [caller EXCEPT ![p] = [@ EXCEPT !.pc = "call", !.slot = TRUE]]
  <2> DEFINE b == [caller[p] EXCEPT !.pc = "call", !.slot = TRUE]
  <2>1. CallerOK(b) /\ b.pc = "call" /\ OnOf(b) = OnOf(caller[p]) /\ b.slot
    BY <1>1 DEF CallerOK, CallerState, OnOf, At
  <2>2. caller' = [caller EXCEPT ![p] = b]
    BY <1>3
  <2> HIDE DEF b
  <2>3. \E x : /\ x.pc = "call" /\ OnOf(x) = q /\ x.slot /\ CallerOK(x)
               /\ caller' = [caller EXCEPT ![p] = x]
    BY <1>1, <2>1, <2>2
  <2> QED
    BY <1>3, <2>3
<1>4. CASE /\ caller' = [caller EXCEPT ![p] = [@ EXCEPT !.pc = "snapshot", !.todo = Names]]
           /\ UNCHANGED <<circuit, probing>>
  BY <1>1, <1>4, RefusalIs
<1> QED
  BY <1>2, <1>3, <1>4 DEF AllowDecide

(* _refresh.                                                               *)
LEMMA BeginsIs ==
  ASSUME TypeOK, NEW p \in Callers, RefreshBegins(p)
  PROVE  LET q == On(p)  c == circuit[q] IN
         /\ caller[p].pc \in {"allow", "snapshot"} /\ caller[p].to = "none"
         /\ q \in Providers /\ c \in Circuit
         /\ \E b : /\ Step(p, q, Lapsed(c), b)
                   /\ IF LapsesTo(c) = "none" THEN Quiet(b)
                      ELSE /\ b.pc \in {"allow", "snapshot"} /\ b.to = LapsesTo(c)
                           /\ OnOf(b) = q
<1> DEFINE q == On(p)  c == circuit[q]
<1>1. /\ caller[p].pc \in {"allow", "snapshot"} /\ caller[p].to = "none"
      /\ Update(q, Lapsed(c))
      /\ IF LapsesTo(c) = "none" THEN RefreshDone(p)
         ELSE caller' = [caller EXCEPT ![p].to = LapsesTo(c)]
  BY DEF RefreshBegins
<1>2. /\ CallerOK(caller[p]) /\ q \in Providers /\ q = OnOf(caller[p]) /\ c \in Circuit
  BY <1>1, CallerTyped
<1>3. Lapsed(c) \in Circuit /\ LapsesTo(c) \in {"none", "closed", "half_open"}
  BY <1>2, LapsedIs
<1>4. CASE LapsesTo(c) = "none"
  <2>1. PICK b : CallerOK(b) /\ Quiet(b) /\ caller' = [caller EXCEPT ![p] = b]
    BY <1>1, <1>4, RefreshDoneIs
  <2>2. Step(p, q, Lapsed(c), b)
    BY <1>1, <1>2, <1>3, <2>1 DEF Step
  <2> QED
    BY <1>1, <1>2, <1>4, <2>1, <2>2
<1>5. CASE LapsesTo(c) # "none"
  <2> DEFINE b == [caller[p] EXCEPT !.to = LapsesTo(c)]
  <2>1. /\ CallerOK(b) /\ b.pc \in {"allow", "snapshot"} /\ b.to = LapsesTo(c)
        /\ OnOf(b) = q
    <3> HIDE DEF c, q
    <3> QED
      BY <1>1, <1>2, <1>3, <1>5 DEF CallerOK, CallerState, CircuitState, OnOf
  <2>2. caller' = [caller EXCEPT ![p] = b]
    BY <1>1, <1>5
  <2> HIDE DEF b
  <2>3. Step(p, q, Lapsed(c), b)
    BY <1>1, <1>2, <1>3, <2>1, <2>2 DEF Step
  <2> QED
    BY <1>1, <1>2, <1>5, <2>1, <2>3
<1> QED
  BY <1>4, <1>5

LEMMA TurnsIs ==
  ASSUME TypeOK, NEW p \in Callers, RefreshTurns(p)
  PROVE  LET q == On(p)  to == caller[p].to IN
         /\ caller[p].pc \in {"allow", "snapshot"} /\ to \in {"closed", "half_open"}
         /\ q \in Providers /\ circuit[q] \in Circuit
         /\ \E b : Quiet(b) /\ Step(p, q, Turned(circuit[q], to), b)
<1> DEFINE q == On(p)  to == caller[p].to
<1>1. /\ caller[p].pc \in {"allow", "snapshot"} /\ to # "none"
      /\ Update(q, Turned(circuit[q], to)) /\ RefreshDone(p)
  BY DEF RefreshTurns
<1>2. /\ to \in {"closed", "half_open"} /\ q \in Providers /\ circuit[q] \in Circuit
  BY <1>1, CallerTyped DEF CallerOK
<1>3. Turned(circuit[q], to) \in Circuit
  BY <1>2, TurnedIs DEF CircuitState
<1>4. PICK b : CallerOK(b) /\ Quiet(b) /\ caller' = [caller EXCEPT ![p] = b]
  BY <1>1, RefreshDoneIs
<1>5. Step(p, q, Turned(circuit[q], to), b)
  BY <1>1, <1>2, <1>3, <1>4 DEF Step
<1> QED
  BY <1>1, <1>2, <1>4, <1>5

(* A thread that goes on to another step of the same method.               *)
LEMMA GoesOnIs ==
  ASSUME TypeOK, NEW p \in Callers, NEW c, NEW b, CallerOK(b),
         At(p, "call") \/ At(p, "open") \/ At(p, "lock") \/ At(p, "close"),
         b.chain = caller[p].chain, b.todo = caller[p].todo,
         c \in Circuit, Update(On(p), c), caller' = [caller EXCEPT ![p] = b]
  PROVE  On(p) \in Providers /\ OnOf(b) = On(p) /\ Step(p, On(p), c, b)
<1>1. On(p) \in Providers
  BY CallerTyped DEF At
<1>2. OnOf(b) = On(p)
  BY DEF OnOf, On
<1> QED
  BY <1>1, <1>2 DEF Step

(* record_failure.                                                         *)
LEMMA FailsIs ==
  ASSUME TypeOK, NEW p \in Callers, CallFails(p)
  PROVE  LET q == On(p)  c == Missed(circuit[q]) IN
         /\ At(p, "call") /\ q \in Providers /\ circuit[q] \in Circuit
         /\ \E b : \E permanent \in BOOLEAN :
              /\ Step(p, q, c, b)
              /\ IF Trips(c, permanent) THEN b.pc = "open" /\ OnOf(b) = q ELSE Quiet(b)
<1> DEFINE q == On(p)  c == Missed(circuit[q])
<1>1. PICK permanent \in BOOLEAN :
        /\ At(p, "call") /\ Update(q, c)
        /\ IF Trips(c, permanent)
           THEN caller' = [caller EXCEPT ![p] = [@ EXCEPT !.pc = "open", !.slot = FALSE]]
           ELSE Advance(p)
  BY DEF CallFails
<1>2. /\ CallerOK(caller[p]) /\ q \in Providers /\ circuit[q] \in Circuit
      /\ caller[p].chain # <<>>
  BY <1>1, CallerTyped DEF At, CallerOK
<1>3. c \in Circuit
  BY <1>2, MissedIs
<1>4. CASE Trips(c, permanent)
  <2> DEFINE b == [caller[p] EXCEPT !.pc = "open", !.slot = FALSE]
  <2>1. /\ CallerOK(b) /\ b.pc = "open"
        /\ b.chain = caller[p].chain /\ b.todo = caller[p].todo
    BY <1>1, <1>2 DEF CallerOK, CallerState, At
  <2>2. caller' = [caller EXCEPT ![p] = b]
    BY <1>1, <1>4
  <2> HIDE DEF b, c
  <2>3. OnOf(b) = q /\ Step(p, q, c, b)
    BY <1>1, <1>3, <2>1, <2>2, GoesOnIs
  <2> QED
    BY <1>1, <1>2, <1>4, <2>1, <2>3 DEF c
<1>5. CASE ~ Trips(c, permanent)
  <2>1. PICK b : CallerOK(b) /\ Quiet(b) /\ caller' = [caller EXCEPT ![p] = b]
    BY <1>1, <1>2, <1>5, AdvanceIs
  <2>2. Step(p, q, c, b)
    BY <1>1, <1>2, <1>3, <2>1 DEF Step
  <2> QED
    BY <1>1, <1>2, <1>5, <2>1, <2>2
<1> QED
  BY <1>4, <1>5

LEMMA OpenIs ==
  ASSUME TypeOK, NEW p \in Callers, Open(p)
  PROVE  LET q == On(p)  c == Dated(circuit[q]) IN
         /\ At(p, "open") /\ q \in Providers /\ circuit[q] \in Circuit
         /\ \E b : /\ Step(p, q, c, b) /\ OnOf(b) = q
                   /\ \/ b.pc = "lock" /\ c.opens >= LockoutOpens
                      \/ b.pc = "trip" /\ b.to = "open"
<1> DEFINE q == On(p)  c == Dated(circuit[q])
<1>1. /\ At(p, "open") /\ Update(q, c)
      /\ IF c.opens >= LockoutOpens THEN Goto(p, "lock")
         ELSE caller' = [caller EXCEPT ![p] = [@ EXCEPT !.pc = "trip", !.to = "open"]]
  BY DEF Open
<1>2. CallerOK(caller[p]) /\ q \in Providers /\ circuit[q] \in Circuit
  BY <1>1, CallerTyped DEF At
<1>3. c \in Circuit
  BY <1>2, DatedIs
<1>4. CASE c.opens >= LockoutOpens
  <2> DEFINE b == [caller[p] EXCEPT !.pc = "lock"]
  <2>1. /\ CallerOK(b) /\ b.pc = "lock"
        /\ b.chain = caller[p].chain /\ b.todo = caller[p].todo
    BY <1>1, <1>2 DEF CallerOK, CallerState, At
  <2>2. caller' = [caller EXCEPT ![p] = b]
    BY <1>1, <1>4 DEF Goto
  <2> HIDE DEF b, c
  <2>3. OnOf(b) = q /\ Step(p, q, c, b)
    BY <1>1, <1>3, <2>1, <2>2, GoesOnIs
  <2> QED
    BY <1>1, <1>2, <1>4, <2>1, <2>3 DEF c
<1>5. CASE ~ (c.opens >= LockoutOpens)
  <2> DEFINE b == [caller[p] EXCEPT !.pc = "trip", !.to = "open"]
  <2>1. /\ CallerOK(b) /\ b.pc = "trip" /\ b.to = "open"
        /\ b.chain = caller[p].chain /\ b.todo = caller[p].todo
    BY <1>1, <1>2 DEF CallerOK, CallerState, CircuitState, At
  <2>2. caller' = [caller EXCEPT ![p] = b]
    BY <1>1, <1>5
  <2> HIDE DEF b, c
  <2>3. OnOf(b) = q /\ Step(p, q, c, b)
    BY <1>1, <1>3, <2>1, <2>2, GoesOnIs
  <2> QED
    BY <1>1, <1>2, <2>1, <2>3 DEF c
<1> QED
  BY <1>4, <1>5

LEMMA LockIs ==
  ASSUME TypeOK, NEW p \in Callers, Lock(p)
  PROVE  LET q == On(p) IN
         /\ At(p, "lock") /\ q \in Providers /\ circuit[q] \in Circuit
         /\ \E b : /\ Step(p, q, LockDated(circuit[q]), b) /\ OnOf(b) = q
                   /\ b.pc = "trip" /\ b.to = "locked"
<1> DEFINE q == On(p)  c == LockDated(circuit[q])
           b == [caller[p] EXCEPT !.pc = "trip", !.to = "locked"]
<1>1. At(p, "lock") /\ Update(q, c) /\ caller' = [caller EXCEPT ![p] = b]
  BY DEF Lock
<1>2. CallerOK(caller[p]) /\ q \in Providers /\ circuit[q] \in Circuit
  BY <1>1, CallerTyped DEF At
<1>3. c \in Circuit
  BY <1>2, LockDatedIs
<1>4. /\ CallerOK(b) /\ b.pc = "trip" /\ b.to = "locked"
      /\ b.chain = caller[p].chain /\ b.todo = caller[p].todo
  BY <1>1, <1>2 DEF CallerOK, CallerState, CircuitState, At
<1> HIDE DEF b, c
<1>5. OnOf(b) = q /\ Step(p, q, c, b)
  BY <1>1, <1>3, <1>4, GoesOnIs
<1> QED
  BY <1>1, <1>2, <1>4, <1>5 DEF c

LEMMA TripIs ==
  ASSUME TypeOK, NEW p \in Callers, Trip(p)
  PROVE  LET q == On(p)  to == caller[p].to IN
         /\ At(p, "trip") /\ to \in {"open", "locked"}
         /\ q \in Providers /\ circuit[q] \in Circuit
         /\ \E b : Quiet(b) /\ Step(p, q, Turned(circuit[q], to), b)
<1> DEFINE q == On(p)  c == Turned(circuit[q], caller[p].to)
<1>1. At(p, "trip") /\ Update(q, c) /\ Advance(p)
  BY DEF Trip
<1>2. /\ caller[p].to \in {"open", "locked"} /\ q \in Providers /\ circuit[q] \in Circuit
      /\ caller[p].chain # <<>>
  BY <1>1, CallerTyped DEF At, CallerOK
<1>3. c \in Circuit
  BY <1>2, TurnedIs DEF CircuitState
<1>4. PICK b : CallerOK(b) /\ Quiet(b) /\ caller' = [caller EXCEPT ![p] = b]
  BY <1>1, <1>2, AdvanceIs
<1>5. Step(p, q, c, b)
  BY <1>1, <1>2, <1>3, <1>4 DEF Step
<1> QED
  BY <1>1, <1>2, <1>4, <1>5

(* record_success.                                                         *)
LEMMA SucceedsIs ==
  ASSUME TypeOK, NEW p \in Callers, CallSucceeds(p)
  PROVE  LET q == On(p)  c == Answered(circuit[q]) IN
         /\ At(p, "call") /\ q \in Providers /\ circuit[q] \in Circuit
         /\ \E b : \/ /\ circuit[q].state = "closed" /\ Quiet(b)
                      /\ Step(p, q, Cleared(c), b)
                   \/ /\ circuit[q].state # "closed" /\ b.pc = "close" /\ OnOf(b) = q
                      /\ Step(p, q, c, b)
<1> DEFINE q == On(p)  c == Answered(circuit[q])
<1>1. /\ At(p, "call")
      /\ IF c.state = "closed" THEN Update(q, Cleared(c)) /\ Return(p)
         ELSE /\ Update(q, c)
              /\ caller' = [caller EXCEPT ![p] = [@ EXCEPT !.pc = "close", !.slot = FALSE]]
  BY DEF CallSucceeds
<1>2. CallerOK(caller[p]) /\ q \in Providers /\ circuit[q] \in Circuit
  BY <1>1, CallerTyped DEF At
<1>3. c \in Circuit /\ c.state = circuit[q].state
  BY <1>2, AnsweredIs
<1>4. CASE c.state = "closed"
  <2>1. Cleared(c) \in Circuit
    BY <1>3, ClearedIs
  <2>2. caller' = [caller EXCEPT ![p] = Idle] /\ CallerOK(Idle) /\ Quiet(Idle)
    BY <1>1, <1>4, ReturnIs
  <2>3. Step(p, q, Cleared(c), Idle)
    BY <1>1, <1>2, <1>4, <2>1, <2>2 DEF Step
  <2> QED
    BY <1>1, <1>2, <1>3, <1>4, <2>2, <2>3
<1>5. CASE c.state # "closed"
  <2> DEFINE b == [caller[p] EXCEPT !.pc = "close", !.slot = FALSE]
  <2>1. /\ CallerOK(b) /\ b.pc = "close"
        /\ b.chain = caller[p].chain /\ b.todo = caller[p].todo
    BY <1>1, <1>2 DEF CallerOK, CallerState, At
  <2>2. caller' = [caller EXCEPT ![p] = b] /\ Update(q, c)
    BY <1>1, <1>5
  <2> HIDE DEF b, c
  <2>3. OnOf(b) = q /\ Step(p, q, c, b)
    BY <1>1, <1>3, <2>1, <2>2, GoesOnIs
  <2> QED
    BY <1>1, <1>2, <1>3, <1>5, <2>1, <2>3 DEF c
<1> QED
  BY <1>4, <1>5

LEMMA CloseIs ==
  ASSUME TypeOK, NEW p \in Callers, Close(p)
  PROVE  LET q == On(p)  c == circuit[q] IN
         /\ At(p, "close") /\ q \in Providers /\ c \in Circuit
         /\ \E b : \/ c.state = "closed" /\ Quiet(b) /\ Step(p, q, Cleared(c), b)
                   \/ /\ b.pc = "clear" /\ OnOf(b) = q
                      /\ Step(p, q, Turned(c, "closed"), b)
<1> DEFINE q == On(p)  c == circuit[q]
<1>1. /\ At(p, "close")
      /\ IF c.state = "closed" THEN Update(q, Cleared(c)) /\ Return(p)
         ELSE Update(q, Turned(c, "closed")) /\ Goto(p, "clear")
  BY DEF Close
<1>2. CallerOK(caller[p]) /\ q \in Providers /\ c \in Circuit
  BY <1>1, CallerTyped DEF At
<1>3. CASE c.state = "closed"
  <2>1. Cleared(c) \in Circuit
    BY <1>2, ClearedIs
  <2>2. caller' = [caller EXCEPT ![p] = Idle] /\ CallerOK(Idle) /\ Quiet(Idle)
    BY <1>1, <1>3, ReturnIs
  <2>3. Step(p, q, Cleared(c), Idle)
    BY <1>1, <1>2, <1>3, <2>1, <2>2 DEF Step
  <2> QED
    BY <1>1, <1>2, <1>3, <2>2, <2>3
<1>4. CASE c.state # "closed"
  <2> DEFINE b == [caller[p] EXCEPT !.pc = "clear"]  d == Turned(c, "closed")
  <2>1. /\ CallerOK(b) /\ b.pc = "clear"
        /\ b.chain = caller[p].chain /\ b.todo = caller[p].todo
    BY <1>1, <1>2 DEF CallerOK, CallerState, At
  <2>2. caller' = [caller EXCEPT ![p] = b] /\ Update(q, d)
    BY <1>1, <1>4 DEF Goto
  <2>3. d \in Circuit
    BY <1>2, TurnedIs DEF CircuitState
  <2> HIDE DEF b, d
  <2>4. OnOf(b) = q /\ Step(p, q, d, b)
    BY <1>1, <2>1, <2>2, <2>3, GoesOnIs
  <2> QED
    BY <1>1, <1>2, <2>1, <2>4 DEF d
<1> QED
  BY <1>3, <1>4

LEMMA ClearIs ==
  ASSUME TypeOK, NEW p \in Callers, Clear(p)
  PROVE  LET q == On(p) IN
         /\ At(p, "clear") /\ q \in Providers /\ circuit[q] \in Circuit
         /\ \E b : Quiet(b) /\ Step(p, q, Cleared(circuit[q]), b)
<1> DEFINE q == On(p)  c == Cleared(circuit[q])
<1>1. At(p, "clear") /\ Update(q, c) /\ Return(p)
  BY DEF Clear
<1>2. q \in Providers /\ circuit[q] \in Circuit
  BY <1>1, CallerTyped DEF At
<1>3. c \in Circuit
  BY <1>2, ClearedIs
<1>4. caller' = [caller EXCEPT ![p] = Idle] /\ CallerOK(Idle) /\ Quiet(Idle)
  BY <1>1, ReturnIs
<1>5. Step(p, q, c, Idle)
  BY <1>1, <1>2, <1>3, <1>4 DEF Step
<1> QED
  BY <1>1, <1>2, <1>4, <1>5

LEMMA ResetIs ==
  ASSUME TypeOK, NEW p \in Callers, ResetNext(p)
  PROVE  LET q == On(p) IN
         /\ At(p, "reset") /\ q \in Providers /\ circuit[q] \in Circuit
         /\ \E b : Quiet(b) /\ Step(p, q, Fresh, b)
<1> DEFINE q == On(p)  left == Tail(caller[p].todo)
<1>1. /\ At(p, "reset") /\ Update(q, Fresh)
      /\ IF left = <<>> THEN Return(p)
         ELSE caller' = [caller EXCEPT ![p].todo = left]
  BY DEF ResetNext
<1>2. /\ CallerOK(caller[p]) /\ q \in Providers /\ circuit[q] \in Circuit
      /\ caller[p].todo \in Seq(Providers) /\ caller[p].todo # <<>>
  BY <1>1, CallerTyped DEF At, CallerOK, CallerState
<1>3. CASE left = <<>>
  <2>1. caller' = [caller EXCEPT ![p] = Idle] /\ CallerOK(Idle) /\ Quiet(Idle)
    BY <1>1, <1>3, ReturnIs
  <2>2. Step(p, q, Fresh, Idle)
    BY <1>1, <1>2, <2>1, FreshIs DEF Step
  <2> QED
    BY <1>1, <1>2, <2>1, <2>2
<1>4. CASE left # <<>>
  <2> DEFINE b == [caller[p] EXCEPT !.todo = left]
  <2>1. left \in Seq(Providers)
    BY <1>2, Sequence
  <2>2. caller' = [caller EXCEPT ![p] = b]
    BY <1>1, <1>4
  <2>3. CallerOK(b) /\ Quiet(b)
    <3> HIDE DEF left
    <3> QED
      BY <1>1, <1>2, <1>4, <2>1 DEF CallerOK, CallerState, Quiet, At
  <2> HIDE DEF b
  <2>4. Step(p, q, Fresh, b)
    BY <1>1, <1>2, <2>2, <2>3, FreshIs DEF Step
  <2> QED
    BY <1>1, <1>2, <2>3, <2>4
<1> QED
  BY <1>3, <1>4

-----------------------------------------------------------------------------
(* The probe slot, for any number of threads.                              *)

(* While a circuit is half-open either an outcome is being recorded or at  *)
(* most one caller had the slot since it went half-open, and none if the   *)
(* slot is free.                                                           *)
OneHeld(q) ==
  circuit[q].state = "half_open" =>
    \/ \E p \in Callers : Recording(p, q)
    \/ /\ \A p1, p2 \in probing[q] : p1 = p2
       /\ ~ circuit[q].probe => probing[q] = {}

GateInv == TypeOK /\ SlotIsHeld /\ \A q \in Providers : OneHeld(q)

(* A step that takes no slot: it leaves the flag down, and while it is in  *)
(* record_success or record_failure it works on the same circuit.          *)
Records(b, q) == b.pc \in {"open", "lock", "trip", "close"} /\ OnOf(b) = q
Gentle(p, q, c, b) ==
  /\ c.probe => circuit[q].probe
  /\ At(p, "call") => q = On(p) /\ ~ c.probe
  /\ (c.state = "half_open" /\ circuit[q].state = "half_open" /\ c.probe # circuit[q].probe)
       => Records(b, q)
  /\ caller[p].pc \in {"open", "lock", "trip", "close"} =>
       q = On(p) /\ (Records(b, q) \/ c.state # "half_open")

(* The threads whose record stays where it was.                            *)
LEMMA OthersStay ==
  ASSUME NEW r \in Callers, caller'[r] = caller[r], NEW q
  PROVE  /\ Calling(r, q)' <=> Calling(r, q)
         /\ Recording(r, q)' <=> Recording(r, q)
BY DEF Calling, Recording, On, At

LEMMA GentleSlot ==
  ASSUME TypeOK, SlotIsHeld, NEW p \in Callers, NEW q, NEW c, NEW b,
         Step(p, q, c, b), Gentle(p, q, c, b)
  PROVE  SlotIsHeld'
<1>1. SUFFICES ASSUME NEW r \in Providers, circuit'[r].probe
               PROVE  \E h \in Callers : (Calling(h, r) /\ caller[h].slot)'
  BY DEF SlotIsHeld
<1>2. /\ q \in Providers /\ circuit'[q] = c
      /\ \A s \in Providers : s # q => circuit'[s] = circuit[s]
      /\ \A h \in Callers : h # p => caller'[h] = caller[h]
  <2>1. q \in Providers
    BY DEF Step
  <2> QED
    BY <2>1, StepFacts
<1>3. circuit[r].probe
  BY <1>1, <1>2 DEF Gentle
<1>4. PICK h \in Callers : Calling(h, r) /\ caller[h].slot
  BY <1>3 DEF SlotIsHeld
<1>5. h # p
  <2>1. SUFFICES ASSUME h = p PROVE FALSE
    OBVIOUS
  <2>2. At(p, "call") /\ On(p) = r
    BY <1>4, <2>1 DEF Calling
  <2>3. q = r /\ ~ c.probe
    BY <2>2 DEF Gentle
  <2> QED
    BY <1>1, <1>2, <2>3
<1>6. caller'[h] = caller[h]
  BY <1>2, <1>5
<1>7. Calling(h, r)' /\ caller'[h].slot
  BY <1>4, <1>6, OthersStay
<1> QED
  BY <1>7

LEMMA GentleHeld ==
  ASSUME TypeOK, \A r \in Providers : OneHeld(r), NEW p \in Callers, NEW q, NEW c, NEW b,
         Step(p, q, c, b), Gentle(p, q, c, b)
  PROVE  \A r \in Providers : OneHeld(r)'
<1>1. SUFFICES ASSUME NEW r \in Providers, circuit'[r].state = "half_open",
                      ~ \E h \in Callers : Recording(h, r)'
               PROVE  /\ \A p1, p2 \in probing'[r] : p1 = p2
                      /\ ~ circuit'[r].probe => probing'[r] = {}
  BY DEF OneHeld
<1>2. /\ q \in Providers /\ circuit'[q] = c /\ caller'[p] = b
      /\ \A s \in Providers : s # q => circuit'[s] = circuit[s] /\ probing'[s] = probing[s]
      /\ \A h \in Callers : h # p => caller'[h] = caller[h]
      /\ probing'[q] = IF c.state = "half_open" /\ circuit[q].state # "half_open"
                       THEN {} ELSE probing[q]
  <2>1. q \in Providers
    BY DEF Step
  <2> QED
    BY <2>1, StepFacts
<1>3. ~ Records(b, r)
  <2>1. Recording(p, r)' <=> Records(b, r)
    BY <1>2 DEF Recording, Records, On, OnOf
  <2> QED
    BY <1>1, <2>1
<1>4. \A h \in Callers : ~ Recording(h, r)
  <2>1. SUFFICES ASSUME NEW h \in Callers, Recording(h, r) PROVE FALSE
    OBVIOUS
  <2>2. CASE h # p
    BY <1>1, <1>2, <2>1, <2>2, OthersStay
  <2>3. CASE h = p
    <3>1. caller[p].pc \in {"open", "lock", "trip", "close"} /\ On(p) = r
      BY <2>1, <2>3 DEF Recording
    <3>2. q = r /\ c.state # "half_open"
      BY <1>3, <3>1 DEF Gentle
    <3> QED
      BY <1>1, <1>2, <3>2
  <2> QED
    BY <2>2, <2>3
<1>5. CASE r # q
  <2>1. circuit'[r] = circuit[r] /\ probing'[r] = probing[r]
    BY <1>2, <1>5
  <2> QED
    BY <1>1, <1>4, <2>1 DEF OneHeld
<1>6. CASE r = q /\ circuit[q].state # "half_open"
  BY <1>1, <1>2, <1>6
<1>7. CASE r = q /\ circuit[q].state = "half_open"
  <2>1. probing'[r] = probing[r] /\ c.state = "half_open"
    BY <1>1, <1>2, <1>7
  <2>2. c.probe = circuit[q].probe
    BY <1>3, <1>7, <2>1 DEF Gentle
  <2>3. circuit'[r].probe = circuit[r].probe
    BY <1>2, <1>7, <2>2
  <2>4. /\ \A p1, p2 \in probing[r] : p1 = p2
        /\ ~ circuit[r].probe => probing[r] = {}
    BY <1>4, <1>7 DEF OneHeld
  <2> QED
    BY <2>1, <2>3, <2>4
<1> QED
  BY <1>5, <1>6, <1>7

LEMMA GentleStep ==
  ASSUME GateInv, NEW p \in Callers, NEW q, NEW c, NEW b,
         Step(p, q, c, b), Gentle(p, q, c, b)
  PROVE  GateInv'
<1>1. TypeOK'
  BY StepFacts DEF GateInv
<1>2. SlotIsHeld'
  BY GentleSlot DEF GateInv
<1>3. \A r \in Providers : OneHeld(r)'
  BY GentleHeld DEF GateInv
<1> QED
  BY <1>1, <1>2, <1>3 DEF GateInv

(* The step that takes the slot.                                           *)
LEMMA SlotTaken ==
  ASSUME GateInv, NEW p \in Callers, NEW q, NEW b, q = On(p), q \in Providers,
         circuit[q].state = "half_open", ~ circuit[q].probe, At(p, "decide"),
         b.pc = "call", OnOf(b) = q, b.slot, CallerOK(b),
         caller' = [caller EXCEPT ![p] = b],
         circuit' = [circuit EXCEPT ![q].probe = TRUE],
         probing' = [probing EXCEPT ![q] = @ \cup {p}]
  PROVE  GateInv'
<1>1. /\ circuit \in [Providers -> Circuit] /\ caller \in [Callers -> CallerState]
      /\ probing \in [Providers -> SUBSET Callers] /\ b \in CallerState
  BY DEF GateInv, TypeOK, CallerOK
<1>2. [circuit[q] EXCEPT !.probe = TRUE] \in Circuit
      /\ [circuit[q] EXCEPT !.probe = TRUE].state = "half_open"
      /\ [circuit[q] EXCEPT !.probe = TRUE].probe = TRUE
  BY <1>1, ProbeTaken
<1>3. /\ circuit' \in [Providers -> Circuit] /\ caller' \in [Callers -> CallerState]
      /\ probing' \in [Providers -> SUBSET Callers]
      /\ caller'[p] = b /\ \A h \in Callers : h # p => caller'[h] = caller[h]
      /\ probing'[q] = probing[q] \cup {p}
      /\ \A r \in Providers : r # q => circuit'[r] = circuit[r] /\ probing'[r] = probing[r]
      /\ circuit'[q].state = "half_open" /\ circuit'[q].probe = TRUE
  BY <1>1, <1>2
<1>4. TypeOK'
  <2>1. \A h \in Callers : CallerOK(caller'[h])
    BY <1>3, CallerTyped DEF GateInv
  <2> QED
    BY <1>3, <2>1 DEF TypeOK, CallerOK, At
<1>5. Calling(p, q)' /\ caller'[p].slot
  <2>1. At(p, "call")'
    BY <1>3 DEF At
  <2>2. On(p)' = OnOf(caller'[p])
    BY DEF On, OnOf
  <2>3. On(p)' = q
    BY <1>3, <2>2
  <2> QED
    BY <1>3, <2>1, <2>3 DEF Calling
<1>6. SlotIsHeld'
  <2>1. SUFFICES ASSUME NEW r \in Providers, circuit'[r].probe
                 PROVE  \E h \in Callers : (Calling(h, r) /\ caller[h].slot)'
    BY DEF SlotIsHeld
  <2>2. CASE r = q
    BY <1>5, <2>2
  <2>3. CASE r # q
    <3>1. PICK h \in Callers : Calling(h, r) /\ caller[h].slot
      BY <1>3, <2>1, <2>3 DEF GateInv, SlotIsHeld
    <3>2. h # p
      BY <3>1 DEF Calling, At
    <3>3. Calling(h, r)' /\ caller'[h].slot
      BY <1>3, <3>1, <3>2, OthersStay
    <3> QED
      BY <3>3
  <2> QED
    BY <2>2, <2>3
<1>7. \A r \in Providers : OneHeld(r)'
  <2>1. SUFFICES ASSUME NEW r \in Providers, circuit'[r].state = "half_open",
                        ~ \E h \in Callers : Recording(h, r)'
                 PROVE  /\ \A p1, p2 \in probing'[r] : p1 = p2
                        /\ ~ circuit'[r].probe => probing'[r] = {}
    BY DEF OneHeld
  <2>2. \A h \in Callers : ~ Recording(h, r)
    <3>1. SUFFICES ASSUME NEW h \in Callers, Recording(h, r) PROVE FALSE
      OBVIOUS
    <3>2. h # p
      BY <3>1 DEF Recording, At
    <3> QED
      BY <1>3, <2>1, <3>1, <3>2, OthersStay
  <2>3. CASE r = q
    <3>1. probing[q] = {}
      BY <2>2, <2>3 DEF GateInv, OneHeld
    <3> QED
      BY <1>3, <2>3, <3>1
  <2>4. CASE r # q
    BY <1>3, <2>1, <2>2, <2>4 DEF GateInv, OneHeld
  <2> QED
    BY <2>3, <2>4
<1> QED
  BY <1>4, <1>6, <1>7 DEF GateInv

(* A thread that neither calls nor records.                                *)
LEMMA GentleElsewhere ==
  ASSUME NEW p \in Callers, NEW q, NEW c, NEW b,
         caller[p].pc \in {"idle", "allow", "decide", "snapshot", "clear", "reset"},
         c.probe => circuit[q].probe,
         (c.state = "half_open" /\ circuit[q].state = "half_open") => c.probe = circuit[q].probe
  PROVE  Gentle(p, q, c, b)
BY DEF Gentle, At

LEMMA GateThread ==
  ASSUME GateInv, NEW p \in Callers,
         Complete(p) \/ Status(p) \/ Reset(p) \/ Proceed(p)
  PROVE  GateInv'
<1> DEFINE q == On(p)
<1>0. TypeOK
  BY DEF GateInv
<1>1. CASE Complete(p) \/ Status(p) \/ Reset(p)
  <2>1. PICK b : At(p, "idle") /\ Step(p, OnOf(b), circuit[OnOf(b)], b)
    BY <1>0, <1>1, StartIs
  <2>2. Gentle(p, OnOf(b), circuit[OnOf(b)], b)
    BY <2>1, GentleElsewhere DEF At
  <2> QED
    BY <2>1, <2>2, GentleStep
<1>2. CASE AllowDecide(p)
  <2>0. At(p, "decide") /\ q \in Providers
    BY <1>0, <1>2, CallerTyped DEF AllowDecide, At
  <2>1. CASE \E b : Step(p, q, circuit[q], b)
    <3>1. PICK b : Step(p, q, circuit[q], b)
      BY <2>1
    <3>2. Gentle(p, q, circuit[q], b)
      BY <2>0, GentleElsewhere DEF At
    <3> QED
      BY <3>1, <3>2, GentleStep
  <2>2. CASE /\ circuit[q].state = "half_open" /\ ~ circuit[q].probe
             /\ \E b : /\ b.pc = "call" /\ OnOf(b) = q /\ b.slot /\ CallerOK(b)
                       /\ caller' = [caller EXCEPT ![p] = b]
             /\ circuit' = [circuit EXCEPT ![q].probe = TRUE]
             /\ probing' = [probing EXCEPT ![q] = @ \cup {p}]
    <3>1. PICK b : /\ b.pc = "call" /\ OnOf(b) = q /\ b.slot /\ CallerOK(b)
                   /\ caller' = [caller EXCEPT ![p] = b]
      BY <2>2
    <3> HIDE DEF q
    <3> QED
      BY <2>0, <2>2, <3>1, SlotTaken DEF q
  <2>3. CASE \E b : Step(p, OnOf(b), circuit[OnOf(b)], b)
    <3>1. PICK b : Step(p, OnOf(b), circuit[OnOf(b)], b)
      BY <2>3
    <3>2. Gentle(p, OnOf(b), circuit[OnOf(b)], b)
      BY <2>0, GentleElsewhere DEF At
    <3> QED
      BY <3>1, <3>2, GentleStep
  <2> QED
    BY <1>0, <1>2, <2>1, <2>2, <2>3, AdmitIs
<1>3. CASE RefreshBegins(p)
  <2>1. PICK b : Step(p, q, Lapsed(circuit[q]), b)
    BY <1>0, <1>3, BeginsIs
  <2>2. caller[p].pc \in {"allow", "snapshot"} /\ circuit[q] \in Circuit
    BY <1>0, <1>3, BeginsIs
  <2>3. /\ Lapsed(circuit[q]).probe => circuit[q].probe
        /\ Lapsed(circuit[q]).state = "half_open" => Lapsed(circuit[q]) = circuit[q]
    BY <2>2, LapsedIs
  <2>4. Gentle(p, q, Lapsed(circuit[q]), b)
    BY <2>2, <2>3, GentleElsewhere
  <2> QED
    BY <2>1, <2>4, GentleStep
<1>4. CASE RefreshTurns(p)
  <2> DEFINE c == Turned(circuit[q], caller[p].to)
  <2>1. PICK b : Step(p, q, c, b)
    BY <1>0, <1>4, TurnsIs
  <2>2. /\ caller[p].pc \in {"allow", "snapshot"} /\ circuit[q] \in Circuit
        /\ caller[p].to \in {"closed", "half_open"}
    BY <1>0, <1>4, TurnsIs
  <2>3. c.probe = circuit[q].probe
    BY <2>2, TurnedIs DEF CircuitState
  <2> HIDE DEF c
  <2>4. Gentle(p, q, c, b)
    BY <2>2, <2>3, GentleElsewhere
  <2> QED
    BY <2>1, <2>4, GentleStep
<1>5. CASE CallFails(p)
  <2> DEFINE c == Missed(circuit[q])
  <2>1. At(p, "call") /\ circuit[q] \in Circuit
    BY <1>0, <1>5, FailsIs
  <2>2. PICK b : \E permanent \in BOOLEAN :
                   /\ Step(p, q, c, b)
                   /\ IF Trips(c, permanent) THEN b.pc = "open" /\ OnOf(b) = q ELSE Quiet(b)
    BY <1>0, <1>5, FailsIs
  <2>3. ~ c.probe /\ c.state = circuit[q].state
    BY <2>1, MissedIs
  <2>4. c.state = "half_open" => Records(b, q)
    BY <2>2 DEF Trips, Records
  <2> HIDE DEF c, q
  <2>5. Gentle(p, q, c, b)
    BY <2>1, <2>3, <2>4 DEF Gentle, At, q
  <2> QED
    BY <2>2, <2>5, GentleStep
<1>6. CASE Open(p)
  <2> DEFINE c == Dated(circuit[q])
  <2>1. At(p, "open") /\ circuit[q] \in Circuit
    BY <1>0, <1>6, OpenIs
  <2>2. PICK b : Step(p, q, c, b) /\ OnOf(b) = q /\ b.pc \in {"lock", "trip"}
    BY <1>0, <1>6, OpenIs
  <2>3. c.probe = circuit[q].probe
    BY <2>1, DatedIs
  <2> HIDE DEF c
  <2>4. Gentle(p, q, c, b)
    BY <2>1, <2>2, <2>3 DEF Gentle, At, Records
  <2> QED
    BY <2>2, <2>4, GentleStep
<1>7. CASE Lock(p)
  <2> DEFINE c == LockDated(circuit[q])
  <2>1. At(p, "lock") /\ circuit[q] \in Circuit
    BY <1>0, <1>7, LockIs
  <2>2. PICK b : Step(p, q, c, b) /\ OnOf(b) = q /\ b.pc = "trip"
    BY <1>0, <1>7, LockIs
  <2>3. c.probe = circuit[q].probe
    BY <2>1, LockDatedIs
  <2> HIDE DEF c
  <2>4. Gentle(p, q, c, b)
    BY <2>1, <2>2, <2>3 DEF Gentle, At, Records
  <2> QED
    BY <2>2, <2>4, GentleStep
<1>8. CASE Trip(p)
  <2> DEFINE c == Turned(circuit[q], caller[p].to)
  <2>1. At(p, "trip") /\ circuit[q] \in Circuit /\ caller[p].to \in {"open", "locked"}
    BY <1>0, <1>8, TripIs
  <2>2. PICK b : Step(p, q, c, b)
    BY <1>0, <1>8, TripIs
  <2>3. c.probe = circuit[q].probe /\ c.state # "half_open"
    BY <2>1, TurnedIs DEF CircuitState
  <2> HIDE DEF c
  <2>4. Gentle(p, q, c, b)
    BY <2>1, <2>3 DEF Gentle, At
  <2> QED
    BY <2>2, <2>4, GentleStep
<1>9. CASE CallSucceeds(p)
  <2> DEFINE a == Answered(circuit[q])
  <2>1. At(p, "call") /\ circuit[q] \in Circuit
    BY <1>0, <1>9, SucceedsIs
  <2>2. ~ a.probe /\ a.state = circuit[q].state /\ a \in Circuit
    BY <2>1, AnsweredIs
  <2>3. ~ Cleared(a).probe /\ Cleared(a).state = a.state
    BY <2>2, ClearedIs
  <2> HIDE DEF a
  <2>4. PICK b : \/ circuit[q].state = "closed" /\ Step(p, q, Cleared(a), b)
                 \/ b.pc = "close" /\ OnOf(b) = q /\ Step(p, q, a, b)
    BY <1>0, <1>9, SucceedsIs DEF a
  <2>5. CASE circuit[q].state = "closed" /\ Step(p, q, Cleared(a), b)
    <3>1. Gentle(p, q, Cleared(a), b)
      BY <2>1, <2>2, <2>3, <2>5 DEF Gentle, At
    <3> QED
      BY <2>5, <3>1, GentleStep
  <2>6. CASE b.pc = "close" /\ OnOf(b) = q /\ Step(p, q, a, b)
    <3>1. Gentle(p, q, a, b)
      BY <2>1, <2>2, <2>6 DEF Gentle, At, Records
    <3> QED
      BY <2>6, <3>1, GentleStep
  <2> QED
    BY <2>4, <2>5, <2>6
<1>10. CASE Close(p)
  <2> DEFINE c == circuit[q]
  <2>1. At(p, "close") /\ c \in Circuit
    BY <1>0, <1>10, CloseIs
  <2>2. PICK b : \/ c.state = "closed" /\ Step(p, q, Cleared(c), b)
                 \/ Step(p, q, Turned(c, "closed"), b)
    BY <1>0, <1>10, CloseIs
  <2>3. CASE c.state = "closed" /\ Step(p, q, Cleared(c), b)
    <3>1. Cleared(c).probe = c.probe /\ Cleared(c).state = "closed"
      BY <2>1, <2>3, ClearedIs
    <3>2. Gentle(p, q, Cleared(c), b)
      BY <2>1, <3>1 DEF Gentle, At
    <3> QED
      BY <2>3, <3>2, GentleStep
  <2>4. CASE Step(p, q, Turned(c, "closed"), b)
    <3>1. Turned(c, "closed").probe = c.probe /\ Turned(c, "closed").state = "closed"
      BY <2>1, TurnedIs DEF CircuitState
    <3>2. Gentle(p, q, Turned(c, "closed"), b)
      BY <2>1, <3>1 DEF Gentle, At
    <3> QED
      BY <2>4, <3>2, GentleStep
  <2> QED
    BY <2>2, <2>3, <2>4
<1>11. CASE Clear(p)
  <2> DEFINE c == Cleared(circuit[q])
  <2>1. At(p, "clear") /\ circuit[q] \in Circuit
    BY <1>0, <1>11, ClearIs
  <2>2. PICK b : Step(p, q, c, b)
    BY <1>0, <1>11, ClearIs
  <2>3. c.probe = circuit[q].probe
    BY <2>1, ClearedIs
  <2> HIDE DEF c
  <2>4. Gentle(p, q, c, b)
    BY <2>1, <2>3, GentleElsewhere DEF At
  <2> QED
    BY <2>2, <2>4, GentleStep
<1>12. CASE ResetNext(p)
  <2>1. At(p, "reset")
    BY <1>0, <1>12, ResetIs
  <2>2. PICK b : Step(p, q, Fresh, b)
    BY <1>0, <1>12, ResetIs
  <2>3. ~ Fresh.probe /\ Fresh.state = "closed"
    BY DEF Fresh
  <2>4. Gentle(p, q, Fresh, b)
    BY <2>1, <2>3, GentleElsewhere DEF At
  <2> QED
    BY <2>2, <2>4, GentleStep
<1> QED
  BY <1>1, <1>2, <1>3, <1>4, <1>5, <1>6, <1>7, <1>8, <1>9, <1>10, <1>11, <1>12 DEF Proceed

(* Time.                                                                   *)
LEMMA TickIs ==
  ASSUME TypeOK, Tick
  PROVE  /\ TypeOK' /\ UNCHANGED <<caller, probing>>
         /\ \A q \in Providers : circuit'[q] = Older(circuit[q]) /\ circuit[q] \in Circuit
<1>1. circuit \in [Providers -> Circuit]
  BY DEF TypeOK
<1>2. circuit' = [q \in Providers |-> Older(circuit[q])] /\ UNCHANGED <<caller, probing>>
  BY DEF Tick
<1>3. circuit' \in [Providers -> Circuit]
  BY <1>1, <1>2, OlderIs
<1> QED
  BY <1>1, <1>2, <1>3 DEF TypeOK, At

LEMMA GateTick ==
  ASSUME GateInv, Tick
  PROVE  GateInv'
<1>1. /\ TypeOK' /\ UNCHANGED <<caller, probing>>
      /\ \A q \in Providers : circuit'[q] = Older(circuit[q]) /\ circuit[q] \in Circuit
  BY TickIs DEF GateInv
<1>2. \A q \in Providers : /\ circuit'[q].probe = circuit[q].probe
                           /\ circuit'[q].state = circuit[q].state
  BY <1>1, OlderIs
<1>3. \A h \in Callers, r \in Providers : /\ Calling(h, r)' <=> Calling(h, r)
                                          /\ Recording(h, r)' <=> Recording(h, r)
  BY <1>1, OthersStay
<1>4. SlotIsHeld'
  BY <1>1, <1>2, <1>3 DEF GateInv, SlotIsHeld
<1>5. \A r \in Providers : OneHeld(r)'
  BY <1>1, <1>2, <1>3 DEF GateInv, OneHeld
<1> QED
  BY <1>1, <1>4, <1>5 DEF GateInv

LEMMA GateStart == Init => GateInv
<1> SUFFICES ASSUME Init PROVE GateInv
  OBVIOUS
<1>1. \A q \in Providers : circuit[q] = Fresh /\ probing[q] = {}
  BY DEF Init
<1>2. TypeOK
  <2>1. Idle \in CallerState /\ Idle.pc = "idle" /\ Idle.to = "none"
    BY IdleIs DEF CallerOK, Idle
  <2> QED
    BY <2>1, FreshIs DEF Init, TypeOK
<1>3. SlotIsHeld /\ \A q \in Providers : OneHeld(q)
  BY <1>1 DEF Fresh, SlotIsHeld, OneHeld
<1> QED
  BY <1>2, <1>3 DEF GateInv

LEMMA GateNext == GateInv /\ [Next]_vars => GateInv'
<1> SUFFICES ASSUME GateInv, [Next]_vars PROVE GateInv'
  OBVIOUS
<1>1. CASE UNCHANGED vars
  BY <1>1 DEF vars, GateInv, TypeOK, SlotIsHeld, OneHeld, Calling, Recording, On, At
<1>2. CASE Next
  BY <1>2, GateThread, GateTick DEF Next
<1> QED
  BY <1>1, <1>2

THEOREM GateInvariant == Spec => []GateInv
BY GateStart, GateNext, PTL DEF Spec

(* The variables keep their types, for any callers, providers and          *)
(* thresholds.                                                             *)
THEOREM LLMTypeCorrect == Spec => []TypeOK
<1>1. GateInv => TypeOK
  BY DEF GateInv
<1> QED
  BY <1>1, GateInvariant, PTL

(* The probe slot of resilience.py is never leaked, for any number of      *)
(* threads: a taken slot belongs to a caller that still waits.             *)
THEOREM SlotIsHeldHolds == Spec => []SlotIsHeld
<1>1. GateInv => SlotIsHeld
  BY DEF GateInv
<1> QED
  BY <1>1, GateInvariant, PTL

(* One probe per half-open period, except while an outcome is recorded,    *)
(* for any number of threads.                                              *)
THEOREM OneProbeHolds == Spec => []OneProbe
<1>1. GateInv => OneProbe
  BY DEF GateInv, OneHeld, OneProbe
<1> QED
  BY <1>1, GateInvariant, PTL

-----------------------------------------------------------------------------
(* One thread: the counters, the cooldown and the lockout.                 *)

OneCaller == \E t : Callers = {t}

(* A circuit that rests since its last opening, and one locked in earnest. *)
Rested(c) == c.opened = Never \/ c.opened = Cooldown \/ c.opened >= Lockout
Timed(c) ==
  /\ c.opens >= LockoutOpens /\ c.locked \in 0..Lockout
  /\ c.opened # Never /\ (c.opened >= c.locked \/ c.opened = Cooldown)

(* What a circuit is while no thread is amid opening or unlocking it.      *)
Settled(c) ==
  /\ c.state = "closed" => c.failures < FailureThreshold /\ Rested(c)
  /\ c.state = "half_open" => Rested(c)
  /\ c.state = "locked" => Timed(c)
Busy(a) == a.pc \in {"open", "lock", "trip"} \/ a.to = "closed"

(* What a thread knows of the circuit it is at.                            *)
Knows(a, c) ==
  /\ a.pc \in {"call", "open", "lock", "trip"} => c.state \in {"closed", "half_open"}
  /\ a.pc = "lock" => c.opens >= LockoutOpens /\ c.opened # Never
  /\ a.pc = "trip" /\ a.to = "locked" => Timed(c)
  /\ a.pc = "close" => c.state = "half_open" /\ c.failures = 0 /\ Rested(c)
  /\ a.pc = "clear" => c.state = "closed"
  /\ a.to = "closed" => /\ c.state = "locked" /\ c.locked = Never
                        /\ c.failures = 0 /\ Rested(c)
  /\ a.to = "half_open" => c.state = "open" /\ c.opened = Cooldown

Rest ==
  /\ \A q \in Providers :
       Settled(circuit[q]) \/ \E p \in Callers : Busy(caller[p]) /\ OnOf(caller[p]) = q
  /\ \A p \in Callers : caller[p].pc # "idle" => Knows(caller[p], circuit[OnOf(caller[p])])
RestInv == GateInv /\ Rest

(* How LockoutLasts lets a circuit change.                                 *)
Serves(c, d) ==
  (/\ c.state = "locked" /\ c.locked # Never
   /\ d.state # "locked" \/ d.locked = Never)
  => c.locked >= Lockout \/ d = Fresh

(* A step that keeps the one thread's knowledge.                           *)
Careful(p, q, c, b) ==
  /\ Busy(caller[p]) => q = OnOf(caller[p])
  /\ Settled(c) \/ (Busy(b) /\ OnOf(b) = q)
  /\ Quiet(b) \/ (OnOf(b) = q /\ Knows(b, c))
  /\ Serves(circuit[q], c)

LEMMA QuietIs ==
  ASSUME NEW b, Quiet(b), NEW c
  PROVE  Knows(b, c) /\ ~ Busy(b)
BY DEF Quiet, Knows, Busy

LEMMA CarefulWrite ==
  ASSUME OneCaller, RestInv, NEW p \in Callers, NEW q \in Providers, NEW c, NEW b,
         circuit' = [circuit EXCEPT ![q] = c], caller' = [caller EXCEPT ![p] = b],
         Careful(p, q, c, b)
  PROVE  Rest' /\ \A r \in Providers : Serves(circuit[r], circuit'[r])
<1>1. /\ circuit'[q] = c /\ caller'[p] = b
      /\ \A r \in Providers : r # q => circuit'[r] = circuit[r]
  <2>1. circuit \in [Providers -> Circuit] /\ caller \in [Callers -> CallerState]
    BY DEF RestInv, GateInv, TypeOK
  <2> QED
    BY <2>1
<1>2. \A r \in Callers : r = p
  BY DEF OneCaller
<1>4. \A r \in Providers :
        Settled(circuit'[r]) \/ \E h \in Callers : Busy(caller'[h]) /\ OnOf(caller'[h]) = r
  <2>1. SUFFICES ASSUME NEW r \in Providers
                 PROVE  Settled(circuit'[r]) \/ (Busy(b) /\ OnOf(b) = r)
    BY <1>1
  <2>2. CASE r = q
    BY <1>1, <2>2 DEF Careful
  <2>3. CASE r # q
    <3>1. ~ (Busy(caller[p]) /\ OnOf(caller[p]) = r)
      BY <2>3 DEF Careful
    <3>2. Settled(circuit[r])
      BY <1>2, <3>1 DEF RestInv, Rest
    <3> QED
      BY <1>1, <2>3, <3>2
  <2> QED
    BY <2>2, <2>3
<1>5. \A h \in Callers : caller'[h].pc # "idle" => Knows(caller'[h], circuit'[OnOf(caller'[h])])
  <2>1. SUFFICES ASSUME b.pc # "idle" PROVE Knows(b, circuit'[OnOf(b)])
    BY <1>1, <1>2
  <2>2. CASE Quiet(b)
    BY <2>2, QuietIs
  <2>3. CASE OnOf(b) = q /\ Knows(b, c)
    BY <1>1, <2>3
  <2> QED
    BY <2>2, <2>3 DEF Careful
<1>6. \A r \in Providers : Serves(circuit[r], circuit'[r])
  <2>1. SUFFICES ASSUME NEW r \in Providers PROVE Serves(circuit[r], circuit'[r])
    OBVIOUS
  <2>2. CASE r = q
    BY <1>1, <2>2 DEF Careful
  <2>3. CASE r # q
    BY <1>1, <2>3 DEF Serves
  <2> QED
    BY <2>2, <2>3
<1> QED
  BY <1>4, <1>5, <1>6 DEF Rest

LEMMA CarefulStep ==
  ASSUME OneCaller, RestInv, NEW p \in Callers, NEW q, NEW c, NEW b,
         Step(p, q, c, b), Careful(p, q, c, b)
  PROVE  Rest' /\ \A r \in Providers : Serves(circuit[r], circuit'[r])
<1>1. /\ q \in Providers /\ circuit' = [circuit EXCEPT ![q] = c]
      /\ caller' = [caller EXCEPT ![p] = b]
  BY DEF Step, Update
<1> QED
  BY <1>1, CarefulWrite

(* What the one thread knows before it moves.                              *)
LEMMA RestFacts ==
  ASSUME OneCaller, RestInv, NEW p \in Callers
  PROVE  /\ On(p) = OnOf(caller[p])
         /\ caller[p].pc # "idle" => Knows(caller[p], circuit[On(p)])
         /\ \A q \in Providers : (Busy(caller[p]) /\ OnOf(caller[p]) = q) \/ Settled(circuit[q])
         /\ caller[p].pc \notin {"allow", "snapshot", "trip"} => caller[p].to = "none"
<1>1. On(p) = OnOf(caller[p])
  BY DEF On, OnOf
<1>2. \A r \in Callers : r = p
  BY DEF OneCaller
<1>3. CallerOK(caller[p])
  BY CallerTyped DEF RestInv, GateInv
<1>4. caller[p].pc \notin {"allow", "snapshot", "trip"} => caller[p].to = "none"
  BY <1>3 DEF CallerOK
<1>5. \A q \in Providers : (Busy(caller[p]) /\ OnOf(caller[p]) = q) \/ Settled(circuit[q])
  BY <1>2 DEF RestInv, Rest
<1> QED
  BY <1>1, <1>4, <1>5 DEF RestInv, Rest

LEMMA RestThread ==
  ASSUME OneCaller, RestInv, NEW p \in Callers,
         Complete(p) \/ Status(p) \/ Reset(p) \/ Proceed(p)
  PROVE  Rest' /\ \A r \in Providers : Serves(circuit[r], circuit'[r])
<1> DEFINE q == On(p)
<1>0. /\ TypeOK /\ q = OnOf(caller[p])
      /\ caller[p].pc # "idle" => Knows(caller[p], circuit[q])
      /\ \A r \in Providers : (Busy(caller[p]) /\ q = r) \/ Settled(circuit[r])
      /\ caller[p].pc \notin {"allow", "snapshot", "trip"} => caller[p].to = "none"
  BY RestFacts DEF RestInv, GateInv
<1>a. \A r \in Providers : Serves(circuit[r], circuit[r])
  BY DEF Serves
<1>1. CASE Complete(p) \/ Status(p) \/ Reset(p)
  <2>1. PICK b : At(p, "idle") /\ Quiet(b) /\ Step(p, OnOf(b), circuit[OnOf(b)], b)
    BY <1>0, <1>1, StartIs
  <2>2. ~ Busy(caller[p]) /\ OnOf(b) \in Providers
    BY <1>0, <2>1 DEF Busy, At, Step
  <2>3. Settled(circuit[OnOf(b)]) /\ Serves(circuit[OnOf(b)], circuit[OnOf(b)])
    BY <1>0, <1>a, <2>2
  <2>4. Careful(p, OnOf(b), circuit[OnOf(b)], b)
    BY <2>1, <2>2, <2>3 DEF Careful
  <2> QED
    BY <2>1, <2>4, CarefulStep
<1>2. CASE AllowDecide(p)
  <2>0. At(p, "decide") /\ q \in Providers /\ ~ Busy(caller[p])
    BY <1>0, <1>2, CallerTyped DEF AllowDecide, At, Busy
  <2>1. CASE /\ circuit[q].state = "closed"
             /\ \E b : b.pc = "call" /\ OnOf(b) = q /\ Step(p, q, circuit[q], b)
    <3>1. PICK b : b.pc = "call" /\ OnOf(b) = q /\ Step(p, q, circuit[q], b)
      BY <2>1
    <3>2. b.to = "none"
      BY <3>1 DEF Step, CallerOK
    <3>3. Knows(b, circuit[q])
      BY <2>1, <3>1, <3>2 DEF Knows
    <3>4. Careful(p, q, circuit[q], b)
      <4> HIDE DEF q
      <4> QED
        BY <1>0, <1>a, <2>0, <3>1, <3>3 DEF Careful
    <3> QED
      BY <3>1, <3>4, CarefulStep
  <2>2. CASE /\ circuit[q].state = "half_open"
             /\ \E b : /\ b.pc = "call" /\ OnOf(b) = q /\ CallerOK(b)
                       /\ caller' = [caller EXCEPT ![p] = b]
             /\ circuit' = [circuit EXCEPT ![q].probe = TRUE]
             /\ probing' = [probing EXCEPT ![q] = @ \cup {p}]
    <3>1. PICK b : /\ b.pc = "call" /\ OnOf(b) = q /\ CallerOK(b)
                   /\ caller' = [caller EXCEPT ![p] = b]
      BY <2>2
    <3> DEFINE c == [circuit[q] EXCEPT !.probe = TRUE]
    <3>2. circuit[q] \in Circuit
      BY <1>0, <2>0, CallerTyped
    <3>3. /\ c \in Circuit /\ c.state = circuit[q].state /\ c.failures = circuit[q].failures
          /\ c.opens = circuit[q].opens /\ c.opened = circuit[q].opened
          /\ c.locked = circuit[q].locked
      BY <3>2, ProbeTaken
    <3>4. circuit' = [circuit EXCEPT ![q] = c]
      BY <2>2
    <3>5. b.to = "none"
      BY <3>1 DEF CallerOK
    <3> HIDE DEF c, q
    <3>6. Knows(b, c)
      BY <2>2, <3>1, <3>3, <3>5 DEF Knows
    <3>7. Settled(circuit[q])
      BY <1>0, <2>0
    <3>8. Settled(c) /\ Serves(circuit[q], c)
      BY <3>3, <3>7 DEF Settled, Rested, Timed, Serves
    <3>9. Careful(p, q, c, b)
      BY <2>0, <3>1, <3>6, <3>8 DEF Careful
    <3> QED
      BY <2>0, <3>1, <3>4, <3>9, CarefulWrite
  <2>3. CASE \E b : Quiet(b) /\ Step(p, OnOf(b), circuit[OnOf(b)], b)
    <3>1. PICK b : Quiet(b) /\ Step(p, OnOf(b), circuit[OnOf(b)], b)
      BY <2>3
    <3>2. OnOf(b) \in Providers
      BY <3>1 DEF Step
    <3>3. Settled(circuit[OnOf(b)]) /\ Serves(circuit[OnOf(b)], circuit[OnOf(b)])
      BY <1>0, <1>a, <2>0, <3>2
    <3>4. Careful(p, OnOf(b), circuit[OnOf(b)], b)
      BY <2>0, <3>1, <3>3 DEF Careful
    <3> QED
      BY <3>1, <3>4, CarefulStep
  <2> QED
    BY <1>0, <1>2, <2>1, <2>2, <2>3, AdmitIs
<1>3. CASE RefreshBegins(p)
  <2> DEFINE c == circuit[q]  d == Lapsed(circuit[q])
  <2>1. /\ caller[p].pc \in {"allow", "snapshot"} /\ caller[p].to = "none"
        /\ q \in Providers /\ c \in Circuit
    BY <1>0, <1>3, BeginsIs
  <2>2. PICK b : /\ Step(p, q, d, b)
                 /\ IF LapsesTo(c) = "none" THEN Quiet(b)
                    ELSE /\ b.pc \in {"allow", "snapshot"} /\ b.to = LapsesTo(c)
                         /\ OnOf(b) = q
    BY <1>0, <1>3, BeginsIs
  <2>3. /\ d.state = c.state /\ d.opened = c.opened
        /\ \/ LapsesTo(c) = "none" /\ d = c
           \/ /\ LapsesTo(c) = "closed"
              /\ c.state = "locked" /\ c.locked = Lockout
              /\ d.locked = Never /\ d.failures = 0
           \/ /\ LapsesTo(c) = "half_open"
              /\ c.state = "open" /\ c.opened = Cooldown
    BY <2>1, LapsedIs
  <2>4. ~ Busy(caller[p]) /\ Settled(c)
    BY <1>0, <2>1 DEF Busy
  <2> HIDE DEF c, d, q
  <2>5. CASE LapsesTo(c) = "none"
    <3>1. Quiet(b) /\ d = c
      BY <2>2, <2>3, <2>5
    <3>2. Careful(p, q, d, b)
      BY <1>a, <2>1, <2>4, <3>1 DEF Careful, c
    <3> QED
      BY <2>2, <3>2, CarefulStep DEF d
  <2>6. CASE LapsesTo(c) = "closed"
    <3>1. /\ b.pc \in {"allow", "snapshot"} /\ b.to = "closed" /\ OnOf(b) = q
          /\ c.state = "locked" /\ c.locked = Lockout /\ d.locked = Never /\ d.failures = 0
      BY <2>2, <2>3, <2>6
    <3>2. Rested(d)
      <4>1. c.opened # Never /\ (c.opened >= c.locked \/ c.opened = Cooldown)
        BY <2>4, <3>1 DEF Settled, Timed
      <4> QED
        BY <2>3, <3>1, <4>1 DEF Rested
    <3>3. Knows(b, d) /\ Busy(b)
      BY <2>3, <3>1, <3>2 DEF Knows, Busy
    <3>4. Serves(c, d)
      <4>1. Lockout \in Nat
        BY ConfigAssumption
      <4>2. c.locked >= Lockout
        BY <3>1, <4>1
      <4> QED
        BY <4>2 DEF Serves
    <3>5. Careful(p, q, d, b)
      BY <2>4, <3>1, <3>3, <3>4 DEF Careful, c
    <3> QED
      BY <2>2, <3>5, CarefulStep DEF d
  <2>7. CASE LapsesTo(c) = "half_open"
    <3>1. /\ b.pc \in {"allow", "snapshot"} /\ b.to = "half_open" /\ OnOf(b) = q
          /\ c.state = "open" /\ c.opened = Cooldown /\ d.state = "open"
      BY <2>2, <2>3, <2>7
    <3>2. Knows(b, d) /\ Settled(d) /\ Serves(c, d)
      BY <2>3, <3>1 DEF Knows, Settled, Serves
    <3>3. Careful(p, q, d, b)
      BY <2>4, <3>1, <3>2 DEF Careful, c
    <3> QED
      BY <2>2, <3>3, CarefulStep DEF d
  <2> QED
    BY <2>3, <2>5, <2>6, <2>7
<1>4. CASE RefreshTurns(p)
  <2> DEFINE c == circuit[q]  d == Turned(circuit[q], caller[p].to)
  <2>1. /\ caller[p].pc \in {"allow", "snapshot"} /\ caller[p].to \in {"closed", "half_open"}
        /\ q \in Providers /\ c \in Circuit
    BY <1>0, <1>4, TurnsIs
  <2>2. PICK b : Quiet(b) /\ Step(p, q, d, b)
    BY <1>0, <1>4, TurnsIs
  <2>3. /\ d.state = caller[p].to /\ d.failures = c.failures /\ d.opens = c.opens
        /\ d.opened = c.opened /\ d.locked = c.locked
    BY <2>1, TurnedIs DEF CircuitState
  <2>4. Knows(caller[p], c)
    BY <1>0, <2>1
  <2> HIDE DEF c, d, q
  <2>5. CASE caller[p].to = "closed"
    <3>1. c.state = "locked" /\ c.locked = Never /\ c.failures = 0 /\ Rested(c)
      BY <2>4, <2>5 DEF Knows
    <3>2. Settled(d)
      <4>1. 0 < FailureThreshold /\ d.failures = 0
        BY <2>3, <3>1, ConfigAssumption
      <4> QED
        BY <2>3, <2>5, <3>1, <4>1 DEF Settled, Rested
    <3>3. Serves(c, d)
      BY <3>1 DEF Serves
    <3>4. Careful(p, q, d, b)
      BY <1>0, <2>2, <3>2, <3>3 DEF Careful, c
    <3> QED
      BY <2>2, <3>4, CarefulStep DEF d
  <2>6. CASE caller[p].to = "half_open"
    <3>1. c.state = "open" /\ c.opened = Cooldown
      BY <2>4, <2>6 DEF Knows
    <3>2. Settled(d) /\ Serves(c, d)
      BY <2>3, <2>6, <3>1 DEF Settled, Rested, Serves
    <3>3. Careful(p, q, d, b)
      BY <1>0, <2>2, <3>2 DEF Careful, c
    <3> QED
      BY <2>2, <3>3, CarefulStep DEF d
  <2> QED
    BY <2>1, <2>5, <2>6
<1>5. CASE CallFails(p)
  <2> DEFINE c == circuit[q]  d == Missed(circuit[q])
  <2>1. At(p, "call") /\ q \in Providers /\ c \in Circuit
    BY <1>0, <1>5, FailsIs
  <2>2. PICK b : \E permanent \in BOOLEAN :
          /\ Step(p, q, d, b)
          /\ IF Trips(d, permanent) THEN b.pc = "open" /\ OnOf(b) = q ELSE Quiet(b)
    BY <1>0, <1>5, FailsIs
  <2>3. /\ d.state = c.state /\ d.failures = c.failures + 1 /\ d \in Circuit
        /\ d.opens = c.opens /\ d.opened = c.opened /\ d.locked = c.locked
    BY <2>1, MissedIs
  <2>4. /\ c.state \in {"closed", "half_open"} /\ ~ Busy(caller[p]) /\ Settled(c)
    BY <1>0, <2>1 DEF Knows, Busy, At
  <2>5. CallerOK(b) /\ Step(p, q, d, b)
    BY <2>2 DEF Step
  <2>6. Serves(c, d)
    BY <2>4 DEF Serves
  <2> HIDE DEF c, d, q
  <2>7. CASE b.pc = "open" /\ OnOf(b) = q
    <3>1. b.to = "none"
      BY <2>5, <2>7 DEF CallerOK
    <3>2. Knows(b, d) /\ Busy(b)
      BY <2>3, <2>4, <2>7, <3>1 DEF Knows, Busy
    <3>3. Careful(p, q, d, b)
      BY <2>4, <2>6, <2>7, <3>2 DEF Careful, c
    <3> QED
      BY <2>5, <3>3, CarefulStep DEF d
  <2>8. CASE Quiet(b) /\ \E permanent \in BOOLEAN : ~ Trips(d, permanent)
    <3>1. d.state # "half_open" /\ ~ (d.failures >= FailureThreshold)
      BY <2>8 DEF Trips
    <3>2. d.failures < FailureThreshold
      <4>1. d.failures \in Nat /\ FailureThreshold \in Nat
        BY <2>3, CircuitTypes, ConfigAssumption
      <4> QED
        BY <3>1, <4>1
    <3>3. Settled(d)
      BY <2>3, <2>4, <3>1, <3>2 DEF Settled, Rested
    <3>4. Careful(p, q, d, b)
      BY <2>4, <2>6, <2>8, <3>3 DEF Careful, c
    <3> QED
      BY <2>5, <3>4, CarefulStep DEF d
  <2> QED
    BY <2>2, <2>7, <2>8
<1>6. CASE Open(p)
  <2> DEFINE c == circuit[q]  d == Dated(circuit[q])
  <2>1. At(p, "open") /\ q \in Providers /\ c \in Circuit
    BY <1>0, <1>6, OpenIs
  <2>2. PICK b : /\ Step(p, q, d, b) /\ OnOf(b) = q
                 /\ \/ b.pc = "lock" /\ d.opens >= LockoutOpens
                    \/ b.pc = "trip" /\ b.to = "open"
    BY <1>0, <1>6, OpenIs
  <2>3. /\ d.state = c.state /\ d.opened = 0 /\ d.locked = c.locked
    BY <2>1, DatedIs
  <2>4. c.state \in {"closed", "half_open"}
    BY <1>0, <2>1 DEF Knows, At
  <2>5. b.pc = "lock" => b.to = "none"
    BY <2>2 DEF Step, CallerOK
  <2> HIDE DEF c, d, q
  <2>6. Knows(b, d) /\ Busy(b)
    BY <2>2, <2>3, <2>4, <2>5 DEF Knows, Busy, Never
  <2>7. Serves(c, d)
    BY <2>4 DEF Serves
  <2>8. Careful(p, q, d, b)
    BY <1>0, <2>2, <2>6, <2>7 DEF Careful, c
  <2> QED
    BY <2>2, <2>8, CarefulStep DEF d
<1>7. CASE Lock(p)
  <2> DEFINE c == circuit[q]  d == LockDated(circuit[q])
  <2>1. At(p, "lock") /\ q \in Providers /\ c \in Circuit
    BY <1>0, <1>7, LockIs
  <2>2. PICK b : Step(p, q, d, b) /\ OnOf(b) = q /\ b.pc = "trip" /\ b.to = "locked"
    BY <1>0, <1>7, LockIs
  <2>3. /\ d.state = c.state /\ d.opens = c.opens /\ d.opened = c.opened
        /\ d.locked = 0
    BY <2>1, LockDatedIs
  <2>4. /\ c.state \in {"closed", "half_open"} /\ c.opens >= LockoutOpens
        /\ c.opened # Never
    BY <1>0, <2>1 DEF Knows, At
  <2>5. Timed(d)
    <3>1. c.opened \in 0..Cooldown /\ 0 \in 0..Lockout
      BY <2>1, <2>4, CircuitTypes, ConfigAssumption
    <3>2. d.opened >= d.locked
      BY <2>3, <3>1
    <3> QED
      BY <2>3, <2>4, <3>1, <3>2 DEF Timed
  <2> HIDE DEF c, d, q
  <2>6. Knows(b, d) /\ Busy(b)
    BY <2>2, <2>3, <2>4, <2>5 DEF Knows, Busy
  <2>7. Serves(c, d)
    BY <2>4 DEF Serves
  <2>8. Careful(p, q, d, b)
    BY <1>0, <2>2, <2>6, <2>7 DEF Careful, c
  <2> QED
    BY <2>2, <2>8, CarefulStep DEF d
<1>8. CASE Trip(p)
  <2> DEFINE c == circuit[q]  d == Turned(circuit[q], caller[p].to)
  <2>1. /\ At(p, "trip") /\ caller[p].to \in {"open", "locked"}
        /\ q \in Providers /\ c \in Circuit
    BY <1>0, <1>8, TripIs
  <2>2. PICK b : Quiet(b) /\ Step(p, q, d, b)
    BY <1>0, <1>8, TripIs
  <2>3. /\ d.state = caller[p].to /\ d.opens = c.opens /\ d.opened = c.opened
        /\ d.locked = c.locked
    BY <2>1, TurnedIs DEF CircuitState
  <2>4. /\ c.state \in {"closed", "half_open"}
        /\ caller[p].to = "locked" => Timed(c)
    BY <1>0, <2>1 DEF Knows, At
  <2> HIDE DEF c, d, q
  <2>5. Settled(d) /\ Serves(c, d)
    BY <2>1, <2>3, <2>4 DEF Settled, Timed, Serves
  <2>6. Careful(p, q, d, b)
    BY <1>0, <2>2, <2>5 DEF Careful, c
  <2> QED
    BY <2>2, <2>6, CarefulStep DEF d
<1>9. CASE CallSucceeds(p)
  <2> DEFINE c == circuit[q]  d == Answered(circuit[q])  e == Cleared(Answered(circuit[q]))
  <2>1. At(p, "call") /\ q \in Providers /\ c \in Circuit
    BY <1>0, <1>9, SucceedsIs
  <2>2. PICK b : \/ c.state = "closed" /\ Quiet(b) /\ Step(p, q, e, b)
                 \/ /\ c.state # "closed" /\ b.pc = "close" /\ OnOf(b) = q
                    /\ Step(p, q, d, b)
    BY <1>0, <1>9, SucceedsIs
  <2>3. /\ d \in Circuit /\ d.state = c.state /\ d.failures = 0 /\ d.opened = c.opened
    BY <2>1, AnsweredIs
  <2>4. e.state = d.state /\ e.failures = d.failures /\ e.opened = Never
    BY <2>3, ClearedIs
  <2>5. /\ c.state \in {"closed", "half_open"} /\ ~ Busy(caller[p]) /\ Settled(c)
    BY <1>0, <2>1 DEF Knows, Busy, At
  <2>6. 0 < FailureThreshold
    BY ConfigAssumption
  <2> HIDE DEF c, d, e, q
  <2>7. CASE c.state = "closed" /\ Quiet(b) /\ Step(p, q, e, b)
    <3>1. Settled(e) /\ Serves(c, e)
      BY <2>3, <2>4, <2>6, <2>7 DEF Settled, Rested, Serves
    <3>2. Careful(p, q, e, b)
      BY <2>5, <2>7, <3>1 DEF Careful, c
    <3> QED
      BY <2>7, <3>2, CarefulStep DEF e
  <2>8. CASE c.state # "closed" /\ b.pc = "close" /\ OnOf(b) = q /\ Step(p, q, d, b)
    <3>1. c.state = "half_open" /\ Rested(c) /\ b.to = "none"
      BY <2>5, <2>8 DEF Settled, Step, CallerOK
    <3>2. Settled(d) /\ Serves(c, d) /\ Knows(b, d)
      BY <2>3, <2>8, <3>1 DEF Settled, Rested, Serves, Knows
    <3>3. Careful(p, q, d, b)
      BY <2>5, <2>8, <3>2 DEF Careful, c
    <3> QED
      BY <2>8, <3>3, CarefulStep DEF d
  <2> QED
    BY <2>2, <2>7, <2>8
<1>10. CASE Close(p)
  <2> DEFINE c == circuit[q]  d == Turned(circuit[q], "closed")
  <2>1. At(p, "close") /\ q \in Providers /\ c \in Circuit
    BY <1>0, <1>10, CloseIs
  <2>2. c.state = "half_open" /\ c.failures = 0 /\ Rested(c) /\ ~ Busy(caller[p])
    BY <1>0, <2>1 DEF Knows, Busy, At
  <2>3. PICK b : b.pc = "clear" /\ OnOf(b) = q /\ Step(p, q, d, b)
    BY <1>0, <1>10, <2>2, CloseIs
  <2>4. /\ d.state = "closed" /\ d.failures = c.failures /\ d.opened = c.opened
    BY <2>1, TurnedIs DEF CircuitState
  <2>5. b.to = "none"
    BY <2>3 DEF Step, CallerOK
  <2>6. 0 < FailureThreshold
    BY ConfigAssumption
  <2> HIDE DEF c, d, q
  <2>7. Settled(d)
    BY <2>2, <2>4, <2>6 DEF Settled, Rested
  <2>8. Serves(c, d) /\ Knows(b, d)
    BY <2>2, <2>3, <2>4, <2>5 DEF Serves, Knows
  <2>9. Careful(p, q, d, b)
    BY <2>2, <2>3, <2>7, <2>8 DEF Careful, c
  <2> QED
    BY <2>3, <2>9, CarefulStep DEF d
<1>11. CASE Clear(p)
  <2> DEFINE c == circuit[q]  d == Cleared(circuit[q])
  <2>1. At(p, "clear") /\ q \in Providers /\ c \in Circuit
    BY <1>0, <1>11, ClearIs
  <2>2. PICK b : Quiet(b) /\ Step(p, q, d, b)
    BY <1>0, <1>11, ClearIs
  <2>3. c.state = "closed" /\ ~ Busy(caller[p]) /\ Settled(c)
    BY <1>0, <2>1 DEF Knows, Busy, At
  <2>4. d.state = c.state /\ d.failures = c.failures /\ d.opened = Never
    BY <2>1, ClearedIs
  <2> HIDE DEF c, d, q
  <2>5. Settled(d) /\ Serves(c, d)
    BY <2>3, <2>4 DEF Settled, Rested, Serves
  <2>6. Careful(p, q, d, b)
    BY <2>2, <2>3, <2>5 DEF Careful, c
  <2> QED
    BY <2>2, <2>6, CarefulStep DEF d
<1>12. CASE ResetNext(p)
  <2>1. At(p, "reset") /\ q \in Providers
    BY <1>0, <1>12, ResetIs
  <2>2. PICK b : Quiet(b) /\ Step(p, q, Fresh, b)
    BY <1>0, <1>12, ResetIs
  <2>3. ~ Busy(caller[p])
    BY <1>0, <2>1 DEF Busy, At
  <2>4. Settled(Fresh) /\ Serves(circuit[q], Fresh)
    <3>1. 0 < FailureThreshold
      BY ConfigAssumption
    <3>2. Fresh.state = "closed" /\ Fresh.failures = 0 /\ Fresh.opened = Never
      BY DEF Fresh
    <3> QED
      BY <3>1, <3>2 DEF Settled, Rested, Serves
  <2>5. Careful(p, q, Fresh, b)
    BY <2>2, <2>3, <2>4 DEF Careful
  <2> QED
    BY <2>2, <2>5, CarefulStep
<1> QED
  BY <1>1, <1>2, <1>3, <1>4, <1>5, <1>6, <1>7, <1>8, <1>9, <1>10, <1>11, <1>12 DEF Proceed

(* Time keeps what rests at rest, and what is timed, timed.                *)
LEMMA RestTick ==
  ASSUME RestInv, Tick
  PROVE  Rest' /\ \A r \in Providers : Serves(circuit[r], circuit'[r])
<1>1. /\ UNCHANGED caller
      /\ \A q \in Providers : circuit'[q] = Older(circuit[q]) /\ circuit[q] \in Circuit
  BY TickIs DEF RestInv, GateInv
<1>2. ASSUME NEW q \in Providers
      PROVE  LET c == circuit[q]  d == circuit'[q] IN
             /\ d.state = c.state /\ d.failures = c.failures /\ d.opens = c.opens
             /\ Rested(c) => Rested(d)
             /\ Timed(c) => Timed(d)
             /\ c.opened = Cooldown => d.opened = Cooldown
             /\ c.opened # Never => d.opened # Never
             /\ d.locked = Never <=> c.locked = Never
  <2> DEFINE c == circuit[q]  d == circuit'[q]
  <2>1. c \in Circuit /\ d = Older(c)
    BY <1>1
  <2> HIDE DEF c, d
  <2>2. /\ d.state = c.state /\ d.failures = c.failures /\ d.opens = c.opens
        /\ d.opened = IF c.opened \in 0..(Cooldown - 1) THEN c.opened + 1 ELSE c.opened
        /\ d.locked = IF c.locked \in 0..(Lockout - 1) THEN c.locked + 1 ELSE c.locked
    BY <2>1, OlderIs
  <2>3. /\ c.opened \in {Never} \cup 0..Cooldown /\ c.locked \in {Never} \cup 0..Lockout
        /\ Cooldown \in Nat /\ Lockout \in Nat
    BY <2>1, CircuitTypes, ConfigAssumption
  <2>4. /\ c.opened = Cooldown => d.opened = Cooldown
        /\ c.opened # Never => d.opened # Never
        /\ c.opened = Never => d.opened = Never
    BY <2>2, <2>3 DEF Never
  <2>5. d.locked = Never <=> c.locked = Never
    BY <2>2, <2>3 DEF Never
  <2>6. c.opened >= Lockout => d.opened >= Lockout
    BY <2>2, <2>3 DEF Never
  <2>7. Rested(c) => Rested(d)
    BY <2>4, <2>6 DEF Rested
  <2>8. ASSUME Timed(c) PROVE Timed(d)
    <3>1. c.opened \in 0..Cooldown /\ c.locked \in 0..Lockout
      BY <2>3, <2>8 DEF Timed
    <3>2. d.locked \in 0..Lockout
      BY <2>2, <2>3, <3>1
    <3>3. d.opened >= d.locked \/ d.opened = Cooldown
      <4>1. CASE c.opened = Cooldown
        BY <2>4, <4>1
      <4>2. CASE c.opened # Cooldown
        <5>1. c.opened >= c.locked /\ d.opened = c.opened + 1
          BY <2>2, <2>3, <2>8, <3>1, <4>2 DEF Timed
        <5>2. d.locked <= c.locked + 1
          BY <2>2, <3>1
        <5> QED
          BY <3>1, <3>2, <5>1, <5>2
      <4> QED
        BY <4>1, <4>2
    <3> QED
      BY <2>2, <2>4, <2>8, <3>2, <3>3 DEF Timed
  <2> QED
    BY <2>2, <2>4, <2>5, <2>7, <2>8 DEF c, d
<1>3. \A q \in Providers : Settled(circuit[q]) => Settled(circuit'[q])
  BY <1>2 DEF Settled
<1>4. \A a : \A q \in Providers : Knows(a, circuit[q]) => Knows(a, circuit'[q])
  BY <1>2 DEF Knows
<1>5. \A p \in Callers : caller[p].pc # "idle" => OnOf(caller[p]) \in Providers
  BY CallerTyped DEF RestInv, GateInv
<1>6. Rest'
  BY <1>1, <1>3, <1>4, <1>5 DEF RestInv, Rest
<1>7. \A r \in Providers : Serves(circuit[r], circuit'[r])
  BY <1>2 DEF Serves
<1> QED
  BY <1>6, <1>7

LEMMA RestStart == Init => Rest
<1> SUFFICES ASSUME Init PROVE Rest
  OBVIOUS
<1>1. \A q \in Providers : circuit[q] = Fresh
  BY DEF Init
<1>2. \A p \in Callers : caller[p].pc = "idle"
  BY DEF Init, Idle
<1>3. Settled(Fresh)
  <2>1. 0 < FailureThreshold
    BY ConfigAssumption
  <2>2. Fresh.state = "closed" /\ Fresh.failures = 0 /\ Fresh.opened = Never
    BY DEF Fresh
  <2> QED
    BY <2>1, <2>2 DEF Settled, Rested
<1> QED
  BY <1>1, <1>2, <1>3 DEF Rest

LEMMA RestNext ==
  ASSUME OneCaller, RestInv, [Next]_vars
  PROVE  RestInv' /\ \A r \in Providers : Serves(circuit[r], circuit'[r])
<1>1. GateInv'
  BY GateNext DEF RestInv
<1>2. CASE UNCHANGED vars
  <2>1. UNCHANGED <<circuit, caller>>
    BY <1>2 DEF vars
  <2>2. Rest'
    BY <2>1 DEF RestInv, Rest
  <2>3. \A r \in Providers : Serves(circuit[r], circuit'[r])
    BY <2>1 DEF Serves
  <2> QED
    BY <1>1, <2>2, <2>3 DEF RestInv
<1>3. CASE Tick
  BY <1>1, <1>3, RestTick DEF RestInv
<1>4. CASE \E p \in Callers : Complete(p) \/ Status(p) \/ Reset(p) \/ Proceed(p)
  BY <1>1, <1>4, RestThread DEF RestInv
<1> QED
  BY <1>2, <1>3, <1>4 DEF Next

THEOREM RestInvariant ==
  ASSUME OneCaller
  PROVE  Spec => []RestInv
<1>1. Init => RestInv
  BY GateStart, RestStart DEF RestInv
<1>2. RestInv /\ [Next]_vars => RestInv'
  BY OneCaller, RestNext
<1> QED
  BY <1>1, <1>2, PTL DEF Spec

(* With one thread a circuit never stays closed with failure_threshold     *)
(* failures: resilience.py opens it in the same call.                      *)
THEOREM ClosedBelowThresholdHolds ==
  ASSUME OneCaller
  PROVE  Spec => []ClosedBelowThreshold
<1>1. RestInv => ClosedBelowThreshold
  <2> SUFFICES ASSUME RestInv, NEW q \in Providers, circuit[q].state = "closed"
               PROVE  \/ circuit[q].failures < FailureThreshold
                      \/ \E p \in Callers : Recording(p, q)
    BY DEF ClosedBelowThreshold
  <2>1. CASE Settled(circuit[q])
    BY <2>1 DEF Settled
  <2>2. CASE \E p \in Callers : Busy(caller[p]) /\ OnOf(caller[p]) = q
    <3>1. PICK p \in Callers : Busy(caller[p]) /\ OnOf(caller[p]) = q
      BY <2>2
    <3>2. On(p) = q /\ CallerOK(caller[p])
      BY <3>1, CallerTyped DEF RestInv, GateInv
    <3>3. CASE caller[p].pc \in {"open", "lock", "trip"}
      BY <3>2, <3>3 DEF Recording
    <3>4. CASE caller[p].to = "closed"
      <4>1. caller[p].pc # "idle"
        BY <3>2, <3>4 DEF CallerOK
      <4>2. Knows(caller[p], circuit[q])
        BY <3>1, <4>1 DEF RestInv, Rest
      <4> QED
        BY <3>4, <4>2 DEF Knows
    <3> QED
      BY <3>1, <3>3, <3>4 DEF Busy
  <2> QED
    BY <2>1, <2>2 DEF RestInv, Rest
<1> QED
  BY <1>1, RestInvariant, PTL

(* With one thread a locked circuit knows since when, so its lockout ends. *)
THEOREM LockedIsDatedHolds ==
  ASSUME OneCaller
  PROVE  Spec => []LockedIsDated
<1>1. RestInv => LockedIsDated
  <2> SUFFICES ASSUME RestInv, NEW q \in Providers, circuit[q].state = "locked"
               PROVE  \/ circuit[q].opens >= LockoutOpens /\ circuit[q].locked # Never
                      \/ \E p \in Callers : On(p) = q /\ caller[p].to = "closed"
    BY DEF LockedIsDated
  <2>1. CASE Settled(circuit[q])
    <3>1. Timed(circuit[q])
      BY <2>1 DEF Settled
    <3>2. Never \notin 0..Lockout
      BY DEF Never
    <3> QED
      BY <3>1, <3>2 DEF Timed
  <2>2. CASE \E p \in Callers : Busy(caller[p]) /\ OnOf(caller[p]) = q
    <3>1. PICK p \in Callers : Busy(caller[p]) /\ OnOf(caller[p]) = q
      BY <2>2
    <3>2. On(p) = q
      BY <3>1, CallerTyped DEF RestInv, GateInv
    <3>3. caller[p].pc \notin {"open", "lock", "trip"}
      <4>1. SUFFICES ASSUME caller[p].pc \in {"open", "lock", "trip"} PROVE FALSE
        OBVIOUS
      <4>2. Knows(caller[p], circuit[q])
        BY <3>1, <4>1 DEF RestInv, Rest
      <4> QED
        BY <4>1, <4>2 DEF Knows
    <3> QED
      BY <3>1, <3>2, <3>3 DEF Busy
  <2> QED
    BY <2>1, <2>2 DEF RestInv, Rest
<1> QED
  BY <1>1, RestInvariant, PTL

(* With one thread a tripped provider is not called before its cooldown    *)
(* (or a shorter lockout) is over.                                         *)
THEOREM CoolingIsLeftAloneHolds ==
  ASSUME OneCaller
  PROVE  Spec => CoolingIsLeftAlone
<1> DEFINE A == \A p \in Callers :
                  (At(p, "decide") /\ caller'[p].pc = "call") =>
                    LET t == circuit[On(p)].opened IN
                    t = Never \/ t >= Cooldown \/ t >= Lockout
<1>1. ASSUME RestInv, [Next]_vars PROVE A
  <2> SUFFICES ASSUME NEW p \in Callers, At(p, "decide"), caller'[p].pc = "call"
               PROVE  LET t == circuit[On(p)].opened IN
                      t = Never \/ t >= Cooldown \/ t >= Lockout
    OBVIOUS
  <2>1. \A r \in Callers : r = p
    BY DEF OneCaller
  <2>2. AllowDecide(p)
    <3>1. caller'[p] # caller[p]
      BY DEF At
    <3>2. ~ UNCHANGED vars /\ ~ Tick
      BY <3>1 DEF vars, Tick
    <3>3. Complete(p) \/ Status(p) \/ Reset(p) \/ Proceed(p)
      BY <1>1, <2>1, <3>2 DEF Next
    <3>4. ~ Complete(p) /\ ~ Status(p) /\ ~ Reset(p)
      BY DEF Complete, Status, Reset, At
    <3>5. ~ RefreshBegins(p) /\ ~ RefreshTurns(p)
      BY DEF RefreshBegins, RefreshTurns, At
    <3>6. ~ CallFails(p) /\ ~ Open(p) /\ ~ Lock(p) /\ ~ Trip(p)
      BY DEF CallFails, Open, Lock, Trip, At
    <3>7. ~ CallSucceeds(p) /\ ~ Close(p) /\ ~ Clear(p) /\ ~ ResetNext(p)
      BY DEF CallSucceeds, Close, Clear, ResetNext, At
    <3> QED
      BY <3>3, <3>4, <3>5, <3>6, <3>7 DEF Proceed
  <2>3. circuit[On(p)].state \in {"closed", "half_open"}
    <3>1. CASE \E b : Quiet(b) /\ Step(p, OnOf(b), circuit[OnOf(b)], b)
      <4>1. PICK b : Quiet(b) /\ Step(p, OnOf(b), circuit[OnOf(b)], b)
        BY <3>1
      <4>2. caller'[p] = b
        BY <1>1, <4>1, StepFacts DEF RestInv, GateInv
      <4> QED
        BY <4>1, <4>2 DEF Quiet
    <3>2. TypeOK
      BY <1>1 DEF RestInv, GateInv
    <3> QED
      BY <2>2, <3>1, <3>2, AdmitIs
  <2>4. On(p) \in Providers /\ ~ Busy(caller[p])
    <3>1. TypeOK /\ caller[p].to = "none"
      BY <1>1, RestFacts DEF RestInv, GateInv, At
    <3> QED
      BY <3>1, CallerTyped DEF At, Busy
  <2>5. Settled(circuit[On(p)])
    BY <1>1, <2>4, RestFacts
  <2>6. Rested(circuit[On(p)])
    BY <2>3, <2>5 DEF Settled
  <2>7. circuit[On(p)].opened = Cooldown => circuit[On(p)].opened >= Cooldown
    BY ConfigAssumption
  <2> QED
    BY <2>6, <2>7 DEF Rested
<1>2. RestInv /\ [Next]_vars => [A]_vars
  BY <1>1
<1> QED
  BY <1>2, RestInvariant, PTL DEF Spec, CoolingIsLeftAlone

(* With one thread a lockout lasts lockout_s unless an operator resets it. *)
THEOREM LockoutLastsHolds ==
  ASSUME OneCaller
  PROVE  Spec => LockoutLasts
<1> DEFINE A == \A q \in Providers :
                  LET c == circuit[q]  d == circuit'[q] IN
                  /\ c.state = "locked" /\ c.locked # Never
                  /\ d.state # "locked" \/ d.locked = Never
                  => c.locked >= Lockout \/ d = Fresh
<1>1. RestInv /\ [Next]_vars => [A]_vars
  <2> SUFFICES ASSUME RestInv, [Next]_vars PROVE A
    OBVIOUS
  <2>1. \A r \in Providers : Serves(circuit[r], circuit'[r])
    BY OneCaller, RestNext
  <2> QED
    BY <2>1 DEF Serves
<1> QED
  BY <1>1, RestInvariant, PTL DEF Spec, LockoutLasts
=============================================================================

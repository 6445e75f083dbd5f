-------------------------- MODULE MCWorkflowEngine --------------------------
(* Small instances of WorkflowEngine.                                      *)
EXTENDS WorkflowEngine, TLC

CONSTANTS a, b, c, d, w1, w2, cli, daemon

S(id, deps) == [id |-> id, deps |-> deps]

\* A diamond listed in the worst order, so that one pass is not enough, and
\* a cycle for register() to refuse.
Diamond == <<S(d, {b, c}), S(b, {a}), S(c, {a}), S(a, {})>>
Cycle == <<S(a, {b}), S(b, {a})>>
\* Two steps, and the same workflow edited after a failure.
Pair == <<S(a, {}), S(b, {a})>>
Edited == <<S(c, {})>>

OnlyDiamond == {Diamond, Cycle}
OnlyPair == {Pair}
DiamondOrEdited == {Diamond, Cycle, Edited}
PairOrEdited == {Pair, Edited}

AllInDaemon == [w \in Workers |-> daemon]
OneEach == [w \in Workers |-> IF w = w1 THEN daemon ELSE cli]
=============================================================================

---------------------------- MODULE MCEventMesh ----------------------------
(* Two nodes with a publishing and a polling thread each, and a second    *)
(* polling thread on the first.                                            *)
EXTENDS EventMesh, TLC

CONSTANTS n1, n2, p1, p2, i1, i2, i3

TwoOnFirst ==
  (p1 :> n1) @@ (i1 :> n1) @@ (i3 :> n1) @@ (p2 :> n2) @@ (i2 :> n2)
=============================================================================

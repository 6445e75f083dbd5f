---------------------------- MODULE MCActorMesh ----------------------------
(* Two nodes that dialled each other.  relay's handler on n2 requests echo,  *)
(* which n1 hosts.                                                           *)
EXTENDS ActorMesh, TLC

CONSTANTS n1, n2, c1, l1, l2, relay, echo

MCHomeOf == c1 :> n1
MCHostOf == (relay :> n2) @@ (echo :> n1)
MCCalls == (relay :> echo) @@ (echo :> None)
MCEnds == (l1 :> {n1, n2}) @@ (l2 :> {n1, n2})
=============================================================================

--------------------------- MODULE MCAgentRouting ---------------------------
(* AgentRouting for TLC: two clients; the first holds a subscription, the  *)
(* second a subscription and an action.                                    *)
EXTENDS AgentRouting

CONSTANTS c1, c2, s1, s2, a1
MCOwner == [r \in Reqs |-> IF r = s1 THEN c1 ELSE c2]
=============================================================================

--------------------------- MODULE MCAgentDeploy ---------------------------
(* Two supervisors and a remote pane, two hosts, two controller builds.    *)
(* One family of behaviours has the user, the hosts and all three callers  *)
(* disturb the known_hosts file; in two the supervisors deploy side by     *)
(* side, from one process or from two; the last has a bit of everything.   *)
EXTENDS AgentDeploy, TLC

CONSTANTS s1, s2, pane, ha, hb

MCAliasOf == (s1 :> "alpha" @@ s2 :> "alpha" @@ pane :> "beta")
MCSshConfig == {[token |-> "alpha", concrete |-> TRUE], [token |-> "beta", concrete |-> TRUE],
                [token |-> "gamma", concrete |-> TRUE],
                [token |-> "*", concrete |-> FALSE]}
MCResolve == ("alpha" :> ha @@ "beta" :> hb @@ "gamma" :> hb)
MCToml == <<[alias |-> "alpha", host |-> hb], [alias |-> "alpha", host |-> ha]>>
MCBroken == <<"broken">>
MCBinary == [p \in {1, 2} |-> IF p = 1 THEN "ours" ELSE "other"]

Dials(n, m) == [t \in Tasks |-> IF t = pane THEN m ELSE n]
Quiet == [dials |-> Dials(2, 0), edits |-> 0, rekeys |-> 0, forgets |-> 0, env |-> {},
          deployers |-> {s1, s2}, procOf |-> [t \in Tasks |-> 1]]

MCScenarios ==
    {[Quiet EXCEPT !.dials = [Dials(2, 1) EXCEPT ![t] = 1], !.edits = 1, !.rekeys = 1,
                   !.forgets = 1, !.deployers = {}] : t \in {s1, s2}}
    \cup {Quiet}
    \cup {[Quiet EXCEPT !.procOf[t] = 2, !.dials[t] = 1] : t \in {s1, s2}}
    \cup {[Quiet EXCEPT !.dials = [Dials(0, 1) EXCEPT ![t] = 2], !.edits = 1,
                        !.forgets = 1, !.env = {"alpha", "beta"}] : t \in {s1, s2}}

MCSymmetry == Permutations({s1, s2})
=============================================================================

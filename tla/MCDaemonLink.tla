---------------------------- MODULE MCDaemonLink ----------------------------
(* DaemonLink for TLC: the daemons are interchangeable.                    *)
EXTENDS DaemonLink, TLC

MCSymmetry == Permutations(Daemons)
=============================================================================

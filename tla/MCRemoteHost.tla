----------------------------- MODULE MCRemoteHost -----------------------------
(***************************************************************************)
(* What the daemon keeps for a remote host, for TLC: a pane on it and its  *)
(* forwarder (RemotePane), and the supervisors of its connection           *)
(* (HostSupervisor).  A pane has an SSH session of its own, so the two     *)
(* share no state: a behaviour is about one of them.                       *)
(***************************************************************************)
EXTENDS RemotePane, HostSupervisor

VARIABLE part    \* "pane" or "supervisors"

\* Next to a pane that runs, the supervisors wait for a Reconnect: neither fairness
\* asks anything of the part that stands still.
MCInit ==
    /\ RemoteInit /\ Init
    /\ part \in {"pane", "supervisors"}
    /\ part = "pane" => \A p \in Sups : st[p] = "idle"
MCNext ==
    /\ UNCHANGED part
    /\ \/ part = "pane" /\ RemoteNext /\ UNCHANGED vars
       \/ part = "supervisors" /\ Next /\ UNCHANGED remoteVars
MCSpec == MCInit /\ [][MCNext]_<<remoteVars, vars, part>> 
          /\ RemoteFairness /\ Fairness
=============================================================================

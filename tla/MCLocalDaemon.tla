---------------------------- MODULE MCLocalDaemon ----------------------------
(***************************************************************************)
(* What the daemon serves from its own machine, for TLC: a local pane and  *)
(* its forwarder (LocalPane), and the session of a client with its tasks   *)
(* (ClientSession, where the pane is one of the things that tasks carry).  *)
(* The two share no state: a behaviour is about one of them.               *)
(***************************************************************************)
EXTENDS LocalPane, ClientSession

VARIABLE part    \* "pane" or "session"

MCInit == LocalInit /\ Init /\ part \in {"pane", "session"}
MCNext ==
    /\ UNCHANGED part
    /\ \/ part = "pane" /\ LocalNext /\ UNCHANGED vars
       \/ part = "session" /\ Next /\ UNCHANGED localVars
\* LocalFairness asks nothing of a pane that has not started; Fairness would ask
\* a session to read its Hello, so it is stated for the behaviours about it.
InSession(A) == part = "session" /\ A
MCFairness ==
    /\ LocalFairness
    /\ WF_vars(InSession(ReadHello)) /\ WF_vars(InSession(ReadFails))
    /\ WF_vars(InSession(Close)) /\ WF_vars(InSession(Writer))
    /\ WF_vars(InSession(ActionEnds))
    /\ \A n \in Tasks : WF_vars(InSession(Poll(n))) /\ WF_vars(InSession(Dropped(n)))
MCSpec == MCInit /\ [][MCNext]_<<localVars, vars, part>> /\ MCFairness
=============================================================================

--------------------------- MODULE HostSupervisor ---------------------------
(***************************************************************************)
(* tepegoz-core, client.rs: the supervisors of one SSH host.  Each Fleet   *)
(* subscription runs a host_supervisor of its own for the host, dialling,  *)
(* deploying an agent, sending heartbeats and backing off; all of them     *)
(* share one entry of the agent pool, which is keyed by alias only.        *)
(*                                                                         *)
(* Time is counted in heartbeat intervals.  russh and the host decide how  *)
(* a connection attempt ends and when a session dies.                      *)
(***************************************************************************)
EXTENDS Integers, Sequences

CONSTANTS Sups,             \* Fleet subscriptions that list the host
          Nobody,           \* no entry in agent_conns for the alias
          Rungs,            \* length of SSH_BACKOFF_LADDER
          DegradedAfter,    \* SSH_DEGRADED_THRESHOLD
          DisconnectAfter,  \* SSH_DISCONNECTED_THRESHOLD
          ResetAfter,       \* SSH_RECONNECT_RESET_THRESHOLD / SSH_HEARTBEAT_INTERVAL
          MaxActions        \* bound: FleetActions of a client in a behaviour

ASSUME SupervisorConstants ==
    /\ Nobody \notin Sups
    /\ Rungs \in Nat \ {0} /\ DegradedAfter \in Nat \ {0}
    /\ DisconnectAfter \in Nat /\ DisconnectAfter > DegradedAfter
    /\ ResetAfter \in Nat /\ MaxActions \in Nat

VARIABLES
    st,       \* where each supervisor stands
    queue,    \* HostActions sent to it and not yet taken
    sentTo,   \* HostActions sent to it so far
    last,     \* the action it took last ("none" at first)
    backoff,  \* backoff_idx
    shown,    \* the HostState it emitted last
    caps,     \* its last AgentCapabilities event was not empty
    up,       \* its SSH session is up
    age,      \* heartbeat intervals since Connected (counted to ResetAfter)
    misses,   \* miss_counter
    ended,    \* ConnectedOutcome
    pool      \* the supervisor whose agent is in agent_conns, or Nobody

vars == <<st, queue, sentTo, last, backoff, shown, caps, up, age, misses, ended, pool>>

Location == {"jump", "idle", "dial", "connecting", "deploy", "session", "over",
             "backoff", "terminal", "aborted"}
HostAction == {"reconnect", "disconnect"}
HostState == {"disconnected", "connecting", "connected", "degraded",
              "auth_failed", "host_key_mismatch"}

\* f[p] becomes v and every other entry stays.
Set(f, p, v) == [f EXCEPT ![p] = v]

-----------------------------------------------------------------------------
(* Actions from the coordinator: forward_fleet's dispatch.                 *)

Dispatch(p, a) ==
    /\ st[p] # "aborted"
    /\ sentTo[p] < MaxActions
    /\ sentTo' = Set(sentTo, p, sentTo[p] + 1)
    /\ queue' = Set(queue, p, Append(queue[p], a))
    /\ UNCHANGED <<st, last, backoff, shown, caps, up, age, misses, ended, pool>>

\* action_rx.recv(): every select of the supervisor is biased towards it.
Take(p, a) ==
    /\ queue[p] # <<>> /\ Head(queue[p]) = a
    /\ queue' = Set(queue, p, Tail(queue[p]))
    /\ last' = Set(last, p, a)
    /\ UNCHANGED <<sentTo, caps, up, age, misses, pool>>

\* A ProxyJump host stays AuthFailed; Reconnect only emits it again.
JumpTakes(p) ==
    /\ st[p] = "jump"
    /\ \E a \in HostAction : Take(p, a)
    /\ UNCHANGED <<st, backoff, shown, ended>>

IdleTakes(p) ==
    /\ st[p] = "idle"
    /\ \/ Take(p, "reconnect") /\ st' = Set(st, p, "dial") /\ backoff' = Set(backoff, p, 0)
       \/ Take(p, "disconnect") /\ UNCHANGED <<st, backoff>>
    /\ UNCHANGED <<shown, ended>>

\* The attempt under way is aborted.
ConnectingTakes(p) ==
    /\ st[p] = "connecting"
    /\ \/ /\ Take(p, "reconnect")
          /\ st' = Set(st, p, "dial") /\ backoff' = Set(backoff, p, 0)
          /\ UNCHANGED shown
       \/ /\ Take(p, "disconnect")
          /\ st' = Set(st, p, "idle") /\ shown' = Set(shown, p, "disconnected")
          /\ UNCHANGED backoff
    /\ UNCHANGED ended

SessionTakes(p) ==
    /\ st[p] = "session"
    /\ \E a \in HostAction : Take(p, a) /\ ended' = Set(ended, p, a)
    /\ st' = Set(st, p, "over")
    /\ UNCHANGED <<backoff, shown>>

\* wait_backoff, interrupted.
BackoffTakes(p) ==
    /\ st[p] = "backoff"
    /\ \/ Take(p, "reconnect") /\ st' = Set(st, p, "dial") /\ backoff' = Set(backoff, p, 0)
       \/ Take(p, "disconnect") /\ st' = Set(st, p, "idle") /\ UNCHANGED backoff
    /\ UNCHANGED <<shown, ended>>

\* Mutant: a terminal state swallows every action.
TerminalTakes_Swallows(p) ==
    /\ st[p] = "terminal"
    /\ \E a \in HostAction : Take(p, a)
    /\ UNCHANGED <<st, backoff, shown, ended>>

\* await_terminal_reset.
TerminalTakes(p) ==
    /\ st[p] = "terminal"
    /\ \/ /\ Take(p, "reconnect")
          /\ st' = Set(st, p, "dial") /\ backoff' = Set(backoff, p, 0)
          /\ shown' = Set(shown, p, "disconnected")
       \/ Take(p, "disconnect") /\ UNCHANGED <<st, backoff, shown>>
    /\ UNCHANGED ended

-----------------------------------------------------------------------------
(* Connecting.                                                             *)

\* The head of the loop: emit Connecting and start try_connect.
Dial(p) ==
    /\ st[p] = "dial"
    /\ st' = Set(st, p, "connecting")
    /\ shown' = Set(shown, p, "connecting")
    /\ UNCHANGED <<queue, sentTo, last, backoff, caps, up, age, misses, ended, pool>>

ConnectSucceeds(p) ==
    /\ st[p] = "connecting" /\ queue[p] = <<>>
    /\ st' = Set(st, p, "deploy")
    /\ shown' = Set(shown, p, "connected")
    /\ up' = Set(up, p, TRUE) /\ age' = Set(age, p, 0)
    /\ UNCHANGED <<queue, sentTo, last, backoff, caps, misses, ended, pool>>

\* HostKeyMismatch and AuthFailed are terminal, any other error is retried.
ConnectFails(p) ==
    /\ st[p] = "connecting" /\ queue[p] = <<>>
    /\ \/ st' = Set(st, p, "terminal")
          /\ \E s \in {"auth_failed", "host_key_mismatch"} : shown' = Set(shown, p, s)
       \/ st' = Set(st, p, "backoff") /\ shown' = Set(shown, p, "disconnected")
    /\ UNCHANGED <<queue, sentTo, last, backoff, caps, up, age, misses, ended, pool>>

\* deploy_and_register_agent (best effort), then AgentCapabilities.  Actions
\* wait until it is over.
Deploy(p) ==
    /\ st[p] = "deploy"
    /\ st' = Set(st, p, "session")
    /\ \/ up[p] /\ pool' = p /\ caps' = Set(caps, p, TRUE)
       \/ UNCHANGED pool /\ caps' = Set(caps, p, FALSE)
    /\ misses' = Set(misses, p, 0)
    /\ UNCHANGED <<queue, sentTo, last, backoff, shown, up, age, ended>>

\* wait_backoff, elapsed: one rung up the ladder.
BackoffElapses(p) ==
    /\ st[p] = "backoff" /\ queue[p] = <<>>
    /\ st' = Set(st, p, "dial")
    /\ backoff' = Set(backoff, p, IF backoff[p] + 1 < Rungs THEN backoff[p] + 1 ELSE Rungs - 1)
    /\ UNCHANGED <<queue, sentTo, last, shown, caps, up, age, misses, ended, pool>>

-----------------------------------------------------------------------------
(* Connected.                                                              *)

\* The transport fails: the handle is closed, or keepalives no longer go out.
SessionDies(p) ==
    /\ st[p] \in {"deploy", "session"} /\ up[p]
    /\ up' = Set(up, p, FALSE)
    /\ UNCHANGED <<st, queue, sentTo, last, backoff, shown, caps, age, misses, ended, pool>>

\* Keepalives may fail on a handle that is still open and go through later.
SessionRecovers(p) ==
    /\ st[p] = "session" /\ ~up[p]
    /\ up' = Set(up, p, TRUE)
    /\ UNCHANGED <<st, queue, sentTo, last, backoff, shown, caps, age, misses, ended, pool>>

\* One tick of run_connected_session's interval.
Heartbeat(p) ==
    /\ st[p] = "session" /\ queue[p] = <<>>
    /\ age' = Set(age, p, IF age[p] < ResetAfter THEN age[p] + 1 ELSE age[p])
    /\ LET n == IF up[p] THEN 0 ELSE misses[p] + 1
       IN  /\ misses' = Set(misses, p, n)
           /\ IF n >= DisconnectAfter
              THEN st' = Set(st, p, "over") /\ ended' = Set(ended, p, "failed") /\ UNCHANGED shown
              ELSE /\ shown' = Set(shown, p,
                                 IF n >= DegradedAfter THEN "degraded" ELSE "connected")
                   /\ UNCHANGED <<st, ended>>
    /\ UNCHANGED <<queue, sentTo, last, backoff, caps, up, pool>>

\* Mutant: the pool entry is left for the next registration to replace.
SessionOver_KeepsEntry(p) ==
    /\ st[p] = "over"
    /\ up' = Set(up, p, FALSE)
    /\ caps' = Set(caps, p, FALSE)
    /\ shown' = Set(shown, p, "disconnected")
    /\ st' = Set(st, p, [failed |-> "backoff", reconnect |-> "dial",
                         disconnect |-> "idle"][ended[p]])
    /\ UNCHANGED <<queue, sentTo, last, backoff, age, misses, ended, pool>>

\* The session is dropped, remove_and_shutdown_agent removes the alias's entry
\* whoever put it there, empty AgentCapabilities and Disconnected are emitted,
\* and the outcome decides what comes next.
SessionOver(p) ==
    /\ st[p] = "over"
    /\ up' = Set(up, p, FALSE)
    /\ pool' = Nobody
    /\ caps' = Set(caps, p, FALSE)
    /\ shown' = Set(shown, p, "disconnected")
    /\ backoff' = Set(backoff, p,
          IF ended[p] = "reconnect" \/ (ended[p] = "failed" /\ age[p] >= ResetAfter)
          THEN 0 ELSE backoff[p])
    /\ st' = Set(st, p, [failed |-> "backoff", reconnect |-> "dial",
                         disconnect |-> "idle"][ended[p]])
    /\ age' = Set(age, p, 0) /\ misses' = Set(misses, p, 0)
    /\ ended' = Set(ended, p, "failed")
    /\ UNCHANGED <<queue, sentTo, last>>

\* Unsubscribe, or the client went away: forward_fleet is aborted and its
\* JoinSet aborts the supervisor wherever it stands.  Nobody reads what it said.
Abort(p) ==
    /\ st[p] # "aborted"
    /\ st' = Set(st, p, "aborted")
    /\ up' = Set(up, p, FALSE)
    /\ queue' = Set(queue, p, <<>>) /\ backoff' = Set(backoff, p, 0)
    /\ age' = Set(age, p, 0) /\ misses' = Set(misses, p, 0)
    /\ shown' = Set(shown, p, "disconnected") /\ caps' = Set(caps, p, FALSE)
    /\ ended' = Set(ended, p, "failed")
    /\ UNCHANGED <<sentTo, last, pool>>

-----------------------------------------------------------------------------

\* A host with ProxyJump, one that autoconnects, or one that waits.
Init ==
    /\ \E s \in {"jump", "dial", "idle"} : st = [p \in Sups |-> s]
    /\ shown = [p \in Sups |-> IF st[p] = "jump" THEN "auth_failed" ELSE "disconnected"]
    /\ queue = [p \in Sups |-> <<>>]
    /\ sentTo = [p \in Sups |-> 0]
    /\ last = [p \in Sups |-> "none"]
    /\ backoff = [p \in Sups |-> 0]
    /\ caps = [p \in Sups |-> FALSE]
    /\ up = [p \in Sups |-> FALSE]
    /\ age = [p \in Sups |-> 0]
    /\ misses = [p \in Sups |-> 0]
    /\ ended = [p \in Sups |-> "failed"]
    /\ pool = Nobody

Takes(p) == JumpTakes(p) \/ IdleTakes(p) \/ ConnectingTakes(p) \/ SessionTakes(p)
            \/ BackoffTakes(p) \/ TerminalTakes(p)
Runs(p) == Dial(p) \/ ConnectSucceeds(p) \/ ConnectFails(p) \/ Deploy(p)
           \/ BackoffElapses(p) \/ Heartbeat(p) \/ SessionOver(p)

Next == \E p \in Sups :
    \/ \E a \in HostAction : Dispatch(p, a)
    \/ Takes(p) \/ Runs(p)
    \/ SessionDies(p) \/ SessionRecovers(p) \/ Abort(p)

\* tokio runs the supervisors and their timers, and a connection attempt, like
\* a deployment, ends.
Fairness == \A p \in Sups : WF_vars(Takes(p) \/ Runs(p))

Spec == Init /\ [][Next]_vars /\ Fairness

-----------------------------------------------------------------------------
(* Properties.                                                             *)

TypeOK ==
    /\ st \in [Sups -> Location]
    /\ queue \in [Sups -> Seq(HostAction)]
    /\ sentTo \in [Sups -> 0 .. MaxActions]
    /\ last \in [Sups -> HostAction \cup {"none"}]
    /\ backoff \in [Sups -> 0 .. Rungs - 1]
    /\ shown \in [Sups -> HostState]
    /\ caps \in [Sups -> BOOLEAN] /\ up \in [Sups -> BOOLEAN]
    /\ age \in [Sups -> 0 .. ResetAfter]
    /\ misses \in [Sups -> 0 .. DisconnectAfter]
    /\ ended \in [Sups -> {"failed"} \cup HostAction]
    /\ pool \in Sups \cup {Nobody}

\* The agent in the pool was registered by a supervisor that is still in its
\* session (or was aborted, which skips the cleanup), even where supervisors
\* replace and remove each other's entry.
PooledAgentHasSession ==
    \A p \in Sups : pool = p => st[p] \in {"session", "over", "aborted"}

\* The supervisors' types, and their hold on the pool.
SupervisorInv == TypeOK /\ PooledAgentHasSession

\* After Disconnect a supervisor dials no more until it has taken a Reconnect:
\* HostAction::Disconnect, "stay idle until the next Reconnect", in whatever
\* state it arrives, terminal states and the backoff included.
DisconnectSticks ==
    [][\A p \in Sups : st[p] # "connecting" /\ st'[p] = "connecting"
                           => last[p] # "disconnect"]_vars

\* Reconnect "works from any state, including terminal": it leads to an attempt
\* (or is overtaken by the end of the subscription).
ReconnectDials ==
    \A p \in Sups :
        queue[p] # <<>> /\ Head(queue[p]) = "reconnect" /\ st[p] \notin {"jump", "connecting"}
            ~> st[p] \in {"connecting", "aborted"}

\* Disconnect holds until Reconnect, and Reconnect is never lost: the two orders
\* of a client, in whatever state they arrive.
ActionsObeyed == DisconnectSticks /\ ReconnectDials

\* A session that stays dead is noticed by the heartbeat: its agent leaves the
\* pool and the host is shown as disconnected.
DeadSessionCleared ==
    \A p \in Sups : [](st[p] = "session" /\ ~up[p]
        => <>(up[p] \/ st[p] = "aborted" \/ (pool # p /\ shown[p] = "disconnected")))

=============================================================================

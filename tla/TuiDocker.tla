------------------------------ MODULE TuiDocker ------------------------------
(***************************************************************************)
(* The Docker tile of the TUI (tepegoz-tui, app.rs): container list with   *)
(* filter and selection, confirm prompt, logs view, host picker and the    *)
(* actions it sends, against the daemon's session (tepegoz-core,           *)
(* client.rs), which serves each subscription locally or through the agent *)
(* of a remote host.                                                       *)
(*                                                                         *)
(* Host 0 is this machine and row h of the picker is host h.  A container  *)
(* is a number; the same number on two hosts is two containers.  Filters   *)
(* are numbered by their length.  What the rows look like, and the text of *)
(* the logs, is left out (DockerLogs has the latter).                      *)
(***************************************************************************)
EXTENDS Integers, Sequences, SequencesExt, FilteredRows

CONSTANTS MaxHost,      \* remote hosts are 1 .. MaxHost
          Lists,        \* container lists an engine can answer with
          Matching,     \* Matching[n]: the containers that pass a filter of length n
          MaxId,        \* ids that alloc_sub_id can hand out
          MaxUp, MaxDown    \* bounds on what is in flight

Local == 0
Aborted == -1   \* who speaks for a local forwarder after its abort
Hosts == Local .. MaxHost
Containers == UNION {Range(l) : l \in Lists}
Filters == DOMAIN Matching
Ids == 1 .. MaxId
ListSub == 0    \* docker.sub_id

ASSUME TuiDockerConstants ==
    /\ MaxHost \in Nat /\ MaxId \in Nat /\ MaxUp \in Nat /\ MaxDown \in Nat
    /\ Matching[0] = Containers /\ 0 \in Filters
    /\ \A l \in Lists : l \in Seq(Range(l))
    /\ \A n \in Filters \ {0} : n - 1 \in Filters /\ Matching[n] \subseteq Matching[n - 1]

VARIABLES
    focus,     \* View.focused: "docker" or "other"
    target,    \* DockerScope.target
    shown,     \* DockerScope.state: [st, host, rows]; host: who said it (history)
    sel,       \* DockerScope.selection, counted from 1
    filter, typing,   \* DockerScope.filter and filter_active
    logs,      \* DockerScope.view: the set of its LogsView, or {}
    confirm,   \* DockerScope.pending_confirm: the set of it, or {}
    picker,    \* App.host_picker: the set of its selected row, or {}
    usable,    \* hosts whose picker row is usable
    nextId,    \* App.next_sub_id
    pending,   \* App.pending_actions
    toasts,    \* history: what the user was told of each request
    up, down,  \* commands and replies in flight
    lists,     \* daemon: hosts that serve the list subscription
    late,      \* daemon: a local list forwarder was aborted and has not stopped
    streams,   \* daemon: log subscriptions that stream, [sub, host]
    acts,      \* daemon: actions under way, [id, host]
    agents,    \* daemon: hosts whose agent connection takes requests
    deaf       \* daemon: hosts whose connection has no parser any more, or none

viewVars == <<shown, sel, filter, typing>>
tileVars == <<target, viewVars, logs, confirm>>
tuiVars == <<focus, tileVars, picker, usable, nextId, pending, toasts>>
daemonVars == <<lists, late, streams, acts, agents, deaf>>
vars == <<tuiVars, up, down, daemonVars>>

Init ==
    /\ focus = "docker" /\ target = Local
    /\ shown = [st |-> "connecting", host |-> Local, rows |-> <<>>]
    /\ sel = 1 /\ filter = 0 /\ typing = FALSE
    /\ logs = {} /\ confirm = {} /\ picker = {} /\ usable = {}
    /\ nextId = 1 /\ pending = {} /\ toasts = [i \in Ids |-> <<>>]
    /\ up = <<[t |-> "sub", id |-> ListSub, host |-> Local]>> /\ down = <<>>
    /\ lists = {} /\ late = FALSE /\ streams = {} /\ acts = {}
    /\ agents \in SUBSET (Hosts \ {Local}) /\ deaf = (Hosts \ {Local}) \ agents

Room(n) == Len(up) + n <= MaxUp
Unsub(id) == [t |-> "unsub", id |-> id]

\* The rows on the screen, and the one under the cursor.
Visible(rows, f) == FilterRows(rows, Matching[f])
VisibleRows == Visible(shown.rows, filter)
Selected == IF sel \in DOMAIN VisibleRows THEN {VisibleRows[sel]} ELSE {}

\* clamp_selection, for a list and a filter that are about to be in force.
ClampedIn(rows, f) ==
    LET n == Len(Visible(rows, f))
    IN  IF n = 0 THEN 1 ELSE IF sel > n THEN n ELSE sel

-----------------------------------------------------------------------------
(* Keys.  The picker takes them first, then the logs view, then the        *)
(* confirm prompt, then the filter, then the list.                         *)

TileKeys == focus = "docker" /\ picker = {}
ListKeys == TileKeys /\ logs = {} /\ confirm = {} /\ ~typing

Navigate ==
    /\ ListKeys
    /\ LET n == Len(VisibleRows) IN
       sel' \in {IF sel > 1 THEN sel - 1 ELSE 1, IF sel < n THEN sel + 1 ELSE sel,
                 1, IF n = 0 THEN 1 ELSE n}
    /\ UNCHANGED <<focus, target, shown, filter, typing, logs, confirm, picker, usable,
                   nextId, pending, toasts, up, down, daemonVars>>

FilterKey ==
    /\ TileKeys /\ logs = {} /\ confirm = {}
    /\ \/ ~typing /\ typing' = TRUE /\ UNCHANGED <<filter, sel>>         \* "/"
       \/ typing /\ typing' = FALSE /\ UNCHANGED <<filter, sel>>         \* Enter
       \/ /\ typing /\ typing' = FALSE                                   \* Escape
          /\ filter' = 0 /\ sel' = ClampedIn(shown.rows, 0)
       \/ /\ typing /\ UNCHANGED typing                                  \* a character
          /\ filter' \in {filter - 1, filter + 1} \cap Filters
          /\ sel' = ClampedIn(shown.rows, filter')
    /\ UNCHANGED <<focus, target, shown, logs, confirm, picker, usable,
                   nextId, pending, toasts, up, down, daemonVars>>

\* dispatch_docker_action.  asked: the prompt that led to it (history).
Dispatch(kind, c, asked) ==
    /\ nextId \in Ids /\ Room(1)
    /\ nextId' = nextId + 1
    /\ pending' = pending \cup {nextId}
    /\ up' = Append(up, [t |-> "act", id |-> nextId, host |-> target,
                         kind |-> kind, c |-> c, asked |-> asked])

\* r and s act at once.
ActNow ==
    /\ ListKeys
    /\ \E c \in Selected : Dispatch("stop", c, {})
    /\ UNCHANGED <<focus, tileVars, picker, usable, toasts, down, daemonVars>>

\* dispatch_fleet_reconnect, from the Fleet tile, shares ids and deadlines.
Reconnect ==
    /\ focus = "other" /\ picker = {} /\ nextId \in Ids /\ Room(1)
    /\ nextId' = nextId + 1
    /\ pending' = pending \cup {nextId}
    /\ up' = Append(up, [t |-> "act", id |-> nextId, host |-> Local,
                         kind |-> "reconnect", c |-> 0, asked |-> {}])
    /\ UNCHANGED <<focus, tileVars, picker, usable, toasts, down, daemonVars>>

\* K and X ask first.
BeginConfirm ==
    /\ ListKeys
    /\ \E c \in Selected :
          confirm' = {[kind |-> "remove", c |-> c, host |-> target]}
    /\ UNCHANGED <<focus, target, viewVars, logs, picker, usable, nextId, pending, toasts,
                   up, down, daemonVars>>

\* Mutant: y acts on the row that is selected now.
ConfirmKey_ActsOnSelected ==
    /\ TileKeys /\ logs = {} /\ confirm # {}
    /\ \E p \in confirm, c \in Selected : Dispatch(p.kind, c, confirm)
    /\ confirm' = {}
    /\ UNCHANGED <<focus, target, viewVars, logs, picker, usable, toasts, down, daemonVars>>

\* y confirms, K and X are absorbed, any other key cancels.
ConfirmKey ==
    /\ TileKeys /\ logs = {} /\ confirm # {}
    /\ confirm' = {}
    /\ \/ \E p \in confirm : Dispatch(p.kind, p.c, confirm)
       \/ UNCHANGED <<nextId, pending, up>>
    /\ UNCHANGED <<focus, target, viewVars, logs, picker, usable, toasts, down, daemonVars>>

\* try_enter_logs_view.
EnterLogs ==
    /\ ListKeys /\ nextId \in Ids /\ Room(1)
    /\ \E c \in Selected :
          /\ logs' = {[c |-> c, sub |-> nextId, ended |-> FALSE]}
          /\ up' = Append(up, [t |-> "logs", id |-> nextId, host |-> target])
    /\ nextId' = nextId + 1
    /\ UNCHANGED <<focus, target, viewVars, confirm, picker, usable, pending, toasts,
                   down, daemonVars>>

\* handle_logs_key, Escape or q.
LeaveLogs ==
    /\ TileKeys /\ logs # {} /\ Room(1)
    /\ logs' = {}
    /\ \E l \in logs : up' = Append(up, Unsub(l.sub))
    /\ UNCHANGED <<focus, target, viewVars, confirm, picker, usable, nextId, pending, toasts,
                   down, daemonVars>>

-----------------------------------------------------------------------------
(* The host picker.                                                        *)

\* On Ctrl-b t or a click on the title bar; the row of the target is selected.
OpenPicker ==
    /\ TileKeys
    /\ picker' = {target}
    /\ UNCHANGED <<focus, tileVars, usable, nextId, pending, toasts, up, down, daemonVars>>

\* Keys move the selection, and Escape, a click or another command dismisses.
PickerKey ==
    /\ picker # {}
    /\ \/ picker' = {}
       \/ \E row \in picker :
             picker' \in {{row - 1}, {row + 1}, {Local}, {MaxHost}} /\ picker' \subseteq Hosts
    /\ UNCHANGED <<focus, tileVars, usable, nextId, pending, toasts, up, down, daemonVars>>

\* Mutant: the logs of the old host are not unsubscribed.
Retarget_KeepsStream(host) ==
    /\ Room(2)
    /\ up' = up \o <<Unsub(ListSub), [t |-> "sub", id |-> ListSub, host |-> host]>>
    /\ logs' = {} /\ confirm' = {} /\ target' = host /\ sel' = 1
    /\ shown' = [st |-> "connecting", host |-> host, rows |-> <<>>]
    /\ UNCHANGED <<filter, typing>>

\* Mutant: the new subscription goes out before the old one is given up.
Retarget_Swapped(host) ==
    /\ Room(3)
    /\ up' = up \o <<[t |-> "sub", id |-> ListSub, host |-> host], Unsub(ListSub)>>
                \o SetToSeq({Unsub(l.sub) : l \in logs})
    /\ logs' = {} /\ confirm' = {} /\ target' = host /\ sel' = 1
    /\ shown' = [st |-> "connecting", host |-> host, rows |-> <<>>]
    /\ UNCHANGED <<filter, typing>>

\* retarget_docker: the subscription id stays, the target changes.
Retarget(host) ==
    IF host = target THEN UNCHANGED <<tileVars, up>>
    ELSE /\ Room(3)
         /\ up' = up \o SetToSeq({Unsub(l.sub) : l \in logs})
                     \o <<Unsub(ListSub), [t |-> "sub", id |-> ListSub, host |-> host]>>
         /\ logs' = {} /\ confirm' = {} /\ target' = host /\ sel' = 1
         /\ shown' = [st |-> "connecting", host |-> host, rows |-> <<>>]
         /\ UNCHANGED <<filter, typing>>

\* Enter: commit_host_picker.  An unusable row leaves the picker open.
CommitPicker ==
    /\ \E row \in picker : (row = Local \/ row \in usable) /\ Retarget(row)
    /\ picker' = {}
    /\ UNCHANGED <<focus, usable, nextId, pending, toasts, down, daemonVars>>

-----------------------------------------------------------------------------
(* Focus, clicks and the tick.                                             *)

\* move_focus_to: leaving the tile cancels the prompt.
MoveFocus ==
    /\ picker = {}
    /\ focus' \in {"docker", "other"} \ {focus}
    /\ confirm' = IF focus = "docker" THEN {} ELSE confirm
    /\ UNCHANGED <<target, viewVars, logs, picker, usable, nextId, pending, toasts,
                   up, down, daemonVars>>

\* A pane that was opened earlier arrives and takes the focus to the pty tile
\* (handle_pane_opened); the prompt stays.
PaneTakesFocus ==
    /\ focus = "docker" /\ focus' = "other"
    /\ UNCHANGED <<tileVars, picker, usable, nextId, pending, toasts, up, down, daemonVars>>

\* A click on a row selects it, in whatever state the tile is.
ClickRow ==
    /\ picker = {}
    /\ focus' = "docker" /\ sel' \in DOMAIN VisibleRows
    /\ UNCHANGED <<target, shown, filter, typing, logs, confirm, picker, usable,
                   nextId, pending, toasts, up, down, daemonVars>>

\* sweep_expired: the prompt after 10 s, an action after 30 s.
ConfirmExpires ==
    /\ confirm # {} /\ confirm' = {}
    /\ UNCHANGED <<focus, target, viewVars, logs, picker, usable, nextId, pending, toasts,
                   up, down, daemonVars>>

ActionExpires ==
    /\ \E i \in pending :
          /\ pending' = pending \ {i}
          /\ toasts' = [toasts EXCEPT ![i] = Append(@, "timed out")]
    /\ UNCHANGED <<focus, tileVars, picker, usable, nextId, up, down, daemonVars>>

-----------------------------------------------------------------------------
(* What arrives from the daemon.                                           *)

Arrives(t) == down # <<>> /\ Head(down).t = t /\ down' = Tail(down)

\* handle_docker_event.  The event does not say which target it is about.
ContainerList ==
    /\ Arrives("list")
    /\ shown' = [st |-> "available", host |-> Head(down).host, rows |-> Head(down).rows]
    /\ sel' = ClampedIn(Head(down).rows, filter)
    /\ UNCHANGED <<focus, target, filter, typing, logs, confirm, picker, usable,
                   nextId, pending, toasts, up, daemonVars>>

DockerUnavailable ==
    /\ Arrives("gone")
    /\ shown' = [st |-> "unavailable", host |-> Head(down).host, rows |-> <<>>]
    /\ sel' = 1
    /\ UNCHANGED <<focus, target, filter, typing, logs, confirm, picker, usable,
                   nextId, pending, toasts, up, daemonVars>>

\* handle_logs_event, if the subscription is that of the current view.
DockerStreamEnded ==
    /\ Arrives("end")
    /\ logs' = {IF l.sub = Head(down).id THEN [l EXCEPT !.ended = TRUE] ELSE l : l \in logs}
    /\ UNCHANGED <<focus, target, viewVars, confirm, picker, usable, nextId, pending, toasts,
                   up, daemonVars>>

\* DockerActionResult, FleetActionResult: also told when the deadline came first.
ActionResult ==
    /\ Arrives("result")
    /\ pending' = pending \ {Head(down).id}
    /\ toasts' = [toasts EXCEPT ![Head(down).id] = Append(@, "result")]
    /\ UNCHANGED <<focus, tileVars, picker, usable, nextId, up, daemonVars>>

\* HostStateChanged and AgentCapabilities, as host_picker_rows reads them.
HostReport ==
    /\ Arrives("host")
    /\ usable' = IF Head(down).up THEN usable \cup {Head(down).host}
                 ELSE usable \ {Head(down).host}
    /\ UNCHANGED <<focus, tileVars, picker, nextId, pending, toasts, up, daemonVars>>

-----------------------------------------------------------------------------
(* The daemon's session, its forwarders, and the agents.                   *)

\* Bound: the daemon works while there is room for what it has to say.
Speaks == Len(down) < MaxDown
Asked(t) == Speaks /\ up # <<>> /\ Head(up).t = t /\ up' = Tail(up)
Serves(host) == host = Local \/ host \in agents
Gone(host) == [t |-> "gone", host |-> host]
End(id) == [t |-> "end", id |-> id]
Result(id) == [t |-> "result", id |-> id]

\* Subscribe(Docker): a forwarder of its own, or route_remote_subscribe.
DaemonSubscribes ==
    /\ Asked("sub")
    /\ LET host == Head(up).host IN
       IF Serves(host) THEN lists' = lists \cup {host} /\ UNCHANGED down
       ELSE down' = Append(down, Gone(host)) /\ UNCHANGED lists
    /\ UNCHANGED <<tuiVars, late, streams, acts, agents, deaf>>

\* Subscribe(DockerLogs).
DaemonStreams ==
    /\ Asked("logs")
    /\ LET m == Head(up) IN
       IF Serves(m.host)
       THEN streams' = streams \cup {[id |-> m.id, host |-> m.host]} /\ UNCHANGED down
       ELSE down' = Append(down, End(m.id)) /\ UNCHANGED streams
    /\ UNCHANGED <<tuiVars, lists, late, acts, agents, deaf>>

\* Unsubscribe: a routed entry goes under its lock, a local forwarder is told to
\* stop at its next await.  That of a logs stream matters no more, for its id
\* is not used again; that of the list has the id of its successor.
DaemonUnsubscribes ==
    /\ Asked("unsub")
    /\ IF Head(up).id = ListSub THEN lists' = {} /\ late' = (late \/ Local \in lists)
                                ELSE UNCHANGED <<lists, late>>
    /\ streams' = {s \in streams : s.id # Head(up).id}
    /\ UNCHANGED <<tuiVars, down, acts, agents, deaf>>

\* DockerAction: a task of its own, or route_remote_docker_action.
DaemonActs ==
    /\ Asked("act")
    /\ LET m == Head(up) IN
       IF Serves(m.host)
       THEN acts' = acts \cup {[id |-> m.id, host |-> m.host]} /\ UNCHANGED down
       ELSE down' = Append(down, Result(m.id)) /\ UNCHANGED acts
    /\ UNCHANGED <<tuiVars, lists, late, streams, agents, deaf>>

\* What a list subscription is told.
Reports(host) == {[t |-> "list", host |-> host, rows |-> l] : l \in Lists} \cup {Gone(host)}

\* forward_docker, or an event that the agent's parser routes.
ForwardList(host) ==
    /\ host \in lists \ deaf /\ Speaks
    /\ \E m \in Reports(host) : down' = Append(down, m)
    /\ UNCHANGED <<tuiVars, up, daemonVars>>

\* An aborted forward_docker finishes the poll that it is in, which may send.
ForwardLate ==
    /\ late /\ Speaks
    /\ \E m \in Reports(Aborted) : down' = Append(down, m)
    /\ UNCHANGED <<tuiVars, up, daemonVars>>

ForwarderStops ==
    /\ late /\ late' = FALSE
    /\ UNCHANGED <<tuiVars, up, down, lists, streams, acts, agents, deaf>>

\* The container stops or its engine does: forward_docker_logs says so and ends.
StreamEnds ==
    /\ Speaks
    /\ \E s \in streams : /\ s.host \notin deaf /\ streams' = streams \ {s}
                          /\ down' = Append(down, End(s.id))
    /\ UNCHANGED <<tuiVars, up, lists, late, acts, agents, deaf>>

ActionEnds ==
    /\ Speaks
    /\ \E a \in acts : /\ a.host \notin deaf /\ acts' = acts \ {a}
                       /\ down' = Append(down, Result(a.id))
    /\ UNCHANGED <<tuiVars, up, lists, late, streams, agents, deaf>>

\* The driver of the connection returns and drops writer_rx, or the supervisor
\* takes the connection out of the pool: requests are refused.
AgentRefuses(host) ==
    /\ host \in agents /\ agents' = agents \ {host}
    /\ UNCHANGED <<tuiVars, up, down, lists, late, streams, acts, deaf>>

\* drain_routing_on_disconnect: everything routed through the agent is told.
Drain(host) ==
    /\ Speaks
    /\ down' = down \o (IF host \in lists THEN <<Gone(host)>> ELSE <<>>)
                    \o SetToSeq({End(s.id) : s \in {r \in streams : r.host = host}})
                    \o SetToSeq({Result(a.id) : a \in {b \in acts : b.host = host}})
    /\ lists' = lists \ {host}
    /\ streams' = {s \in streams : s.host # host}
    /\ acts' = {a \in acts : a.host # host}

\* run_envelope_parser ends; until the driver drops writer_rx, the connection
\* goes on taking requests that nobody answers (AgentRouting).
AgentLost(host) ==
    /\ host \notin deaf \cup {Local} /\ deaf' = deaf \cup {host} /\ Drain(host)
    /\ UNCHANGED <<tuiVars, up, late, agents>>

\* shutdown_agent_connection, after the connection has left the pool.
AgentShutDown(host) ==
    /\ host \notin agents \cup {Local} /\ Drain(host)
    /\ UNCHANGED <<tuiVars, up, late, agents, deaf>>

\* deploy_and_register_inner, which shuts down what it finds in the pool.
AgentFound(host) ==
    /\ host \notin agents \cup {Local} /\ Drain(host)
    /\ agents' = agents \cup {host} /\ deaf' = deaf \ {host}
    /\ UNCHANGED <<tuiVars, up, late>>

\* The supervisor announces the host's state and capabilities.
HostAnnounced(host) ==
    /\ host # Local /\ Speaks
    /\ down' = Append(down, [t |-> "host", host |-> host, up |-> host \in agents])
    /\ UNCHANGED <<tuiVars, up, daemonVars>>

-----------------------------------------------------------------------------
Keys ==
    \/ Navigate \/ FilterKey \/ ActNow \/ Reconnect \/ BeginConfirm \/ ConfirmKey
    \/ EnterLogs \/ LeaveLogs \/ OpenPicker \/ PickerKey \/ CommitPicker
Receive == ContainerList \/ DockerUnavailable \/ DockerStreamEnded \/ ActionResult \/ HostReport
Session == DaemonSubscribes \/ DaemonStreams \/ DaemonUnsubscribes \/ DaemonActs
Agents ==
    \E h \in Hosts : \/ AgentRefuses(h) \/ AgentLost(h) \/ AgentShutDown(h)
                    \/ AgentFound(h) \/ HostAnnounced(h)

Next ==
    \/ Keys \/ MoveFocus \/ PaneTakesFocus \/ ClickRow \/ ConfirmExpires \/ ActionExpires
    \/ Receive \/ Session \/ StreamEnds \/ ActionEnds \/ Agents
    \/ ForwardLate \/ ForwarderStops \/ \E h \in Hosts : ForwardList(h)

Spec == Init /\ [][Next]_vars

-----------------------------------------------------------------------------
(* Properties.                                                             *)

\* The type invariant, with what clamp_selection is for: the cursor is on a row
\* whenever there is one, however lists, filters and clicks follow each other.
TypeOK ==
    /\ focus \in {"docker", "other"} /\ target \in Hosts /\ typing \in BOOLEAN
    /\ shown.st \in {"connecting", "available", "unavailable"}
    /\ shown.host \in Hosts \cup {Aborted}
    /\ filter \in Filters /\ picker \in {{}} \cup {{h} : h \in Hosts}
    /\ usable \subseteq Hosts \ {Local} /\ pending \subseteq Ids
    /\ nextId \in 1 .. MaxId + 1 /\ lists \subseteq Hosts /\ late \in BOOLEAN
    /\ agents \subseteq Hosts \ {Local} /\ deaf \subseteq Hosts \ {Local}
    /\ VisibleRows # <<>> => Selected # {}

\* What a confirmed Kill or Remove does is what the prompt asked: that container,
\* on the target of that moment, whatever arrived, moved or was retargeted since.
ConfirmedAsAsked ==
    \A i \in DOMAIN up : up[i].t = "act" /\ up[i].asked # {} =>
        up[i].asked = {[kind |-> up[i].kind, c |-> up[i].c, host |-> up[i].host]}

\* Log streams are neither leaked nor silent: once the commands under way are
\* handled, the daemon streams to the current logs view and to nothing else, and
\* a view whose stream is over has been told or will be.  A stream that a lost
\* connection accepted counts as running until that connection is shut down.
LogsAccounted ==
    LET Stays(id) == ~\E i \in DOMAIN up : up[i] = Unsub(id)
        Asks(id) == \E i \in DOMAIN up : up[i].t = "logs" /\ up[i].id = id
        Streaming == {s.id : s \in streams} \cup {i \in Ids : Asks(i)}
    IN  /\ \A i \in Streaming : Stays(i) => \E l \in logs : l.sub = i
        /\ \A l \in logs : l.ended \/ l.sub \in Streaming
                           \/ \E i \in DOMAIN down : down[i] = End(l.sub)

\* An action is told once if its result comes in time, else first as timed out
\* and at most once more with the result that came late; never the reverse.
ToldInOrder ==
    \A i \in Ids : toasts[i] \in {<<>>, <<"result">>, <<"timed out">>, <<"timed out", "result">>}

\* The tile's types, and its actions: each does what was asked and is told of in
\* order.
DockerInv == TypeOK /\ ConfirmedAsAsked /\ ToldInOrder

\* Retargeting reuses the subscription id, so an event of the old target that is
\* still under way is shown as the new target's.  It cannot stay: while the tile
\* waits or shows what another host said, the subscription to the target is on its
\* way or accepted, or its answer is on its way back.  The exception is what a
\* local forwarder says after its abort: that can come after the only answer of
\* a target that serves nothing, and stays.
StaleIsOvertaken ==
    shown.st = "connecting" \/ shown.host \notin {target, Aborted} =>
        \/ target \in lists
        \/ \E i \in DOMAIN up : up[i].t = "sub" /\ up[i].host = target
        \/ \E i \in DOMAIN down : down[i].t \in {"list", "gone"} /\ down[i].host = target
=============================================================================

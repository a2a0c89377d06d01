# Formal model of tepegoz

tepegoz is a terminal cockpit: a daemon owns terminals, watches Docker, ports
and processes, supervises SSH hosts and deploys an agent to each; a TUI attaches
to the daemon over a Unix socket. This directory holds TLA+ modules that follow
the code under `src/crates`, TLC configurations that check them on small
instances, and TLAPS proofs for arbitrary instances.

`PROJECT.json` lists every component, run, finding, hazard and theorem, and maps
each definition to the lines it models.

## 1. The system

| Component | Code | State it keeps | Operations |
|---|---|---|---|
| Local pane | `tepegoz-pty/src/lib.rs` | scrollback, broadcast channel, `alive`, `exit_code`, manager map | open, read, reap, subscribe, close, input, resize |
| Remote pane | `tepegoz-core/src/remote_pane.rs` | the same, a command queue, the SSH channel | spawn, drive, subscribe, close, input, resize |
| Pane forwarder | `tepegoz-core/src/client.rs` | a broadcast receiver per subscription | snapshot, alive check, forward, lag, exit |
| Client session | `client.rs` | one map of subscriptions per kind, status slot, `event_tx` | handshake, command dispatch, teardown |
| Poll and stream forwarders | `client.rs`, `tepegoz-agent/src/lib.rs` | `last_was_unavailable`, engine handle | connect, list, report, end |
| Agent routing | `tepegoz-core/src/agent.rs`, `client.rs` | connection pool, routing map per connection, client handles | register, route, drain, remove |
| Remote agent | `tepegoz-agent/src/lib.rs` | forwarders by daemon id | serve, subscribe, act |
| Fleet supervisor | `client.rs` | backoff index, miss counter, action queue, connection | dial, deploy, heartbeat, back off, act |
| Wire codec | `tepegoz-proto/src/codec.rs` | what a read has taken of a frame | read and write one frame |
| Daemon socket | `tepegoz-core/src/daemon.rs` | the socket file, the accept loop | probe, evict, bind, accept, shut down |
| SSH client | `tepegoz-ssh/src` | known-hosts file, remote agent cache | discover, connect, trust, forget, deploy |
| TUI panes | `tepegoz-tui/src/app.rs` | pane stack, pending opens | open, close, switch, resize, attach, exit |
| TUI scopes | `app.rs`, `scope/*.rs` | lists, cursors, filters, prompts, logs view, pending actions | keys, clicks, retarget, daemon events |
| TUI input | `mouse.rs`, `input.rs`, `session.rs`, `tile.rs` | parser states, focus, layout | split a chunk, match a command, hit test |

How they interact. Everything inside the daemon is a tokio task except the two
threads of a local pane. Tasks share state through mutexes (`agent_conns`,
`routing`, scrollback), channels (unbounded mpsc towards a client, a host or an
agent; a bounded broadcast from a pane) and abort handles. Each client has one
session task that handles one command at a time; each subscription is a task
with a clone of the session's `event_tx`. A host's supervisor puts an
`AgentConnection` in the pool; sessions look it up for a remote target; the
connection's parser sends answers straight to the clients' `event_tx`. The TUI is
one task that takes bytes of stdin, frames of the daemon and timer ticks in turn;
it keeps its own picture of panes, lists and actions and corrects it by what the
daemon reports, over one ordered connection. SSH connections of all tasks, and
the `doctor` command of another process, share the known_hosts file.

What is hard, and what makes each part correct:

* **Panes.** Reader, waiter or driver, and any number of forwarders race. A
  subscriber must see each byte exactly once from its snapshot on, or be told of
  the gap; `PaneExit` must come once, last, with the right code, and always.
* **Session.** Subscriptions come in several maps but one id space. No running
  forwarder may be lost from its map, since only the map can stop it, and after
  the client has left nothing may keep the session alive.
* **Forwarders.** An outage is reported once and ends by itself; a stream that
  stops says so.
* **Agent routing.** Connections die and are replaced at any moment while
  requests are registered, answered and cancelled by other tasks. An answer must
  reach the request it belongs to; a request in flight must hear of the
  disconnect; one client's teardown must not touch another's entries.
* **Supervisors.** User actions arrive in any state, several Fleet subscriptions
  supervise the same host and share its pool entry. Disconnect must stick,
  Reconnect must dial, a dead session must be noticed and its agent withdrawn.
* **Socket and wire.** Nothing locks the path between the probe and the bind; a
  read that loses a select loses the bytes it had. Who serves the path, and which
  frames survive, must not depend on luck more than it has to.
* **SSH.** A host key, once believed, must stay believed and a changed one be
  refused, although the file is appended to and rewritten without a lock. A
  host must not execute half an agent, whatever was uploaded beside it or left
  running by an aborted deployment, and the next deployment must heal it.
* **TUI.** Answers are correlated with requests by order or by reused ids, while
  tabs close, tiles are retargeted and lists change under the cursor and under an
  open prompt. What the user confirmed, clicked or typed is what must happen.

The individual hazards, each at its line with the properties that would catch it,
are listed in `PROJECT.json` under `hazards`.

## 2. The modules

| Module | Models | Used by |
|---|---|---|
| `PaneStream` | scrollback, broadcast ring, subscription and forwarder: what both kinds of pane share | `LocalPane`, `RemotePane` |
| `PaneLog` | abstract: a pane as an append-only log with a transcript per subscriber | `LocalPane` |
| `LocalPane` | child, pty, reader thread, waiter thread, close; the mapping to `PaneLog` | `PaneProofs` |
| `RemotePane` | remote end, command queue, driver task, close | `PaneProofs` |
| `PaneProofs` | TLAPS: what both kinds of pane keep; that `LocalPane` loses and repeats nothing and implements `PaneLog`; what a subscriber of a remote pane sees, and how it ends | |
| `ClientSession` | the session of one client, its writer and its forwarder tasks | `ClientSessionProofs` |
| `ClientSessionProofs` | TLAPS: the session keeps its forwarders, and each tells once | |
| `AgentRouting` | pool, connections, driver, parser, agent, client sessions | `AgentRoutingProofs` |
| `AgentRoutingProofs` | TLAPS: whose an answer is, what a drain reports, what a gone client leaves | |
| `HostSupervisor` | the supervisors of one host and their pool entry | `HostSupervisorProofs` |
| `HostSupervisorProofs` | TLAPS: the pool entry, and Disconnect sticks | |
| `DaemonLink` | daemons on one socket path; handshake, framing and the two ends of a connection | `DaemonLinkProofs` |
| `DaemonLinkProofs` | TLAPS: who serves the path, and what a connection delivers | |
| `SshConnect` | host discovery, key exchange, known_hosts, `--ssh-forget` | `AgentDeploy` |
| `AgentDeploy` | deployment of the agent over an authenticated session | `AgentDeployProofs` |
| `AgentDeployProofs` | TLAPS: trust in host keys, and what a host executes | |
| `TuiPanes` | the pane stack of the TUI composed with the daemon's session | `TuiPanesProofs` |
| `TuiPanesProofs` | TLAPS: opens reach their requests, tabs are served and fit | |
| `FilteredRows` | the rows of a list that pass a filter | `TuiDocker`, `TuiLists`, `DockerLogs` |
| `TuiDocker` | the Docker tile composed with the daemon's session and agents | `TuiTilesProofs` |
| `TuiLists` | Ports, Processes and Fleet tiles, clicks | `TuiTilesProofs` |
| `DockerLogs` | the text of a logs view and its window | `TuiTilesProofs` |
| `TuiTilesProofs` | TLAPS: actions, log streams and lists of the Docker tile; cursors and clicks of the list tiles; the transcript of a logs view | |
| `TuiInput` | bytes of stdin to mouse events, commands and keys; tile layout | |
| `MC*` | instances for TLC | |

### PaneStream, LocalPane, RemotePane

The bytes of a pane are numbered in the order they were read and a chunk is an
interval of numbers, so that "no byte lost or seen twice" can be stated. `sent`
is the whole history of the tokio broadcast channel; a receiver is an index into
it and the ring capacity decides what it can still read. `Subscribe` is one step
since the code holds the scrollback lock over the snapshot and the
subscription; `ReaderRead` is one step for the same reason. In `RemotePane` the
driver releases that lock between the append and the send, so these are two
steps (`DriverAppends`, `DriverSends`). The waiter's three writes (exit code,
alive, Exit) are three steps because each is visible on its own. The forwarder
steps `AttachPane`, `Subscribe`, `CheckAlive`, `RecvBytes`, `RecvExit`,
`RecvLagged` end at the awaits and lock boundaries of `forward_pane`;
`AbortForwarder` can strike between any two of them.

A lagging receiver is told how many updates it lost and goes on at the oldest
one retained, as `tokio::sync::broadcast` specifies. Whether a write to
`event_tx` fails because the client has left is not distinguished from an abort.
`send_input` and `resize` of a local pane touch only the pty master and the size
cell and are left out.

`PaneLog` forgets rings, receivers and threads. A subscriber's transcript starts
with a snapshot that ends at the newest byte, goes on where it stands, names each
stretch it loses and closes with the exit. `LocalPane` states the refinement
mapping: `produced` is `pos`, `ended` and `code` come from the waiter's flags, and
`heard` and `standing` from a forwarder's events and place. A remote pane does not
implement it: its append and its send are two steps, and a subscriber between them
hears a chunk twice. That is a finding (`remote_attach`); `AtMostOneChunkTwice` says how
far the damage goes, namely one chunk, once.

### ClientSession

A session is in the phase `hello`, `loop`, `closing` or `closed`; `closing` is
the `writer_handle.await` at the end. Tasks are numbered as they are spawned and
`subs` maps a map's name and an id to a task. A task's step runs from one await to
the next. `abort` is asynchronous in tokio, so an aborted task may still take
steps until `Dropped`. That allows more than the single unfinished step tokio
permits and is the safe side. `Subscribe(Docker)` and its siblings are `SubscribeLocal`
here, for `PaneStream` has a `Subscribe` of its own. `dirty` says that something is queued for the
writer; what and how much does not matter to the properties. Kinds that follow
the same code (`ports` and `processes`; `logs` and `stats`) share their actions.

### AgentRouting

Connections are numbered; daemon ids restart at 1 on each. `routing[k]`,
`writer[k]`, `pipe[k]` and `agent[k]` are the routing map, the way to the agent,
the way back and the agent's own table. The driver's end is modelled in the
steps of the code (`ChannelCloses`, `DriverDropsPipe`, `DriverReturns`) because
another task can look in between. A request of a session is three steps (`Route`
under the pool's lock, `Register` under the routing lock, `Forward`). Teardown is
one step: it holds the pool's lock. `log` records what each request was
answered. `Shared` says whether several supervisors handle the alias; if not,
they behave as one `host_supervisor` does: register after the previous session
was dropped, remove only what was dropped. `lost` names the requests that
the code loses: in `Forward`, when the send is accepted between the parser's drain and
the end of `writer_rx`, and in `Release`, when a stale handle removes the entry.
`EveryRequestAnswered` has no exception and is refuted; `DisconnectReported` has these
two and says that nothing else is forgotten.

The map from a client's id to its handle is keyed by request here: each request
has an id of its own, as the TUI allocates them.

### HostSupervisor

One record of locations per supervisor: the select points of `host_supervisor`,
`run_connected_session`, `wait_backoff` and `await_terminal_reset`. The selects
are `biased` towards the action queue, so timers and results have the guard
`queue[p] = <<>>`. Time is counted in heartbeat intervals and the age of a
connection only as far as the reset threshold. `connect_start` is taken before
the dial and the model's age starts when it succeeded, so the model never
overstates an age. `Abort` is the JoinSet's abort when the Fleet subscription
goes.

### DaemonLink

`phase[d]` follows `run_daemon_with_resolver` from the probe of the path over
eviction, bind, permissions and the accept loop to the shutdown; each system call
on the path is a step, so other daemons and crashes come in between. `raced` and
`alone` record whether another daemon was starting or stopping meanwhile. A frame
is two parts that arrive separately. `session[c].buf` is what `read_envelope` has
taken of the current frame: the status ticker that wins the select drops it
(`cut`), and the next read takes what follows for a prefix. What commands do is in
the other modules; here they are pings and one status subscription.

### SshConnect, AgentDeploy

A caller of `connect_host` looks its alias up (`HostList` has the precedence of
`HostList::discover`: config.toml, then the environment, then ssh config), reads
known_hosts in `check_server_key`, appends to it on first contact, and
authenticates. `ForgetReads`, `ForgetTruncates` and `ForgetWrites` are the steps of
`doctor --ssh-forget`, whose `fs::write` truncates before it writes. Fleet
supervisors keep the entry they listed; a remote pane reads the configuration
anew. `settled` records which keys were persisted since a host was last
forgotten, `dropped` which hosts lost a line to a rewrite, `view` how a task's check
saw the file: `whole`, `truncated` by a forget, or `overtaken` by another task's append
between this task's check and its own. `MismatchIsRejected` is what `known_hosts.rs`
says of a changed key; it does not hold, and `KeyChangeIsAsked` names the three windows
outside of which it does. Both judge every step that believes a key, the check that
finds it and the append after a check that found none.

`AgentDeploy` extends it for the tasks that are supervisors. Each shell command
(`cat`, `rm`, `mv`, `chmod`, hash, exec) is a step on the host's two files; a caller
that gives up leaves its command running (`left`), and `loc` follows the open file
of a `cat` through renames, as a Unix file descriptor does. `Scenarios` bounds
what one behaviour may hold, so that one instance can have several families of
behaviours without their product.

### TuiPanes, TuiDocker

Both compose a part of `App` with the daemon's session loop. `up` and `down` are
the two directions of the socket: ordered, unbounded in the code, bounded by
`MaxUp` and `MaxDown` here, lost when the TUI leaves. Commands are taken by the
daemon one at a time (`Asked`), as its session loop does; forwarders add events at
any time. `TuiPanes` starts before the event loop (`Start`, `Listed`,
`RootAnswered`: attach to a living pane or open one). `verdict` and `fate` are
history: what the daemon decided about an open and what the TUI made of it.
`phase = "crashed"` is the panic of `active_pane_id` on an empty stack. `heir` is
history: the subscription of the open that was sent when the last tab went. `ActivePaneExists`
is what the comment at `active_pane_id` claims and is refuted; `BlankTileEnds` says that
without that panic a blank tile gets a tab, unless the open of its own heir fails.

In `TuiDocker` keys are dispatched in the order of the code: picker, logs view,
prompt, filter, list. A container is a number and the same number on another host
is another container. `shown.host` is history: whose list is on the screen.
`toasts` is history: what the user was told of each request, in order.

An unsubscribe takes a routed entry out at once, under its lock, but only tells a local
forwarder to stop: `late` says that an aborted one has not stopped yet, and `ForwardLate`
that it still sends. What it says is marked as from `Aborted`, since it is about this
machine but from nobody the tile listens to. The end of an agent's connection has the
steps of the code: `AgentLost` is the parser's drain, after which the connection is
`deaf` and goes on accepting requests nobody answers until `AgentRefuses`, the drop of
`writer_rx` or its removal from the pool; `AgentShutDown` is the supervisor's drain, and
`AgentFound` the registration that shuts down what it replaces.

### FilteredRows, TuiLists, DockerLogs

`FilterRows` is what `iter().filter(..)` yields, in terms of the places of the rows
that pass and not by recursion over the list, so that it can be reasoned about;
`MCTuiTiles` compares it with `SelectSeq`.

`TuiLists` has the three lists that follow their cursor by key. `*Drawn` are the
lines that the drawing code puts into a tile, `ClickedRows` the arithmetic of
`dispatch_scope_click`: the two are written from different functions and compared.
The click in `last` carries the row it hit as history. `DockerLogs` is the text of
one logs view: `Ingest` is compared with the whole output cut at newlines,
`Window` with the flag that says the view is at the tail. The newlines of a buffer
are found with `PlacesOf` as well.

### TuiInput

The bytes the user types are `typed` gestures, flattened into `stream` and read in
chunks of any length. `ParseMouse` and the prefix filter are the two automata of
`mouse.rs` and `input.rs`; each keeps what it holds back (`held`) from one chunk to
the next, as places in the stream, so that order and loss can be told. A chunk is
handled as in `session.rs`: the mouse events first, then the rest. `DefaultFor` is
`TileLayout::default_for`.

### The MC modules

Components that share no state are checked in one run where that costs little:
`MCLocalDaemon`, `MCRemoteHost` and `MCTuiTiles` each extend several modules, and a
variable that never changes (`part`, `scene`) says which of them a behaviour is about;
the others stand still. So the states add up and are not multiplied. The fairness of a
part that stands still must ask nothing of it: `MCLocalDaemon` states the session's for
the behaviours about the session, and in `MCRemoteHost` the supervisors beside a
running pane stand where they wait for a user and nothing is enabled.

The scenes of `MCTuiTiles` bound the Docker tile further (`Plays`): `rows` has filter,
prompt, logs and focus over a local list, `actions` and `logs` one remote host, `hosts`
retargets between two, of which one has an agent that breaks in steps and comes back,
with local forwarders that speak after their abort. In `logs` and `actions` the
agent of the one host breaks in the same steps.

## 3. The runs

| Run | Instance | Distinct states | Question |
|---|---|---|---|
| `local_daemon` | pane: 1 subscription, ring 2, scrollback 2, reads of 1-2 bytes, 4 bytes; session: 5 kinds, 1 id, 2 forwarders, 1 docker action | 222,656 | is the stream exact, does the exit protocol hold and finish, is it a `PaneLog`; can a forwarder escape, are outages and ends told, does the session end |
| `remote_host` | pane: 1 subscription, ring 2, scrollback 2, messages of 0 or 3 bytes, 3 messages, 1 command; 2 supervisors, 1 action each, ladder of 2, disconnect after 2 misses | 231,396 | how far is the stream from exact, does close end the pane; actions in any state, pool entry, dead sessions |
| `remote_attach` | the pane of `remote_host` | | finding |
| `agent_routing` | 2 clients, 1 subscription, 1 action, 2 connections under shared supervisors, 1 agent event | 4,199,308 | right addressee, one result, nobody forgotten, nothing left routed |
| `agent_stale_handle` | one supervisor, 2 subscriptions, 2 connections | | finding |
| `agent_dead_connection` | 1 action, 1 connection | | finding |
| `daemon_link` | 3 daemons, 1 client that sends 3 frames, 4 frames written | 3,355,751 | who owns the path, what survives a cancelled read, last words |
| `agent_deploy` | 2 supervisors of 1 or 2 processes, a remote pane, 2 hosts, 2 keys; 1 edit, rekey, forget | 2,007,422 | whose key is believed, what is executed, does a retry heal |
| `tui_panes` | 2 panes, 3 subscriptions, 2 sizes, 3 commands and 1 event in flight | 692,802 | are opens answered, tabs served and fitted, blank tiles filled |
| `tui_blank` | the same with one size | | finding |
| `tui_tiles` | Docker: 2 remote hosts, 1 list of 2 containers, 2 ids, 3 commands and 2 events in flight; lists: 2 rows in two orders, a filter, 4 lines, 2 clicks; logs: 3 lines kept, chunks of 2, 5 bytes | 732,101 | does a prompt do what it asked, are streams accounted for, do stale lists go; is the right row hit and kept, is the transcript the output |
| `tui_input` | 18 gestures, 3 typed, 2 bytes unread before more is typed, 3 sizes | 482,876 | are mouse reports whole, keys kept in order, tiles disjoint and complete |

Several properties are conjunctions of named parts that belong to one component
(`TabsInv`, `LinkInv`, ...); each part has its own comment. `DisconnectReported` and
`SubscriptionsReleased` say at every moment who still has to act; that those tasks
do act is the fairness of `AgentRouting`. They are invariants and not leads-to
formulas because two connections are then within reach.

Why the bounds suffice. A scrollback smaller than a chunk, a ring of two against up
to five updates, and an empty message reach every branch of append, eviction and
lag. One id in five kinds makes every subscription collide with the previous one;
two forwarders make a replacement. Two connections are the least for a stale daemon
id, one event the least for a message in flight to a removed entry. Two supervisors
are the least that can take each other's entry. One queued action per supervisor
meets every location; what more of them do follows from each being taken at a select
point, and for Disconnect it is proved. Three daemons are the least for one that
starts while another evicts a third's socket; three frames are a Hello, a frame that
is cut and one that is misread. Two supervisors, in one process and in two, meet on
one temporary file or on the final one; one rekey and one forget are what trust has
to survive. Three pane subscriptions are the root, an open and one that overtakes
it. Two ids in the Docker tile are a logs stream and an action, or two actions; two events
in flight are a list and the one that overtakes it; two remote hosts are the least for
a list of one remote host that arrives at another. Two
rows in two orders move the cursor's row, take it away and bring it back. Three
gestures are one that leaves a parser half-way, one that hits it there and one that
shows the damage; reads end after any byte.

The ring, the scrollback and the number of subscriptions of `local_daemon`, and all
constants of the trust in host keys, are unbounded in the proofs.

Deadlock is not checked: every instance stops when its bounds are used up, and
the system itself may be idle for ever.

### Fairness

* Threads and tasks that can run do run: tokio's scheduler is fair to ready
  tasks, the operating system to threads. Timers fire.
* A connection attempt and a deployment end (each has timeouts or fails with the
  transport), a docker action ends (the engine client has a timeout), and russh
  closes the channels of a session that was dropped.
* `CloseEndsPane` assumes in addition that a write on an SSH channel finishes or
  fails: the remote end keeps granting window. The driver awaits the write
  before it looks at its queue again.
* `BlankTileEnds`: the TUI reads what the daemon sent (`Receive`) and the daemon's
  session takes the next command (`Session`); the event loop and the session loop
  have nothing else to wait for.
* No fairness for the environment: children need not exit, hosts need not
  answer, agents need not speak, users need not type, clients need not leave,
  streams need not end.

### Findings

Each is a run that checks one claim of the repository and refutes it; `PROJECT.json`
quotes the claims.

| Run | What happens |
|---|---|
| `agent_stale_handle` | after a reconnect a client's stale handle removes another client's entry, because daemon ids restart at 1; an action so removed is never answered, nor told of a later disconnect |
| `agent_dead_connection` | an action is registered after the parser's drain and its send is accepted, since the driver has not dropped `writer_rx` yet; nobody reads it and no task of the connection is left to answer it. Only the connection's removal from the pool would, if that is still to come |
| `remote_attach` | the driver of a remote pane releases the scrollback lock between append and send; a subscription in between shows a chunk twice. For local panes this was found and fixed, and the two are documented as identical |
| `tui_blank` | the pane stack is empty from the close of the last tab until the `PaneOpened` of its replacement, or for good if that open fails; a key typed into the pane tile then panics |

### Observed while modelling

Behaviour of the code that the models contain, or that reading it for them showed.
Where a property would be broken by it, the property excepts it by name.

Panes and sessions:

* `pty/src/lib.rs:182`: the waiter thread announces the exit while the reader
  still has output to read, although Exit promises that "no further bytes will
  arrive"; the forwarder drops that output. `NoBytesAfterExit` holds for remote
  panes only.
* `dropped_bytes` of a lagged stream carries a number of updates.
* `remote_pane.rs:363`: an `Eof` that overtakes the exit status loses the code.
* `client.rs:1735-1740`: with no hosts at all the coordinator parks and answers no
  further FleetAction.
* `client.rs:2003-2005`: a session that dies at once resets the backoff all the
  same, since its death is noticed several heartbeats later.

Agents:

* A remote scope that was told its host is unavailable is not subscribed again when the
  host reconnects (`docs/OPERATIONS.md:1115` and `:1146` say that it is): nothing in
  the session or the TUI does it until the user retargets.
* With several supervisors of one alias, a request looked up before and registered
  after its connection was replaced in the pool is not drained until that
  connection's own session ends, even if its client has long left; and one
  supervisor's session end removes the agent another one has just announced.
* `client.rs:1689`: aborting a supervisor leaves its agent in the pool until the
  next registration; `PooledAgentHasSession` excepts aborted supervisors.
* `client.rs:947`: a second remote subscription with the same id overwrites the
  handle of the first, whose daemon id is then never unsubscribed.
* `agent.rs:536`: the failure that a drain reports for a remote action says that
  its target was local.
* `agent.rs:144-146` says that dropping the connection aborts its tasks; the
  abort handles are dropped unused, and the tasks end with their channel.

Socket and wire:

* `daemon.rs`: two daemons that start together can each remove the other's socket;
  a daemon that shuts down unlinks whatever is at the path. `raced` excepts both.
* `client.rs:151-186`: the select drops a half-read frame when the status ticker
  wins; the session is then out of step and ends with a protocol error.
* A first frame that is not a Hello gets no reply, unlike a wrong version.

SSH:

* known_hosts is checked, appended to and rewritten without a lock: a line
  appended between forget's read and write is lost, and while the file is
  truncated every host is a first contact. Without any forget, two tasks can both find
  a host unknown while it changes its key, and both append: the second believes a key
  other than the persisted one, although `known_hosts.rs:9-12` says a mismatch is
  rejected. `KeyChangeIsAsked` excepts these three.
* Supervisors go on with the host entry they listed; `--ssh-forget` and remote
  panes read the configuration anew, so they may mean different hosts.
* `deploy.rs:516`: the temporary file is named after the process, so two
  deployments of one process to one host share it; `WholeAgentRuns` excepts hosts
  where that overlapped. Two builds of one protocol version replace each other.
* A remote command outlives the deployment that gave it up. `mv` comes before the
  check: a host that keeps the right bytes without the executable bit matches the
  cache for ever, and `HealsOnNextDeploy` excepts it.

TUI:

* A pane that another client closes between its `PaneOpened` and the `AttachPane`
  leaves a dead tab.
* Choosing the current target again in the host picker does nothing, although the
  comment there says otherwise; a tile whose agent was lost stays unavailable until
  it is retargeted.
* The confirm prompt survives the focus change of a `PaneOpened`, and a resize.
* Events of the old target are taken for the new one's after a retarget;
  `StaleIsOvertaken` shows that they do not stay, with one exception: abort is
  asynchronous (`client.rs:500`), so a local forwarder can still send a list under the
  reused id after a target without an agent gave its only answer, and that list stays.
* `app.rs:3132-3137` says that two reconnects which both land on `AuthFailed` are
  toasted once. The supervisor announces `Connecting` before every attempt, so each
  of them is toasted.
* Typing in a filter keeps the cursor's place and not its row, for the old key is
  taken after the change. Clicks within the logs view move the hidden list's cursor.
* A triple click opens two panes; a new list or filter between two clicks makes the
  double click open another host, which `OpensWhatWasClicked` excepts.
* The view of the logs does not hold still while lines arrive
  (`app.rs:302-306` says it does), and a line without a newline is buffered without
  bound.
* `input.rs:130-133`: bytes after a control action are dropped, Tab in the pane
  tile included; a bare Escape waits for the next byte; `Esc [ <` typed by hand
  swallows what follows; mouse events overtake keys of their chunk
  (`session.rs:284-288` says that this cannot matter).

## 4. The proofs

| Module | Theorem | Statement |
|---|---|---|
| `PaneProofs` | `TypeCorrect` | `LocalSpec => []LocalTypeOK` |
| | `NoByteLostOrDuplicated` | `LocalSpec => []StreamContiguous` |
| | `ScrollbackCorrect` | `LocalSpec => []ScrollbackIsTail` |
| | `ExitProtocol` | `LocalSpec => []ExitProtocolKept` |
| | `ImplementsPaneLog` | `LocalSpec => KeepsPaneLog`, that is `LocalSpec => Log!Spec` |
| | `OneChunkTwice` | `RemoteSpec => []AtMostOneChunkTwice` |
| | `RemotePaneCorrect` | `RemoteSpec => []RemotePaneInv` |
| `ClientSessionProofs` | `NoForwarderIsLost` | `Spec => []SessionInv` |
| | `ForwardersTellOnce` | `Spec => []ToldOnce` |
| `AgentRoutingProofs` | `EveryAnswerIsOnes` | `Spec => []RoutingInv` |
| | `AResultIsTheOnlyAnswer` | `Spec => []ResultIsOnlyAnswer` |
| | `EveryDisconnectIsReported` | `Spec => []DisconnectReported` |
| | `AGoneClientIsReleased` | `Spec => []SubscriptionsReleased` |
| `HostSupervisorProofs` | `SupervisorsKept` | `Spec => []SupervisorInv` |
| | `DisconnectStays` | `Spec => DisconnectSticks` |
| `DaemonLinkProofs` | `ADaemonServesItsPath` | `Spec => []ServesItsPath` |
| | `AloneADaemonStarts` | `Spec => []AloneStarts` |
| | `TheLinkIsKept` | `Spec => []LinkInv` |
| `AgentDeployProofs` | `TrustKept` | `Spec => []TrustIsKept` |
| | `ChangedKeyAsked` | `Spec => KeyChangeIsAsked` |
| | `HalfAnAgentNeverRuns` | `Spec => []DeployInv` |
| | `LeftoversHeal` | `Spec => []HealsOnNextDeploy` |
| `TuiPanesProofs` | `OpensReachTheirRequests` | `Spec => []OpensAnswered` |
| | `TabsAreServedAndFit` | `Spec => []TabsInv` |
| `TuiTilesProofs` | `DockerInvHolds` | `Spec => []DockerInv` |
| | `LogsAreAccounted` | `Spec => []LogsAccounted` |
| | `StaleListIsOvertaken` | `Spec => []StaleIsOvertaken` |
| | `ListsInvHolds` | `ListsSpec => []ListsInv` |
| | `DoubleClickOpens` | `ListsSpec => []OpensWhatWasClicked` |
| | `RefreshKeepsTheRow` | `ListsSpec => RefreshKeepsRow` |
| | `TranscriptKept` | `LogsSpec => []LogsViewKept` |

They hold for every value of the constants that the modules' assumptions allow:

* `PaneConstants`: the ring holds at least one update, the absent code is not a code.
  `LocalConstants`: a read can return at least one byte. `RemoteConstants`: a
  message has a size.
* `SessionConstants`: there is an id and a kind of forwarder, the kinds are those of
  the code.
* `RoutingConstants`: a request has one owner, and is a subscription or an action.
* `SupervisorConstants`: the ladder has a rung, degraded comes before disconnected.
* `DaemonLinkConstants`: a client may send at least its Hello; "nobody" is no daemon.
* `SshConstants`, `DeployConstants`: the configuration names hosts, there is a
  key, a scenario is one; no whole binary is the partial one or none.
* `TuiPanesConstants`: there is a pane, a subscription and a size to count with.
* `TuiDockerConstants`, `TuiListsConstants`: lists are sequences of rows, without
  repetition for the tiles that go by key; a longer filter passes fewer rows, the
  empty one all; a tile has room for its bars and one row.
* `DockerLogsConstants`: the cap, a page and a chunk are not empty; the tile has room
  for its bars and two lines. The layout draws tiles from `MIN_ROWS` = 24 rows up,
  which leaves a scope tile seven lines. With a single line the mark that the stream
  has ended would be all that is shown.

The bounds that make the runs finite (`MaxBytes`, `MaxConns`, `MaxTasks`, ...) are
constants of the theorems too, so they hold for every bound. What does not hold by
itself is kept in the shape of an inductive invariant, named `IInv` (`LocalIInv`,
`RemoteIInv`, `SInv`, `DInv`, `HInv`, `LInv`, `LogInv`) in each module; the sections below say what it
adds and why. All of them were checked by TLC on the runs' instances before they
were proved.

### What the two kinds of pane share

`StreamInv` is the part of the panes' invariants that does not
say who feeds the pane: types, `ScrollbackIsTail`, the three properties of
PaneExit, and two facts they need. `ForwarderKept`: a running forwarder has sent a
snapshot, no exit, and its receiver is at most at the end of the channel.
`ExitRecorded`: an Exit in the channel was sent after alive was cleared and
carries the recorded code. `ProducerStep` shows that a step which only feeds the
pane keeps it, if it appends to the scrollback as `Scrollback::append` does or
sends an update behind no Exit; `ForwarderStep` that a forwarder's step (it `Moves`
one transcript and one receiver) does. Below them are lemmas about the operators:
gapless sequences (`GaplessAppend`, `GaplessTail`, `SendGapless`), the scrollback
(`ScrollAppendTail`), and where a receiver reads on (`ReadsAtSend`, `ReadsAtNext`).
Five small lemmas (`SubscribeMoves`, `CheckAliveMoves`, `RecvBytesMoves`,
`RecvExitMoves`, `RecvLaggedMoves`) put the actions of `PaneStream` in this form;
both kinds of pane use them.

### LocalPane

`LocalIInv` conjoins `StreamInv` and `StreamContiguous` with

* `ChannelGapless`: the byte updates in the broadcast channel join without a gap
  and the last one ends where the scrollback does. Without it a forwarder that
  reads the next update could not know that it continues what it sent.
* `LocalPlaced`: a forwarder's receiver stands exactly at the end of what it
  has sent, or at an update it will be told it lost. This is what a snapshot and
  a subscription under one lock establish, and what every receive preserves.
* `WaiterOrder`: code, alive flag and Exit update are written in this order. It
  makes the alive check of a forwarder sound, whichever of the writes it falls
  between.

There is one lemma per kind of action (`LocalSubscribeStep`, `LocalRecvBytesStep`,
`LocalRecvLaggedStep`, `LocalExitStep` for the two ways a forwarder ends, `ReaderReadStep`,
`WaiterSendsExitStep`); steps that touch only control go through `LocalQuietStep` and
`LocalControlStep`. The proof of `ReaderReadStep` fails for the remote driver, where
append and send are two steps: the repeated chunk is the missing case.

### RemotePane

Between the append and the send the scrollback is ahead of the channel, by the chunk
the driver holds (`ChannelFollows`). A snapshot taken there already ends with that
chunk, and its receiver will read it again. `RemotePlaced` therefore has two
cases: a forwarder `ReadsOn` where it stands, or it `SeesTwice`: its transcript is
the snapshot alone, and what it receives next is exactly the chunk the snapshot
ended with, still held or sent since. Only a transcript of length one can be in the
second case and receiving leaves it, so the repeat is at most one chunk and only the
second event. An overrun receiver leaves it too, since the gap it announces starts
where it stands. `DriverOrder` says that nothing is sent behind Exit.

### LocalPane implements PaneLog

`RInv` adds to `LocalIInv` that the updates in the channel lie in the order of their
bytes (`ChannelOrdered`: an overrun receiver jumps forward, never back) and that no
chunk of the scrollback starts past the newest byte (`ScrollBelow`). Under `RInv`
each action maps to one step of the log: `SubscribeAttaches`, `RecvBytesDelivers`,
`RecvLaggedLoses`, `CheckAliveTells` and `RecvExitTells` (the two ways to `Tell`),
`ControlLeaves`; the reader's step is `Produce`, `WaiterMarksDead` is `End`, and the
rest stutters (`QuietLog`). `NextLog` collects them.

### ClientSession

`IInv` is `NoZombieForwarder` and `EndIsTold` with the types (`Plain`) and `OutageKept`: a running
task that has reported an outage has "down" as the last state it saw. This is the
variable that the forwarders keep across iterations of their loops, and what stops the
next failing poll from reporting again; a forwarder that reset it on a retry would
not keep the invariant. `SubscribeStep`, `UnsubscribeStep` and `TeardownStep` show that
a handle leaves the maps only as its task is aborted (`AbortStep`), whatever map and
kind; a task's own steps cannot touch the maps (`TaskStep`). A `Subscribe` reuses the
id of a running task and of a task that has ended alike.

### AgentRouting

`Entries(k)` collects what is about a connection: its routing table, what is on the
way to and in its agent, and what a session holds between the insertion into the
table and the send. Ids restart with every connection, so the argument is per
connection: `IdsAllocated` (an id is below the connection's counter), `IdMeansRequest`
(an id names one request), `RequestHasOneId` (a request has one id on one connection,
ever). They give `RightAddressee` for an answer that arrives after its connection
was replaced.

`ActionsToldOnce` is the heart of `ResultIsOnlyAnswer`: an action that has an entry
was told nothing. So the parser, the two drains and a session whose send failed,
which all tell by removing the entry first, cannot tell after one another. `TellsEntries`
states this of a step, and each way to tell is shown to be one.

For `DisconnectReported` the history variable `lost` holds what the code really
loses (a send accepted between the parser's drain and the end of `writer_rx`, and an
entry that a stale handle removes); `NoneForgotten` says that nothing else is lost, `ForwardKept` that a
request between insertion and send still has its entry or was told, `DrainedAreLost`
that a drained table holds nothing else. For `SubscriptionsReleased` the handles of a
client have to cover its entries on the pooled connection (`PooledHaveHandles`,
`HandlesKept`), since teardown removes by handle.

### HostSupervisor

`HInv` adds two facts to `SupervisorInv`. `ToldToDial`: wherever a supervisor dials
or will come to do so by itself - the end of a session whose outcome is not
Disconnect, a backoff, a deployment included - the order it took last is not
Disconnect. `MissesBelow`: the miss counter of a running session is below the
threshold that ends it, so the next miss is still a count. Actions that are taken
(`TakesHInv`) are proved together; of the rest each changes one supervisor and at
most empties the pool or puts its own agent there (`StepOf`), which `StepHInv`
shows to be harmless to the others. `DisconnectStays` is half of `ActionsObeyed`,
for any number of queued actions where the run queues one each.

### DaemonLink

The proof has two halves. `DaemonInv` is about the path: a daemon that has
bound and raced with nobody is at the path (`HoldsItsPath`); two that start or stop
at once, or one that listens while another is about to remove the socket, are marked
as having raced (`RacesAreSeen`, `RemovalIsSeen`); and while one starts alone the path
is as it left it (`AloneWhileStarting`). A crash at any point of the startup keeps
them, which is why a leftover socket file is no obstacle. What remains possible is
exactly what the marks name: the code locks nothing.

The other half is about one connection. `Carries(q, words, m)` says of a channel that
it holds what is left of the frames of `words` after the first m, perhaps cut off at
the end. Upwards it relates what the daemon has buffered and what is under way to what
the client sent (`UpCarries`), until a tick cuts a read; downwards what the
client buffered to what the daemon wrote (`DownCarries`). So a prefix is
always followed by its own body, the only protocol error of a valid client is a cut
(`CauseKnown`), and a refusal that was queued is written before the session closes
and read before the end of the stream (`RefusalCarried`). The lemmas about `Carries`
(`CarriesRest`, `CarriesFirst`, `CarriesCutOff`, `CarriesMore`) stand for the framing
code. Each action changes one connection, to which its lemma applies, and `OfOneConn`
carries that over to all of them.

### AgentDeploy: keys

`SInv` is the type invariant of `SshConnect`, `Addressed` (a task has a host from
the key exchange on), `TrustIsKept`, `FileIsSettled` and `TrustsTheUnknown`. `FileIsSettled`
makes `TrustIsKept` inductive: every line of the file, and every line of another host
that forget is about to write back, was persisted and not forgotten since. Without it
forget could bring a line back that no check had seen. `TrustsTheUnknown` carries what a
check saw over to the append: a task about to append stands where no key is persisted
for its host, or in one of the three windows. From it `ChangedKeyAsked` follows for the
append, as it follows from the file for the check. A step of a deployment leaves the
file alone (`DeployIsApart`), so the proof is about `SshConnect`'s actions; the three
steps of forget have a lemma each.

### AgentDeploy: what a host executes

`DInv` adds to the types and to how a deploy's stage goes with its commands
(`StagedAt`) one invariant per host and one per deploy.

* `HostSoundAt(h)`, unless two uploads of one process to h have overlapped: the
  agent's path does not hold a partial file, each process has at most one upload under
  way there (`OneUpload`), and every command that runs there, also one whose deploy is
  gone, is `Sound`: a `cat` writes its own fresh file beside the path, and a `mv`
  finds a whole one. This is the "invariant about open files": what protects the
  path is that the temporary name carries the process id and that `mv` comes after
  `cat` has ended, and it fails exactly when two uploads share that name.
* `CleanAt(t)`, for a deploy that nothing has disturbed: it has not failed, and its
  next step finds what it needs (`OnItsWay`) whatever was on the host before.

A step is `Apart`: it works on one host's files and on one deploy's state, and
changes another command at most by writing to a file that command has open
(`Touched`). `OthersStaged`, `OthersClean` and `ElsewhereSound` carry the invariant
over for the rest, so a lemma per action (`InspectDInv`, `OpenTmpDInv`,
`CatEndsDInv`, `MoveDInv`, `GivesUpDInv`, ...) has only the one host to look at. The
commands that outlive their deploy go through `LeftStep`.

### TuiPanes

`OpensAnswered` and `TabsInv` have one `IInv`. Its parts say what the queues mean:

* `LinedUp`. Answers to OpenPane carry no id. Subscription ids only grow, the session
  is serial and both queues keep their order; so the answers in flight, followed by the
  opens not yet taken, are exactly `App.pending_opens`, each in increasing order and
  every answer before every open. `TakeAnswer` draws the conclusion: the first answer
  and the oldest request are both the least of the same set, hence about the same
  subscription.
* `CommandsKept`, `RepliesKept`: a command that is under way means what the TUI has done
  since (an unsubscribe is of a tab that has gone, an attach of the pane that its tab
  is for), an answer is the verdict on a request that still waits. Without the first,
  an UnsubscribePane in the queue could silence a tab on the stack.
* `TabsKept`: the tabs have distinct subscriptions, and there are no more tabs and
  requests than ids were given out, which bounds the position `active` after a tab was
  added.
* `StartKept`: before the event loop runs one question is under way at a time.

A step is proved by how it changes the line-up. Most do not (`PlainStep`: tabs go,
plain commands are given or taken); one asks (`AskedStep`, for Enter on a Fleet row
and for the last tab closed), one decides (`DaemonOpensStep`), one takes an answer
(`AnsweredStep`, for both outcomes). Where a tab's size comes from is the relation
`Fits` between the queue and the pane, with a lemma for each way the queue changes
(`FitsJoin`, `FitsLast`, `FitsTail`). `GreatestOf` is the well-foundedness of Nat put
to use: among the resizes of one pane one comes last.

### TuiDocker

`DInv` is one invariant for the three properties. Beside the types:

* `TileKept`: the cursor is on a row (`CursorOn`), and a prompt that is open is about
  the current target, since a retarget cancels it. With `ConfirmedAsAsked` this gives
  that Enter sends what the prompt named.
* `IdsKept`: an id that is in use anywhere (in either queue, in a task of the daemon,
  in the view, among the pending actions) was handed out by `alloc_sub_id`. So the id
  of a new request meets nothing.
* `LogsKept`: a stream that is asked for or runs belongs to the view or is followed by
  its unsubscribe, a view has its stream, has ended or its end is on its way, and an
  unsubscribe never precedes the subscribe of its stream (`LogsFirst`). The last is
  what the order of the socket gives; without it a view could be left while its
  subscribe is still under way and the stream would stay for ever.
* `ActsKept`: an action is a command, a task of the daemon or a result, one of the
  three and once (`Distinct`), and until its result is read the user was told nothing,
  or the timeout. So a result cannot be told before the timeout that precedes it, nor
  twice.
* `ListKept`: in `up` a list subscription that is given up is followed by one to the
  current target, and one to another host is given up after it (`EndsWith`); so is one
  to another host that the daemon serves (`GivesUp`). The target's list is `Coming`,
  served or asked for, or else its answer is behind everything that is still said of
  other hosts (`Overtaken`), the aborted forwarder apart. A tile that shows another
  host's list or none has it `Coming` or answered. `Overtaken` is
  stronger than `StaleIsOvertaken`, which alone would be lost when an old event that
  follows the answer is shown last.

The tile's own part (`TileNext`) needs nothing of the rest. The rest, `LinkInv`, is
proved by what a step does to the queues: it gives orders (`OrdersLink`), takes what
arrived (`Arrived`), takes a command (`Taken`) or says something (`Said`,
`SaidOfList`), with lemmas for each part of the invariant on appending to a queue,
joining two and dropping the head. An agent that is lost writes the failures of
everything it served at once, in any order: `LostTasks` says what the records of a
finite set of tasks amount to, whatever order they were put in.

### TuiLists

`LInv` says that each view is kept (`KeptView`: its cursor is on a row, and it has
rows only after a list), that the first click on the Fleet tile, if it still knows a
row, knows the one at its line (`KnowsRow`), and that every host on the Fleet tile has a
state (`RowsHaveStates`). `ReanchoredIsOn` is the lemma about
`reanchor_selection`: the row it chooses is visible, and is the old key's if that is
visible. `FramedLine` and `BodyLine` say what
is on a line of a tile for any height, filter bar and list, and `ClickHits` that the
hit test computes its inverse.

Both rest on `FilterRows`: `PlacesUpTo` and `KthOfPlaces` count the rows that pass,
and `FilteredAreRows` says that what is shown are rows of the list.

### DockerLogs

`LogInv` adds to `LogsViewKept` that a stream which still runs holds back exactly what
comes after the last newline of its output, that the window's offset is within the
lines, and that the tail flag of a running stream says whether it is zero. That a
chunk may be cut anywhere is then one lemma about buffers, `CompleteJoin`: the lines of
b and then d are the lines of b, followed by those of what b left and d. It rests on
where the newlines of two joined buffers are (`EndsJoin`), which is about the places of
two joined lists (`JoinedKth`): those of the first stay and those of the second
follow, moved by its length. The same lemma gives that a filter agrees with joining
(`FilterJoin`), so that lines of the other stream do not disturb one stream's
transcript. `PushKeeps` is the cap: pushing lines that drop the oldest leaves the
newest of all lines ever pushed, and never fewer than before, so the offset stays
valid while lines arrive under it.

### Only model-checked

* `TuiInput`: what it makes of its bytes, in mouse reports and keys, is computed by
  automata that are folded over a chunk, so a proof would be an induction over the
  bytes of the chunk, which the prover does not do. TLC compares the result with a
  reference for all sequences up to the bounds.
* The findings, and what a property excepts by name.
* All liveness (the leads-to properties, under the fairness of section 3, and with
  them the other half of `ActionsObeyed`), which is out of the prover's reach, as is
  ENABLED.

## 5. Not modelled, and the plan

Not modelled because there is no behaviour to check: colours, borders and wording
of the drawing, the rkyv encoding, bollard and russh, the probes' reading of the
system, command-line parsing. They appear as nondeterministic inputs where they
matter. Test drivers and demos (`xtask`) are not part of the system. Left out
though they have some state: the help overlay's scrolling, the stacking and
expiry of toasts, the placeholder tile.

What is left, in this order:

1. The parsers of `TuiInput` as steps of a byte each, which could be proved about.
2. `RemotePane` as an implementation of a log that may repeat its last chunk.
3. `TuiPanes` over an abstract session proved to be implemented by
   `ClientSession`, so that the two need not be checked together.
4. Liveness of `AgentRouting` over two connections, which needs a smaller model of
   the driver.

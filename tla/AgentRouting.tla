---------------------------- MODULE AgentRouting ----------------------------
(***************************************************************************)
(* tepegoz-core, agent.rs and client.rs: requests of clients routed        *)
(* through the agent of one remote host (alias).                           *)
(*                                                                         *)
(* Every reconnect of the host makes a new AgentConnection, numbered 1,    *)
(* 2, ...; the pool (SharedState.agent_conns) holds at most one of them.   *)
(* A connection allocates daemon ids from 1, maps each to the client       *)
(* request it serves (routing), and is worked by two tasks: the driver,    *)
(* which owns the SSH channel, and the parser, which routes what the agent *)
(* says.  Client sessions run concurrently with both.                      *)
(***************************************************************************)
EXTENDS Integers, Sequences, FiniteSets

CONSTANTS Clients,
          Subs,       \* subscription requests, each with an id of its own
          Actions,    \* DockerAction requests
          Owner,      \* the client that issues a request
          Shared,     \* several supervisors (Fleet subscriptions) share the alias
          MaxConns,   \* bound: agent connections in a behaviour
          MaxEvents   \* bound: events that agents emit in a behaviour

Reqs == Subs \cup Actions
Conns == 1 .. MaxConns

ASSUME RoutingConstants ==
    /\ Subs \cap Actions = {}
    /\ Owner \in [Reqs -> Clients]
    /\ Shared \in BOOLEAN
    /\ MaxConns \in Nat /\ MaxEvents \in Nat

VARIABLES
    pool,      \* agent_conns[alias]: a connection, or 0 for none
    made,      \* connections made so far
    capable,   \* the capability that the requests need was advertised
    dropped,   \* connections whose SSH session the supervisor has dropped
    removing,  \* removed from the pool, shutdown_agent_connection still to run
    driver,    \* run_agent_driver_russh: "none", "run", "closing", "eof", "gone"
    parser,    \* run_envelope_parser: "none", "run", "done"
    nextId,    \* AgentConnection.next_sub_id
    routing,   \* AgentConnection.routing: set of [id, req]
    writer,    \* writer_tx / writer_rx: messages for the agent
    agent,     \* far side: forwarders and actions under way, set of [id, req]
    pipe,      \* messages of the agent on their way to the parser
    events,    \* events emitted so far
    cmd,       \* the command each client session is handling
    handles,   \* client_agent_subs: set of [req, id]
    open,      \* clients that are connected
    issued,    \* requests issued so far
    log,       \* what each request was answered, in event_tx order
    lost       \* requests that nobody looks after: accepted between the parser's drain
               \* and the end of writer_rx, or whose entry went with a stale handle

connVars == <<made, capable, dropped, removing, driver, parser, agent, pipe, events>>
clientVars == <<cmd, handles, open, issued>>
vars == <<pool, connVars, nextId, routing, writer, clientVars, log, lost>>

Entry == [id : Nat, req : Reqs]
Idle == [step |-> "idle"]
Command == {Idle} \cup [step : {"register"}, req : Reqs, conn : Conns]
           \cup [step : {"forward"}, req : Reqs, conn : Conns, id : Nat]
Answer == [kind : {"event", "result", "unavailable"}, from : Reqs]

-----------------------------------------------------------------------------
(* Answers.                                                                *)

\* unavailable_envelope_for_scope, docker_action_failure_envelope and the
\* envelopes of the drain: the request is told that it will not be served.
Unavailable(r) == [kind |-> "unavailable", from |-> r]

Tell(r, answer) == log' = [log EXCEPT ![r] = Append(@, answer)]

\* drain_routing_on_disconnect: every entry is told, then the map is empty.
Drain(k) ==
    /\ log' = [r \in Reqs |->
                 IF \E e \in routing[k] : e.req = r
                 THEN Append(log[r], Unavailable(r)) ELSE log[r]]
    /\ routing' = [routing EXCEPT ![k] = {}]

-----------------------------------------------------------------------------
(* The pool, as the host supervisors use it.                               *)

\* A supervisor's session ends: run_connected_session returns and drops it.
DropSession(k) ==
    /\ driver[k] # "none" /\ k \notin dropped
    /\ dropped' = dropped \cup {k}
    /\ UNCHANGED <<pool, made, capable, removing, driver, parser, agent, pipe, events,
                   nextId, routing, writer, clientVars, log, lost>>

\* deploy_and_register_inner: a connection with its two tasks, put in the pool
\* after the entry it finds there has been drained.
RegisterAgent ==
    /\ made < MaxConns
    /\ ~Shared => pool = 0 /\ 1 .. made \subseteq dropped
    /\ LET k == made + 1
       IN  /\ made' = k
           /\ pool' = k
           /\ \E b \in BOOLEAN : capable' = [capable EXCEPT ![k] = b]
           /\ driver' = [driver EXCEPT ![k] = "run"]
           /\ parser' = [parser EXCEPT ![k] = "run"]
    /\ IF pool = 0 THEN UNCHANGED <<log, routing>> ELSE Drain(pool)
    /\ UNCHANGED <<dropped, removing, agent, pipe, events, nextId, writer, clientVars, lost>>

\* remove_and_shutdown_agent takes the entry out under the pool's lock ...
RemoveAgent ==
    /\ pool # 0
    /\ ~Shared => pool \in dropped
    /\ pool' = 0
    /\ removing' = removing \cup {pool}
    /\ UNCHANGED <<made, capable, dropped, driver, parser, agent, pipe, events,
                   nextId, routing, writer, clientVars, log, lost>>

\* ... and drains it after releasing the lock.
ShutdownConn(k) ==
    /\ k \in removing
    /\ removing' = removing \ {k}
    /\ Drain(k)
    /\ UNCHANGED <<pool, made, capable, dropped, driver, parser, agent, pipe, events,
                   nextId, writer, clientVars, lost>>

-----------------------------------------------------------------------------
(* The tasks of one connection and the agent behind it.                    *)

\* The driver takes a message from writer_rx and the agent's handle_envelope
\* acts on it: a forwarder or an action is started, or a forwarder aborted.
DriverWrites(k) ==
    /\ driver[k] = "run"
    /\ writer[k] # <<>>
    /\ LET m == Head(writer[k])
       IN  agent' = [agent EXCEPT ![k] =
             IF m.op = "request" THEN @ \cup {[id |-> m.id, req |-> m.req]}
             ELSE {e \in @ : e.id \notin m.ids \/ e.req \in Actions}]
    /\ writer' = [writer EXCEPT ![k] = Tail(@)]
    /\ UNCHANGED <<pool, made, capable, dropped, removing, driver, parser, pipe, events,
                   nextId, routing, clientVars, log, lost>>

\* A forwarder of the agent emits an event; an action ends with its result.
AgentSays(k) ==
    /\ driver[k] = "run"
    /\ events < MaxEvents
    /\ events' = events + 1
    /\ \E e \in agent[k] :
          /\ pipe' = [pipe EXCEPT ![k] = Append(@, e)]
          /\ agent' = [agent EXCEPT ![k] = IF e.req \in Actions THEN @ \ {e} ELSE @]
    /\ UNCHANGED <<pool, made, capable, dropped, removing, driver, parser,
                   nextId, routing, writer, clientVars, log, lost>>

\* The channel closes: the agent died or the session is gone.  What the driver
\* has not yet copied to the parser's pipe is lost.
ChannelCloses(k) ==
    /\ driver[k] = "run"
    /\ driver' = [driver EXCEPT ![k] = "closing"]
    /\ agent' = [agent EXCEPT ![k] = {}]
    /\ \E n \in 0 .. Len(pipe[k]) : pipe' = [pipe EXCEPT ![k] = SubSeq(@, 1, n)]
    /\ UNCHANGED <<pool, made, capable, dropped, removing, parser, events,
                   nextId, routing, writer, clientVars, log, lost>>

\* The driver drops its end of the pipe, and then, on return, writer_rx.
DriverDropsPipe(k) ==
    /\ driver[k] = "closing"
    /\ driver' = [driver EXCEPT ![k] = "eof"]
    /\ UNCHANGED <<pool, made, capable, dropped, removing, parser, agent, pipe, events,
                   nextId, routing, writer, clientVars, log, lost>>

DriverReturns(k) ==
    /\ driver[k] = "eof"
    /\ driver' = [driver EXCEPT ![k] = "gone"]
    /\ writer' = [writer EXCEPT ![k] = <<>>]
    /\ UNCHANGED <<pool, made, capable, dropped, removing, parser, agent, pipe, events,
                   nextId, routing, clientVars, log, lost>>

\* Mutant: the entry of an action stays after its result was forwarded.
ParserRoutes_KeepsOneShot(k) ==
    /\ parser[k] = "run"
    /\ pipe[k] # <<>>
    /\ pipe' = [pipe EXCEPT ![k] = Tail(@)]
    /\ LET m == Head(pipe[k])
           hit == {e \in routing[k] : e.id = m.id}
           kind == IF m.req \in Actions THEN "result" ELSE "event"
       IN  log' = [r \in Reqs |->
                     IF \E e \in hit : e.req = r
                     THEN Append(log[r], [kind |-> kind, from |-> m.req]) ELSE log[r]]
    /\ UNCHANGED <<pool, made, capable, dropped, removing, driver, parser, agent, events,
                   nextId, routing, writer, clientVars, lost>>

\* route_agent_envelope: the entry of the daemon id, if it is still there, says
\* which request the message is for; a result also removes the entry, and is
\* forwarded only if that entry is a OneShot.
ParserRoutes(k) ==
    /\ parser[k] = "run"
    /\ pipe[k] # <<>>
    /\ pipe' = [pipe EXCEPT ![k] = Tail(@)]
    /\ LET m == Head(pipe[k])
           hit == {e \in routing[k] : e.id = m.id}
           isResult == m.req \in Actions
           told == IF isResult THEN {e \in hit : e.req \in Actions} ELSE hit
           kind == IF isResult THEN "result" ELSE "event"
       IN  /\ log' = [r \in Reqs |->
                        IF \E e \in told : e.req = r
                        THEN Append(log[r], [kind |-> kind, from |-> m.req]) ELSE log[r]]
           /\ routing' = [routing EXCEPT ![k] = IF isResult THEN @ \ hit ELSE @]
    /\ UNCHANGED <<pool, made, capable, dropped, removing, driver, parser, agent, events,
                   nextId, writer, clientVars, lost>>

\* Mutant: the parser leaves the cleanup to the supervisor.
ParserEnds_NoDrain(k) ==
    /\ parser[k] = "run"
    /\ driver[k] \in {"eof", "gone"} /\ pipe[k] = <<>>
    /\ parser' = [parser EXCEPT ![k] = "done"]
    /\ UNCHANGED <<pool, made, capable, dropped, removing, driver, agent, pipe, events,
                   nextId, routing, writer, clientVars, log, lost>>

\* The parser reads end of file and drains.
ParserEnds(k) ==
    /\ parser[k] = "run"
    /\ driver[k] \in {"eof", "gone"} /\ pipe[k] = <<>>
    /\ parser' = [parser EXCEPT ![k] = "done"]
    /\ Drain(k)
    /\ UNCHANGED <<pool, made, capable, dropped, removing, driver, agent, pipe, events,
                   nextId, writer, clientVars, lost>>

-----------------------------------------------------------------------------
(* Client sessions: each handles one command at a time.                    *)

\* route_remote_subscribe and route_remote_docker_action: the connection is
\* looked up under the pool's lock and cloned; without one, or without the
\* capability, the request is refused.
Route(r) ==
    LET c == Owner[r]
    IN  /\ open[c] /\ cmd[c] = Idle /\ r \notin issued
        /\ issued' = issued \cup {r}
        /\ IF pool = 0 \/ ~capable[pool]
           THEN Tell(r, Unavailable(r)) /\ UNCHANGED cmd
           ELSE /\ cmd' = [cmd EXCEPT ![c] = [step |-> "register", req |-> r, conn |-> pool]]
                /\ UNCHANGED log
        /\ UNCHANGED <<pool, connVars, nextId, routing, writer, handles, open, lost>>

\* Mutant: daemon ids are reused once their entry has gone.
Register_ReusesIds(c) ==
    /\ cmd[c].step = "register"
    /\ LET r == cmd[c].req
           k == cmd[c].conn
           id == CHOOSE i \in 1 .. Cardinality(routing[k]) + 1 :
                   \A e \in routing[k] : e.id # i
       IN  /\ routing' = [routing EXCEPT ![k] = @ \cup {[id |-> id, req |-> r]}]
           /\ cmd' = [cmd EXCEPT ![c] =
                        [step |-> "forward", req |-> r, conn |-> k, id |-> id]]
    /\ UNCHANGED <<pool, connVars, nextId, writer, handles, open, issued, log, lost>>

\* alloc_id, then the routing entry.
Register(c) ==
    /\ cmd[c].step = "register"
    /\ LET r == cmd[c].req
           k == cmd[c].conn
       IN  /\ nextId' = [nextId EXCEPT ![k] = @ + 1]
           /\ routing' = [routing EXCEPT ![k] = @ \cup {[id |-> nextId[k], req |-> r]}]
           /\ cmd' = [cmd EXCEPT ![c] =
                        [step |-> "forward", req |-> r, conn |-> k, id |-> nextId[k]]]
    /\ UNCHANGED <<pool, connVars, writer, handles, open, issued, log, lost>>

\* writer_tx.send: on failure the entry is removed and the request refused; a
\* subscription that was sent is remembered in client_agent_subs.
Forward(c) ==
    /\ cmd[c].step = "forward"
    /\ cmd' = [cmd EXCEPT ![c] = Idle]
    /\ LET r == cmd[c].req
           k == cmd[c].conn
           id == cmd[c].id
       IN  IF driver[k] # "gone"
           THEN /\ writer' = [writer EXCEPT ![k] =
                                Append(@, [op |-> "request", id |-> id, req |-> r])]
                /\ handles' = IF r \in Actions THEN handles
                              ELSE [handles EXCEPT ![c] = @ \cup {[req |-> r, id |-> id]}]
                /\ lost' = IF /\ parser[k] = "done"
                              /\ [id |-> id, req |-> r] \in routing[k]
                           THEN lost \cup {r} ELSE lost
                /\ UNCHANGED <<routing, log>>
           ELSE /\ routing' = [routing EXCEPT ![k] = {e \in @ : e.id # id}]
                /\ Tell(r, Unavailable(r))
                /\ UNCHANGED <<writer, handles, lost>>
    /\ UNCHANGED <<pool, connVars, nextId, open, issued>>

\* Mutant: teardown leaves the routing entry to the agent's Unsubscribe.
Release_AgentOnly(hs) ==
    LET ids == {h.id : h \in hs}
    IN  /\ writer' = IF hs = {} \/ pool = 0 \/ (pool # 0 /\ driver[pool] = "gone") THEN writer
                     ELSE [writer EXCEPT ![pool] = Append(@, [op |-> "unsubscribe", ids |-> ids])]
        /\ UNCHANGED <<routing, lost>>

\* Both teardown paths look the alias up again: the entries with the handles'
\* daemon ids go from whatever connection the pool holds now, and the agent of
\* that connection is told to unsubscribe the ids.
Release(hs) ==
    IF pool = 0 THEN UNCHANGED <<routing, writer, lost>>
    ELSE LET ids == {h.id : h \in hs}
             foreign == {e \in routing[pool] : \E h \in hs : h.id = e.id /\ h.req # e.req}
         IN  /\ lost' = lost \cup {e.req : e \in foreign}
             /\ routing' = [routing EXCEPT ![pool] = {e \in @ : e.id \notin ids}]
             /\ writer' = IF hs = {} \/ driver[pool] = "gone" THEN writer
                          ELSE [writer EXCEPT ![pool] =
                                  Append(@, [op |-> "unsubscribe", ids |-> ids])]

\* handle_command, Unsubscribe { id }.
Unsubscribe(c) ==
    /\ open[c] /\ cmd[c] = Idle
    /\ \E h \in handles[c] :
          /\ handles' = [handles EXCEPT ![c] = @ \ {h}]
          /\ Release({h})
    /\ UNCHANGED <<pool, connVars, nextId, cmd, open, issued, log>>

\* session: the client is gone; its subscriptions are torn down.
Disconnect(c) ==
    /\ open[c] /\ cmd[c] = Idle
    /\ open' = [open EXCEPT ![c] = FALSE]
    /\ handles' = [handles EXCEPT ![c] = {}]
    /\ Release(handles[c])
    /\ UNCHANGED <<pool, connVars, nextId, cmd, issued, log>>

-----------------------------------------------------------------------------

Init ==
    /\ pool = 0 /\ made = 0 /\ dropped = {} /\ removing = {} /\ events = 0
    /\ capable = [k \in Conns |-> FALSE]
    /\ driver = [k \in Conns |-> "none"] /\ parser = [k \in Conns |-> "none"]
    /\ nextId = [k \in Conns |-> 1]
    /\ routing = [k \in Conns |-> {}] /\ agent = [k \in Conns |-> {}]
    /\ writer = [k \in Conns |-> <<>>] /\ pipe = [k \in Conns |-> <<>>]
    /\ cmd = [c \in Clients |-> Idle]
    /\ handles = [c \in Clients |-> {}]
    /\ open = [c \in Clients |-> TRUE]
    /\ issued = {} /\ lost = {}
    /\ log = [r \in Reqs |-> <<>>]

Driver(k) == DriverWrites(k) \/ DriverDropsPipe(k) \/ DriverReturns(k)
Parser(k) == ParserRoutes(k) \/ ParserEnds(k)
Supervisor == RegisterAgent \/ RemoveAgent \/ \E k \in Conns : DropSession(k)
Routing(c) == Register(c) \/ Forward(c)

Next ==
    \/ Supervisor
    \/ \E k \in Conns : ShutdownConn(k) \/ Driver(k) \/ Parser(k)
                        \/ AgentSays(k) \/ ChannelCloses(k)
    \/ \E r \in Reqs : Route(r)
    \/ \E c \in Clients : Routing(c) \/ Unsubscribe(c) \/ Disconnect(c)

\* tokio runs the tasks and finishes a command or a shutdown that was begun,
\* and russh closes the channels of a dropped session.  Nothing obliges a host
\* to connect or to fail, an agent to speak, or a client to leave.
Fairness ==
    /\ \A k \in Conns :
          /\ WF_vars(Driver(k)) /\ WF_vars(Parser(k)) /\ WF_vars(ShutdownConn(k))
          /\ WF_vars(k \in dropped /\ ChannelCloses(k))
    /\ \A c \in Clients : WF_vars(Routing(c))

Spec == Init /\ [][Next]_vars /\ Fairness

-----------------------------------------------------------------------------
(* Properties.                                                             *)

Message == [op : {"request"}, id : Nat, req : Reqs]
           \cup [op : {"unsubscribe"}, ids : SUBSET Nat]

TypeOK ==
    /\ pool \in 0 .. made /\ made \in 0 .. MaxConns /\ events \in 0 .. MaxEvents
    /\ capable \in [Conns -> BOOLEAN]
    /\ dropped \subseteq Conns /\ removing \subseteq Conns
    /\ driver \in [Conns -> {"none", "run", "closing", "eof", "gone"}]
    /\ parser \in [Conns -> {"none", "run", "done"}]
    /\ nextId \in [Conns -> Nat]
    /\ routing \in [Conns -> SUBSET Entry] /\ agent \in [Conns -> SUBSET Entry]
    /\ writer \in [Conns -> Seq(Message)] /\ pipe \in [Conns -> Seq(Entry)]
    /\ cmd \in [Clients -> Command]
    /\ handles \in [Clients -> SUBSET Entry]
    /\ open \in [Clients -> BOOLEAN]
    /\ issued \subseteq Reqs /\ lost \subseteq issued
    /\ log \in [Reqs -> Seq(Answer)]

\* Whatever is delivered on a request was said by an agent for that very
\* request, although daemon ids restart at 1 on every connection, entries are
\* removed while messages for them are in flight, and routing is shared by all
\* clients (alloc_id, route_agent_envelope).
RightAddressee ==
    \A r \in Reqs : \A i \in 1 .. Len(log[r]) : log[r][i].from = r

\* The types, and every answer at its addressee.
RoutingInv == TypeOK /\ RightAddressee

\* The result of a DockerAction is its only answer: no failure was or will be
\* reported for an action whose result arrived, whichever of the parser, the
\* drains and the failed send gets to the entry first.
ResultIsOnlyAnswer ==
    \A a \in Actions : \A i \in 1 .. Len(log[a]) :
        log[a][i].kind = "result" => Len(log[a]) = 1

\* A client's Unsubscribe or disconnect removes "the matching routing entry"
\* (client.rs) and no other client's.
TeardownIsOwn ==
    [][\A c \in Clients : handles'[c] # handles[c] =>
          \A k \in Conns : \A e \in routing[k] \ routing'[k] : Owner[e.req] = c]_vars

Told(r) == \E i \in 1 .. Len(log[r]) : log[r][i].kind \in {"result", "unavailable"}

\* Nothing more will happen on the connection by itself: its tasks have ended
\* and no drain is under way.
Over(k) == driver[k] = "gone" /\ parser[k] = "done" /\ k \notin removing
\* The session is between the lookup of the connection and the send.
Underway(r) == cmd[Owner[r]] # Idle /\ cmd[Owner[r]].req = r
\* The client has taken the subscription back.
Withdrawn(r) ==
    r \in Subs /\ ~Underway(r) /\ ~\E h \in handles[Owner[r]] : h.req = r

\* At any moment a request is on its way, answered, taken back by its client,
\* or routed on a connection that still has a task that will drain it.
LookedAfter(r) ==
    \/ Underway(r) \/ Told(r) \/ Withdrawn(r)
    \/ \E k \in Conns : ~Over(k) /\ \E e \in routing[k] : e.req = r

\* What agent.rs and client.rs promise: "the send fails, the caller gracefully
\* surfaces DockerUnavailable", "so the TUI's pending-action toast clears rather
\* than hanging".  No request is forgotten, whoever notices the disconnect first.
EveryRequestAnswered == \A r \in issued : LookedAfter(r)

\* The promise is broken in two windows and nowhere else.  A request is lost
\* when its send is accepted between the parser's drain and the end of
\* writer_rx, by a driver that writes nothing any more, and when its entry is
\* removed with a stale handle of another request.  A send after writer_rx is
\* gone is refused and the request told, a request registered before the drain
\* is told by it, and every other disconnect is reported on all it catches,
\* whether the parser, a supervisor or the session itself notices first.
DisconnectReported == \A r \in issued \ lost : LookedAfter(r)

\* After a client has gone a subscription of its keeps no routing entry, and
\* with it a clone of event_tx that would keep the session's writer task alive,
\* but on a connection that is no longer pooled and is yet to be drained; with
\* one supervisor the session of that connection has already been dropped.
SubscriptionsReleased ==
    \A r \in Subs : \A k \in Conns : \A e \in routing[k] :
        e.req = r /\ ~open[Owner[r]] /\ r \notin lost
            => k # pool /\ ~Over(k) /\ (k \in dropped \/ Shared)
=============================================================================

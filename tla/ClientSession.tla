---------------------------- MODULE ClientSession ----------------------------
(***************************************************************************)
(* tepegoz-core, client.rs: the session of one client and the forwarder    *)
(* tasks it spawns, from the handshake to the end of handle_client.        *)
(*                                                                         *)
(* The session keeps one map per kind of subscription, from the client's   *)
(* id to the AbortHandle of the task that serves it.  Every task holds a   *)
(* clone of event_tx, and the session ends only after the writer task has  *)
(* seen the last clone go (or a write fail).  What the forwarders of panes *)
(* and hosts say is the subject of PaneStream and HostSupervisor, remote   *)
(* targets of AgentRouting; here they matter as tasks that hold a clone.   *)
(***************************************************************************)
EXTENDS Integers, FiniteSets

CONSTANTS Ids,       \* subscription ids the client uses
          Kinds,     \* kinds of subscription, a subset of AllKinds
          MaxTasks,  \* bound: forwarders spawned in a behaviour
          MaxActs    \* bound: local DockerActions in a behaviour

AllKinds == {"docker", "ports", "processes", "logs", "stats", "pane", "fleet"}
\* Kinds whose forwarder polls for ever, and kinds that stream to an end.
Polls(kind) == kind \in {"docker", "ports", "processes"}
Streams(kind) == kind \in {"logs", "stats", "pane"}
\* Kinds that connect to the Docker engine first.
UsesEngine(kind) == kind \in {"docker", "logs", "stats"}
\* docker_subs also holds the log and stats subscriptions.
MapOf(kind) == IF UsesEngine(kind) THEN "docker" ELSE kind

ASSUME SessionConstants ==
    /\ Kinds \subseteq AllKinds /\ Kinds # {} /\ Ids # {}
    /\ MaxTasks \in Nat /\ MaxActs \in Nat

VARIABLES
    phase,    \* session: "hello", "loop", "closing" (awaits the writer), "closed"
    peer,     \* the client's end of the socket: "open" or "gone"
    writer,   \* the writer task, and with it event_rx: "run" or "ended"
    dirty,    \* event_rx holds something that is not written yet
    subs,     \* pane_subs, docker_subs, ...: map and id to a task, 0 for none
    status,   \* status_sub: the set of its id, or {}
    spawned,  \* forwarders spawned so far: tasks 1 .. spawned
    task,     \* the forwarders
    acts,     \* local DockerActions under way
    asked,    \* local DockerActions so far
    engine    \* the Docker engine, or the probe: "up" or "down"

sessionVars == <<phase, peer, subs, status, spawned, asked>>
vars == <<phase, peer, writer, dirty, subs, status, spawned, task, acts, asked, engine>>

Tasks == 1 .. MaxTasks
Maps == {MapOf(kind) : kind \in Kinds}

\* st: the await where the task stands; last: last_was_unavailable; shown: what
\* it sent last; streak: unavailable events it sent in a row (counted to 2).
Fresh(kind, id) ==
    [kind |-> kind, id |-> id, st |-> IF UsesEngine(kind) THEN "connect" ELSE "work",
     aborted |-> FALSE, last |-> "none", shown |-> "none", streak |-> 0]
Over(t) == [t EXCEPT !.st = "over", !.last = "none"]

\* The task can still run and nobody has asked it to stop.
Live(n) == n <= spawned /\ task[n].st # "over" /\ ~task[n].aborted

\* AbortHandle::abort on the tasks ns: each stops at its next await.
Aborted(ns) == [n \in Tasks |-> IF n \in ns THEN [task[n] EXCEPT !.aborted = TRUE] ELSE task[n]]

\* event_tx.send succeeds while event_rx exists.
Sent == writer = "run" /\ dirty' = TRUE
SendFails == writer = "ended" /\ UNCHANGED dirty

-----------------------------------------------------------------------------
(* The session.                                                            *)

\* session, handshake: a version mismatch is answered and the session winds
\* up; anything but a Hello (or end of file) ends it at once.
ReadHello ==
    /\ phase = "hello"
    /\ \/ phase' \in {"loop", "closing"} /\ (Sent \/ SendFails)
       \/ phase' = "closed" /\ UNCHANGED dirty
    /\ UNCHANGED <<peer, writer, subs, status, spawned, task, acts, asked, engine>>

\* The end of the loop: every map is drained and every handle aborted.
Teardown ==
    /\ phase' = "closing"
    /\ task' = Aborted({n \in Tasks : \E m \in Maps : \E i \in Ids : subs[m][i] = n})
    /\ subs' = [m \in Maps |-> [i \in Ids |-> 0]]
    /\ status' = {}
    /\ UNCHANGED <<peer, writer, spawned, acts, asked, engine>>

\* read_envelope fails: the client has gone.
ReadFails ==
    /\ phase = "loop" /\ peer = "gone"
    /\ Teardown /\ UNCHANGED dirty

\* Ping, ListPanes, OpenPane, or an AttachPane of an unknown pane: an answer,
\* or the end of the loop.
Answer ==
    /\ phase = "loop"
    /\ \/ Sent /\ UNCHANGED <<sessionVars, writer, task, acts, engine>>
       \/ SendFails /\ Teardown

\* Subscribe(Status): the one slot is taken over, and a status sent at once.
SubscribeStatus(i) ==
    /\ phase = "loop"
    /\ \/ /\ Sent
          /\ status' = {i}
          /\ UNCHANGED <<phase, peer, writer, subs, spawned, task, acts, asked, engine>>
       \/ SendFails /\ Teardown

\* The ticker, armed while there is a status subscription.
StatusTick == status # {} /\ Answer

\* Mutant: the previous task of the id is forgotten, not aborted.
SubscribeLocal_KeepsPrevious(kind, i) ==
    /\ phase = "loop" /\ spawned < MaxTasks
    /\ spawned' = spawned + 1
    /\ task' = [task EXCEPT ![spawned + 1] = Fresh(kind, i)]
    /\ subs' = [subs EXCEPT ![MapOf(kind)][i] = spawned + 1]
    /\ UNCHANGED <<phase, peer, writer, dirty, status, acts, asked, engine>>

\* Subscribe and AttachPane, local: a previous task of that id in the same map
\* is aborted, a new one spawned and put in its place.
SubscribeLocal(kind, i) ==
    /\ phase = "loop" /\ spawned < MaxTasks
    /\ spawned' = spawned + 1
    /\ LET prev == {subs[MapOf(kind)][i]} \ {0}
       IN  task' = [Aborted(prev) EXCEPT ![spawned + 1] = Fresh(kind, i)]
    /\ subs' = [subs EXCEPT ![MapOf(kind)][i] = spawned + 1]
    /\ UNCHANGED <<phase, peer, writer, dirty, status, acts, asked, engine>>

\* AttachPane of an unknown pane: the previous attachment of the id is gone all
\* the same.
AttachUnknown(i) ==
    /\ phase = "loop" /\ "pane" \in Maps /\ subs["pane"][i] # 0
    /\ Sent
    /\ task' = Aborted({subs["pane"][i]})
    /\ subs' = [subs EXCEPT !["pane"][i] = 0]
    /\ UNCHANGED <<phase, peer, writer, status, spawned, acts, asked, engine>>

\* Unsubscribe { id }: whatever carries the id goes, in every map.
Unsubscribe(i) ==
    /\ phase = "loop"
    /\ i \in status \/ \E m \in Maps : subs[m][i] # 0
    /\ status' = status \ {i}
    /\ task' = Aborted({subs[m][i] : m \in Maps} \ {0})
    /\ subs' = [m \in Maps |-> [subs[m] EXCEPT ![i] = 0]]
    /\ UNCHANGED <<phase, peer, writer, dirty, spawned, acts, asked, engine>>

\* DockerAction, local: run in a task nobody keeps a handle of.
DockerAction ==
    /\ phase = "loop" /\ asked < MaxActs
    /\ asked' = asked + 1 /\ acts' = acts + 1
    /\ UNCHANGED <<phase, peer, writer, dirty, subs, status, spawned, task, engine>>

\* The writer has ended: handle_client returns and clients_now is decremented.
Close ==
    /\ phase = "closing" /\ writer = "ended"
    /\ phase' = "closed"
    /\ UNCHANGED <<peer, writer, dirty, subs, status, spawned, task, acts, asked, engine>>

-----------------------------------------------------------------------------
(* The writer task.                                                        *)

\* Everything queued is written; a write to a client that has gone may fail.
WriterWrites ==
    /\ writer = "run" /\ dirty
    /\ dirty' = FALSE
    /\ writer' \in IF peer = "gone" THEN {"run", "ended"} ELSE {"run"}
    /\ UNCHANGED <<sessionVars, task, acts, engine>>

\* Mutant: the session awaits the writer before it drops its own event_tx.
WriterDrained_SessionHoldsTx ==
    /\ writer = "run" /\ ~dirty
    /\ phase = "closed" /\ acts = 0
    /\ \A n \in 1 .. spawned : task[n].st = "over"
    /\ writer' = "ended"
    /\ UNCHANGED <<sessionVars, dirty, task, acts, engine>>

\* recv returns None: no clone of event_tx is left.
WriterDrained ==
    /\ writer = "run" /\ ~dirty
    /\ phase \in {"closing", "closed"} /\ acts = 0
    /\ \A n \in 1 .. spawned : task[n].st = "over"
    /\ writer' = "ended"
    /\ UNCHANGED <<sessionVars, dirty, task, acts, engine>>

-----------------------------------------------------------------------------
(* The forwarders.  A step runs from one await to the next; an abort that   *)
(* comes while a task runs lets it finish the step, so aborted tasks may    *)
(* still take one.                                                          *)

Runs(n, st) == n <= spawned /\ task[n].st = st

Becomes(n, t) ==
    /\ task' = [task EXCEPT ![n] = t]
    /\ UNCHANGED <<sessionVars, writer, acts, engine>>

\* Task n sends an event of the given sort and goes on as t, or, when nobody
\* receives it, returns.
Emits(n, sort, t) ==
    \/ /\ Sent
       /\ Becomes(n, [t EXCEPT !.shown = sort,
                               !.streak = IF sort # "unavailable" THEN 0
                                          ELSE IF @ = 0 THEN 1 ELSE 2])
    \/ SendFails /\ Becomes(n, Over(t))

\* Engine::connect succeeds.
Connects(n) ==
    /\ Runs(n, "connect") /\ engine = "up"
    /\ Becomes(n, [task[n] EXCEPT !.st = "work"])
    /\ UNCHANGED dirty

\* Mutant: a failed connection ends the task.
DockerFails_GivesUp(n) ==
    /\ Runs(n, "connect") \/ Runs(n, "work")
    /\ task[n].kind = "docker" /\ engine = "down"
    /\ Emits(n, "unavailable", Over([task[n] EXCEPT !.last = "down"]))

\* An outage, said when it begins; the task goes on as t.
Unavailable(n, t) ==
    IF task[n].last = "down" THEN Becomes(n, t) /\ UNCHANGED dirty
    ELSE Emits(n, "unavailable", [t EXCEPT !.last = "down"])

\* forward_docker: connecting or listing fails; sleep and connect again.
DockerFails(n) ==
    /\ Runs(n, "connect") \/ Runs(n, "work")
    /\ task[n].kind = "docker" /\ engine = "down"
    /\ Unavailable(n, [task[n] EXCEPT !.st = "connect"])

\* forward_ports and forward_processes: the probe fails; sleep and try again.
ProbeFails(n) ==
    /\ Runs(n, "work")
    /\ task[n].kind \in {"ports", "processes"} /\ engine = "down"
    /\ Unavailable(n, task[n])

\* A list of containers, ports or processes.
PollLists(n) ==
    /\ Runs(n, "work")
    /\ Polls(task[n].kind) /\ engine = "up"
    /\ Emits(n, "list", [task[n] EXCEPT !.last = "up"])

\* A chunk of log, a sample, pane output, a host event.
StreamEmits(n) ==
    /\ Runs(n, "work") /\ ~Polls(task[n].kind)
    /\ Emits(n, "item", task[n])

\* Mutant: a failed connection ends a stream without a word.
StreamEnds_Silently(n) ==
    /\ Streams(task[n].kind)
    /\ Runs(n, "work") \/ (Runs(n, "connect") /\ engine = "down")
    /\ Becomes(n, Over(task[n])) /\ UNCHANGED dirty

\* forward_docker_logs, forward_docker_stats, forward_pane: no engine, or the
\* end of the stream.  The last event says so.
StreamEnds(n) ==
    /\ Streams(task[n].kind)
    /\ Runs(n, "work") \/ (Runs(n, "connect") /\ engine = "down")
    /\ Emits(n, "end", Over(task[n]))

\* tokio drops an aborted task, and its clone of event_tx.
Dropped(n) ==
    /\ n <= spawned /\ task[n].aborted /\ task[n].st # "over"
    /\ Becomes(n, Over(task[n]))
    /\ UNCHANGED dirty

\* run_docker_action returns; its result is sent, heard or not.
ActionEnds ==
    /\ acts > 0
    /\ acts' = acts - 1
    /\ Sent \/ SendFails
    /\ UNCHANGED <<sessionVars, writer, task, engine>>

-----------------------------------------------------------------------------

ClientLeaves ==
    /\ peer = "open" /\ peer' = "gone"
    /\ UNCHANGED <<phase, writer, dirty, subs, status, spawned, task, acts, asked, engine>>

EngineChanges ==
    /\ engine' = IF engine = "up" THEN "down" ELSE "up"
    /\ UNCHANGED <<sessionVars, writer, dirty, task, acts>>

Init ==
    /\ phase = "hello" /\ peer = "open" /\ writer = "run" /\ dirty = FALSE
    /\ subs = [m \in Maps |-> [i \in Ids |-> 0]]
    /\ status = {} /\ spawned = 0 /\ acts = 0 /\ asked = 0
    /\ task = [n \in Tasks |-> Over(Fresh(CHOOSE kind \in Kinds : TRUE, CHOOSE i \in Ids : TRUE))]
    /\ engine \in {"up", "down"}

Command ==
    \/ Answer \/ StatusTick
    \/ \E i \in Ids : SubscribeStatus(i) \/ AttachUnknown(i) \/ Unsubscribe(i)
                      \/ \E kind \in Kinds : SubscribeLocal(kind, i)
    \/ DockerAction
Writer == WriterWrites \/ WriterDrained
Poll(n) == Connects(n) \/ DockerFails(n) \/ ProbeFails(n) \/ PollLists(n)
Stream(n) == StreamEmits(n) \/ StreamEnds(n)

Next ==
    \/ ReadHello \/ Command \/ ReadFails \/ Close
    \/ Writer \/ ActionEnds
    \/ \E n \in Tasks : Poll(n) \/ Stream(n) \/ Dropped(n)
    \/ ClientLeaves \/ EngineChanges

\* tokio polls the session, the writer and the tasks; a docker action ends;
\* timers fire.  The client owes nobody a command, and a stream no item.
Fairness ==
    /\ WF_vars(ReadHello) /\ WF_vars(ReadFails) /\ WF_vars(Close) /\ WF_vars(Writer)
    /\ WF_vars(ActionEnds)
    /\ \A n \in Tasks : WF_vars(Poll(n)) /\ WF_vars(Dropped(n))

Spec == Init /\ [][Next]_vars /\ Fairness

-----------------------------------------------------------------------------
(* Properties.                                                             *)

TypeOK ==
    /\ phase \in {"hello", "loop", "closing", "closed"} /\ peer \in {"open", "gone"}
    /\ writer \in {"run", "ended"} /\ dirty \in BOOLEAN /\ engine \in {"up", "down"}
    /\ subs \in [Maps -> [Ids -> 0 .. spawned]]
    /\ status \subseteq Ids /\ Cardinality(status) <= 1
    /\ spawned \in 0 .. MaxTasks /\ asked \in 0 .. MaxActs /\ acts \in 0 .. asked
    /\ task \in [Tasks -> [kind : Kinds, id : Ids, st : {"connect", "work", "over"},
                           aborted : BOOLEAN, last : {"none", "up", "down"},
                           shown : {"none", "list", "item", "unavailable", "end"},
                           streak : 0 .. 2]]

\* Every forwarder that has not been stopped is in the session's map under its
\* id, so that Unsubscribe and the teardown find it: ids "can cancel any kind",
\* and no replacement or re-attach leaves a "zombie forwarder" behind.
NoZombieForwarder ==
    \A n \in Tasks : Live(n) => subs[MapOf(task[n].kind)][task[n].id] = n

\* The session's types, and its hold on its forwarders.
SessionInv == TypeOK /\ NoZombieForwarder

\* An outage is reported by "a single DockerUnavailable (only on the transition
\* from available - or initial - to unavailable, not on every retry)".
UnavailableSaidOnce ==
    \A n \in Tasks : n <= spawned => task[n].streak <= 1

\* A log, stats or pane subscription that stops by itself while the client
\* listens has told it so.
EndIsTold ==
    \A n \in Tasks :
        n <= spawned /\ Streams(task[n].kind) /\ task[n].st = "over"
            /\ ~task[n].aborted /\ writer = "run"
        => task[n].shown = "end"

\* What a forwarder must say it says, and says once.
ToldOnce == EndIsTold /\ UnavailableSaidOnce

\* After the client has gone its session ends and clients_now is decremented,
\* whatever the forwarders were doing: no clone of event_tx is left to keep the
\* writer waiting.
SessionEnds == peer = "gone" ~> phase = "closed"

\* When the engine is back for good, a polling subscription that reported it
\* unavailable comes back by itself, unless it was cancelled or nobody listens.
OutageEnds ==
    <>[](engine = "up") =>
        \A n \in Tasks : task[n].shown = "unavailable"
                             ~> task[n].shown = "list" \/ task[n].aborted \/ writer = "ended"
=============================================================================

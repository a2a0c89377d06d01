------------------------------ MODULE MCTuiTiles ------------------------------
(***************************************************************************)
(* The tiles that show the daemon's lists, for TLC: TuiDocker, TuiLists    *)
(* and the logs view of DockerLogs share no state, so a behaviour is about *)
(* one of them and has one of the scenes below.                            *)
(***************************************************************************)
EXTENDS TuiDocker, TuiLists, DockerLogs

VARIABLE scene

\* The Docker tile: one list of two containers, of which one passes the filter; the
\* list may become unavailable and come back.  A scene bounds what the user does:
\* a local list with filter, prompt, logs and focus; the prompt, or the logs, across
\* retargets to one host; retargets between two hosts, of which one loses agents, with
\* what local forwarders say after their abort.  A report of a host travels alone, and
\* the picker opens when no command is under way.
MCLists == {<<2, 1>>}
MCMatching == [n \in 0 .. 1 |-> IF n = 0 THEN {1, 2} ELSE {1}]
DockerScenes == {"rows", "actions", "logs", "hosts"}
Reach == [s \in DockerScenes |-> IF s = "rows" THEN 0 ELSE IF s = "hosts" THEN 2 ELSE 1]

Plays ==
    /\ scene # "rows" => ~typing /\ focus = "docker" /\ sel = 1 /\ nextId <= 2
    /\ scene \in {"logs", "hosts"} => confirm = {} /\ pending = {}
    /\ scene \in {"actions", "hosts"} => logs = {}
    /\ scene = "rows" => Len(down) <= 1
    /\ scene = "hosts" => (1 \in agents <=> 1 \notin deaf)
    /\ scene # "hosts" =>
          \A i \in DOMAIN down : down[i].t \in {"list", "gone"} => down[i].host # Aborted
    /\ \A i \in DOMAIN down : down[i].t = "host" => Len(down) = 1
    /\ scene # "rows" /\ picker # {} => up = <<>>
    /\ \A h \in picker \cup usable \cup agents : h <= Reach[scene]

\* The list tiles: two keys, of which one passes the filter; one list is answered.
MCRowLists == {<<1>>, <<2, 1>>}
MCAnswered == {{}, {"ports"}, {"processes"}, {"fleet"}}
MCPassing == [n \in 0 .. 1 |-> IF n = 0 THEN {1, 2} ELSE {1}]

MCInit ==
    /\ Init /\ ListsInit /\ LogsInit
    /\ \/ scene \in DockerScenes /\ answered = {} /\ Plays
       \/ scene = "lists" /\ answered # {} /\ agents = {}
       \/ scene = "output" /\ answered = {} /\ agents = {}

MCNext ==
    /\ UNCHANGED scene
    /\ \/ scene \in DockerScenes /\ Next /\ Plays' /\ UNCHANGED <<listVars, logVars>>
       \/ scene = "lists" /\ ListsNext /\ UNCHANGED <<vars, logVars>>
       \/ scene = "output" /\ LogsNext /\ UNCHANGED <<vars, listVars>>

MCSpec == MCInit /\ [][MCNext]_<<vars, listVars, logVars, scene>>

\* FilterRows is SelectSeq.
ASSUME \A n \in 0 .. 3 : \A l \in [1 .. n -> {1, 2, 3}], S \in SUBSET {1, 2, 3} :
          FilterRows(l, S) = SelectSeq(l, LAMBDA c : c \in S)
=============================================================================

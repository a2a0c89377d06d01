-------------------------- MODULE HostSupervisorProofs --------------------------
(***************************************************************************)
(* Any number of supervisors of one host: the pool entry is always one of  *)
(* a supervisor in its session, and Disconnect sticks.  Both need to know  *)
(* what a supervisor has been told in each place it can stand.             *)
(***************************************************************************)
EXTENDS HostSupervisor, TLAPS

\* The miss counter of a running session is below the threshold that ends it.
MissesBelow == \A p \in Sups : st[p] = "session" => misses[p] < DisconnectAfter

\* Where a supervisor dials, or will do so by itself.
Dialling(p) ==
    \/ st[p] \in {"dial", "connecting", "deploy", "session", "backoff"}
    \/ st[p] = "over" /\ ended[p] # "disconnect"

\* No supervisor that was told to disconnect is on its way to another attempt.
ToldToDial == \A p \in Sups : Dialling(p) => last[p] # "disconnect"

HInv == TypeOK /\ PooledAgentHasSession /\ MissesBelow /\ ToldToDial

LEMMA InitHInv == Init => HInv
<1> SUFFICES ASSUME Init PROVE HInv
  OBVIOUS
<1>1. TypeOK
  BY SupervisorConstants DEF Init, TypeOK, Location, HostAction, HostState
<1>2. PooledAgentHasSession
  BY SupervisorConstants DEF Init, PooledAgentHasSession
<1>3. MissesBelow
  BY DEF Init, MissesBelow
<1>4. ToldToDial
  BY DEF Init, ToldToDial, Dialling
<1>5. QED
  BY <1>1, <1>2, <1>3, <1>4 DEF HInv

\* Taking an action from the queue.
LEMMA TakeType ==
    ASSUME TypeOK, NEW p \in Sups, NEW a \in HostAction, Take(p, a)
    PROVE  /\ queue' \in [Sups -> Seq(HostAction)]
           /\ sentTo' \in [Sups -> 0 .. MaxActions]
           /\ last' \in [Sups -> HostAction \cup {"none"}]
           /\ last'[p] = a
           /\ \A q \in Sups \ {p} : last'[q] = last[q]
           /\ caps' \in [Sups -> BOOLEAN] /\ up' \in [Sups -> BOOLEAN]
           /\ age' \in [Sups -> 0 .. ResetAfter]
           /\ misses' = misses /\ misses' \in [Sups -> 0 .. DisconnectAfter]
           /\ pool' = pool /\ pool' \in Sups \cup {Nobody}
<1>1. queue[p] \in Seq(HostAction) /\ queue[p] # <<>>
  BY DEF TypeOK, Take
<1>2. Tail(queue[p]) \in Seq(HostAction)
  BY <1>1
<1>3. QED
  BY <1>2 DEF TypeOK, Take, Set

\* Every action that a supervisor can take, wherever it stands.
LEMMA TakesHInv ==
    ASSUME HInv, NEW p \in Sups, Takes(p)
    PROVE  HInv'
<1> USE DEF HInv
<1>1. PICK a \in HostAction : Take(p, a)
  BY DEF Takes, JumpTakes, IdleTakes, ConnectingTakes, SessionTakes, BackoffTakes,
         TerminalTakes, HostAction
<1>2. TypeOK'
  <2>1. st' \in [Sups -> Location]
    <3>1. st' = st \/ \E w \in {"dial", "idle", "over"} : st' = Set(st, p, w)
      BY DEF Takes, JumpTakes, IdleTakes, ConnectingTakes, SessionTakes, BackoffTakes,
             TerminalTakes
    <3>2. QED
      BY <3>1 DEF TypeOK, Location, Set
  <2>2. backoff' \in [Sups -> 0 .. Rungs - 1]
    <3>1. backoff' = backoff \/ backoff' = Set(backoff, p, 0)
      BY DEF Takes, JumpTakes, IdleTakes, ConnectingTakes, SessionTakes, BackoffTakes,
             TerminalTakes
    <3>2. 0 \in 0 .. Rungs - 1
      BY SupervisorConstants
    <3>3. QED
      BY <3>1, <3>2 DEF TypeOK, Set
  <2>3. shown' \in [Sups -> HostState]
    BY DEF TypeOK, Takes, JumpTakes, IdleTakes, ConnectingTakes, SessionTakes, BackoffTakes,
           TerminalTakes, HostState, Set
  <2>4. ended' \in [Sups -> {"failed"} \cup HostAction]
    BY DEF TypeOK, Takes, JumpTakes, IdleTakes, ConnectingTakes, SessionTakes, BackoffTakes,
           TerminalTakes, HostAction, Set
  <2>5. QED
    BY <1>1, <2>1, <2>2, <2>3, <2>4, TakeType DEF TypeOK
<1>3. /\ \A q \in Sups \ {p} : /\ st'[q] = st[q] /\ last'[q] = last[q]
                               /\ ended'[q] = ended[q]
      /\ misses' = misses /\ pool' = pool /\ last'[p] = a
  <2>1. \A q \in Sups \ {p} : st'[q] = st[q] /\ ended'[q] = ended[q]
    BY DEF TypeOK, Takes, JumpTakes, IdleTakes, ConnectingTakes, SessionTakes, BackoffTakes,
           TerminalTakes, Set
  <2>2. QED
    BY <1>1, <2>1, TakeType
<1>4. \/ st'[p] = st[p] /\ st[p] \in {"jump", "idle", "terminal"}
      \/ st'[p] = "dial" /\ st[p] # "session" /\ a = "reconnect"
      \/ st'[p] = "idle" /\ st[p] # "session"
      \/ st[p] = "session" /\ st'[p] = "over" /\ ended'[p] = a
  BY <1>1 DEF TypeOK, Takes, Take, JumpTakes, IdleTakes, ConnectingTakes, SessionTakes,
              BackoffTakes, TerminalTakes, Set, HostAction
<1>5. st[p] \notin {"over", "aborted"}
  BY DEF Takes, JumpTakes, IdleTakes, ConnectingTakes, SessionTakes, BackoffTakes,
         TerminalTakes
<1>6. PooledAgentHasSession'
  BY <1>3, <1>4, <1>5 DEF PooledAgentHasSession
<1>7. MissesBelow'
  BY <1>3, <1>4 DEF MissesBelow
<1>8. ToldToDial'
  <2>1. ASSUME NEW q \in Sups \ {p}, Dialling(q)' PROVE last'[q] # "disconnect"
    BY <1>3, <2>1 DEF ToldToDial, Dialling
  <2>2. ASSUME Dialling(p)' PROVE last'[p] # "disconnect"
    BY <1>3, <1>4, <2>2 DEF Dialling
  <2>3. QED
    BY <2>1, <2>2 DEF ToldToDial
<1>9. QED
  BY <1>2, <1>6, <1>7, <1>8

\* Steps of one supervisor that leave the orders it was given alone.  What they
\* do to that supervisor is theirs; of the others they change nothing but that
\* the pool may take this one's agent, or become empty.
StepOf(p) ==
    /\ \A q \in Sups \ {p} : st'[q] = st[q] /\ ended'[q] = ended[q] /\ misses'[q] = misses[q]
    /\ last' = last
    /\ pool' \in {pool, p, Nobody}

LEMMA StepHInv ==
    ASSUME HInv, NEW p \in Sups, StepOf(p), TypeOK',
           pool' = p => st'[p] \in {"session", "over", "aborted"},
           st'[p] = "session" => misses'[p] < DisconnectAfter,
           Dialling(p)' => last[p] # "disconnect"
    PROVE  HInv'
<1> USE DEF HInv
<1>1. PooledAgentHasSession'
  <2> SUFFICES ASSUME NEW q \in Sups, pool' = q
               PROVE  st'[q] \in {"session", "over", "aborted"}
    BY DEF PooledAgentHasSession
  <2>1. CASE q = p
    BY <2>1
  <2>2. CASE q # p
    BY <2>2, SupervisorConstants DEF StepOf, PooledAgentHasSession
  <2>3. QED
    BY <2>1, <2>2
<1>2. MissesBelow'
  <2> SUFFICES ASSUME NEW q \in Sups, st'[q] = "session" PROVE misses'[q] < DisconnectAfter
    BY DEF MissesBelow
  <2>1. QED
    BY DEF StepOf, MissesBelow
<1>3. ToldToDial'
  <2> SUFFICES ASSUME NEW q \in Sups, Dialling(q)' PROVE last'[q] # "disconnect"
    BY DEF ToldToDial
  <2>1. CASE q = p
    BY <2>1 DEF StepOf
  <2>2. CASE q # p
    BY <2>2 DEF StepOf, ToldToDial, Dialling
  <2>3. QED
    BY <2>1, <2>2
<1>4. QED
  BY <1>1, <1>2, <1>3

\* The coordinator queues an action.
LEMMA DispatchHInv ==
    ASSUME HInv, NEW p \in Sups, NEW a \in HostAction, Dispatch(p, a)
    PROVE  HInv'
<1>1. TypeOK'
  <2> USE DEF HInv, TypeOK, Set
  <2>1. Append(queue[p], a) \in Seq(HostAction)
    OBVIOUS
  <2>2. queue' \in [Sups -> Seq(HostAction)]
    BY <2>1 DEF Dispatch
  <2>3. sentTo' \in [Sups -> 0 .. MaxActions]
    BY SMTT(30), SupervisorConstants DEF Dispatch
  <2>4. QED
    BY <2>2, <2>3 DEF Dispatch
<1>2. StepOf(p)
  BY DEF HInv, TypeOK, Dispatch, Set, StepOf
<1>3. pool' = p => st'[p] \in {"session", "over", "aborted"}
  BY DEF HInv, TypeOK, Dispatch, Set, PooledAgentHasSession
<1>4. st'[p] = "session" => misses'[p] < DisconnectAfter
  BY SupervisorConstants DEF HInv, TypeOK, Dispatch, Set, MissesBelow
<1>5. Dialling(p)' => last[p] # "disconnect"
  BY DEF HInv, TypeOK, Dispatch, Set, ToldToDial, Dialling
<1>6. QED
  BY <1>1, <1>2, <1>3, <1>4, <1>5, StepHInv

\* An attempt begins.
LEMMA DialHInv ==
    ASSUME HInv, NEW p \in Sups, Dial(p)
    PROVE  HInv'
<1>1. TypeOK'
  BY SupervisorConstants DEF HInv, TypeOK, Dial, Set, Location, HostState, HostAction
<1>2. StepOf(p)
  BY DEF HInv, TypeOK, Dial, Set, StepOf
<1>3. pool' = p => st'[p] \in {"session", "over", "aborted"}
  BY DEF HInv, TypeOK, Dial, Set, PooledAgentHasSession
<1>4. st'[p] = "session" => misses'[p] < DisconnectAfter
  BY SupervisorConstants DEF HInv, TypeOK, Dial, Set, MissesBelow
<1>5. Dialling(p)' => last[p] # "disconnect"
  BY DEF HInv, TypeOK, Dial, Set, ToldToDial, Dialling
<1>6. QED
  BY <1>1, <1>2, <1>3, <1>4, <1>5, StepHInv

\* It succeeds.
LEMMA ConnectSucceedsHInv ==
    ASSUME HInv, NEW p \in Sups, ConnectSucceeds(p)
    PROVE  HInv'
<1>1. TypeOK'
  BY SMTT(30), SupervisorConstants
     DEF HInv, TypeOK, ConnectSucceeds, Set, Location, HostState, HostAction
<1>2. StepOf(p)
  BY DEF HInv, TypeOK, ConnectSucceeds, Set, StepOf
<1>3. pool' = p => st'[p] \in {"session", "over", "aborted"}
  BY DEF HInv, TypeOK, ConnectSucceeds, Set, PooledAgentHasSession
<1>4. st'[p] = "session" => misses'[p] < DisconnectAfter
  BY SupervisorConstants DEF HInv, TypeOK, ConnectSucceeds, Set, MissesBelow
<1>5. Dialling(p)' => last[p] # "disconnect"
  BY DEF HInv, TypeOK, ConnectSucceeds, Set, ToldToDial, Dialling
<1>6. QED
  BY <1>1, <1>2, <1>3, <1>4, <1>5, StepHInv

\* It fails.
LEMMA ConnectFailsHInv ==
    ASSUME HInv, NEW p \in Sups, ConnectFails(p)
    PROVE  HInv'
<1>1. TypeOK'
  <2> USE DEF HInv, TypeOK, Set
  <2>1. st' \in [Sups -> Location]
    BY ZenonT(40) DEF ConnectFails, Location
  <2>2. shown' \in [Sups -> HostState]
    BY DEF ConnectFails, HostState
  <2>3. QED
    BY <2>1, <2>2 DEF ConnectFails
<1>2. StepOf(p)
  BY DEF HInv, TypeOK, ConnectFails, Set, StepOf
<1>3. pool' = p => st'[p] \in {"session", "over", "aborted"}
  BY DEF HInv, TypeOK, ConnectFails, Set, PooledAgentHasSession
<1>4. st'[p] = "session" => misses'[p] < DisconnectAfter
  BY SupervisorConstants DEF HInv, TypeOK, ConnectFails, Set, MissesBelow
<1>5. Dialling(p)' => last[p] # "disconnect"
  BY DEF HInv, TypeOK, ConnectFails, Set, ToldToDial, Dialling
<1>6. QED
  BY <1>1, <1>2, <1>3, <1>4, <1>5, StepHInv

\* The agent is deployed, or not.
LEMMA DeployHInv ==
    ASSUME HInv, NEW p \in Sups, Deploy(p)
    PROVE  HInv'
<1>1. TypeOK'
  <2> USE DEF HInv, TypeOK, Set
  <2>1. st' \in [Sups -> Location]
    BY DEF Deploy, Location
  <2>2. caps' \in [Sups -> BOOLEAN] /\ pool' \in Sups \cup {Nobody}
    BY DEF Deploy
  <2>3. misses' \in [Sups -> 0 .. DisconnectAfter]
    BY SupervisorConstants DEF Deploy
  <2>4. QED
    BY <2>1, <2>2, <2>3 DEF Deploy
<1>2. StepOf(p)
  BY DEF HInv, TypeOK, Deploy, Set, StepOf
<1>3. pool' = p => st'[p] \in {"session", "over", "aborted"}
  BY DEF HInv, TypeOK, Deploy, Set, PooledAgentHasSession
<1>4. st'[p] = "session" => misses'[p] < DisconnectAfter
  BY SupervisorConstants DEF HInv, TypeOK, Deploy, Set, MissesBelow
<1>5. Dialling(p)' => last[p] # "disconnect"
  BY DEF HInv, TypeOK, Deploy, Set, ToldToDial, Dialling
<1>6. QED
  BY <1>1, <1>2, <1>3, <1>4, <1>5, StepHInv

\* The next rung of the ladder.
LEMMA BackoffElapsesHInv ==
    ASSUME HInv, NEW p \in Sups, BackoffElapses(p)
    PROVE  HInv'
<1>1. TypeOK'
  <2> USE DEF HInv, TypeOK, Set
  <2>1. st' \in [Sups -> Location]
    BY DEF BackoffElapses, Location
  <2> DEFINE rung == IF backoff[p] + 1 < Rungs THEN backoff[p] + 1 ELSE Rungs - 1
  <2>2. rung \in 0 .. Rungs - 1
    <3>1. backoff[p] \in 0 .. Rungs - 1 /\ Rungs \in Nat \ {0}
      BY SupervisorConstants
    <3>2. \A n \in 0 .. Rungs - 1 :
             (IF n + 1 < Rungs THEN n + 1 ELSE Rungs - 1) \in 0 .. Rungs - 1
      BY <3>1
    <3> QED
      BY <3>1, <3>2
  <2>3. backoff' = [backoff EXCEPT ![p] = rung]
    BY DEF BackoffElapses
  <2> HIDE DEF rung
  <2>4. QED
    BY SMTT(30), <2>1, <2>2, <2>3 DEF BackoffElapses
<1>2. StepOf(p)
  BY DEF HInv, TypeOK, BackoffElapses, Set, StepOf
<1>3. pool' = p => st'[p] \in {"session", "over", "aborted"}
  BY DEF HInv, TypeOK, BackoffElapses, Set, PooledAgentHasSession
<1>4. st'[p] = "session" => misses'[p] < DisconnectAfter
  BY SupervisorConstants DEF HInv, TypeOK, BackoffElapses, Set, MissesBelow
<1>5. Dialling(p)' => last[p] # "disconnect"
  BY DEF HInv, TypeOK, BackoffElapses, Set, ToldToDial, Dialling
<1>6. QED
  BY <1>1, <1>2, <1>3, <1>4, <1>5, StepHInv

\* A heartbeat: the miss counter stays below its threshold or the session is over.
LEMMA HeartbeatHInv ==
    ASSUME HInv, NEW p \in Sups, Heartbeat(p)
    PROVE  HInv'
<1>1. TypeOK'
  <2> USE DEF HInv, TypeOK, Set
  <2> DEFINE n == IF up[p] THEN 0 ELSE misses[p] + 1
             older == IF age[p] < ResetAfter THEN age[p] + 1 ELSE age[p]
  <2>1. n \in 0 .. DisconnectAfter
    BY SupervisorConstants DEF Heartbeat, MissesBelow
  <2>2. older \in 0 .. ResetAfter
    BY SMTT(30), SupervisorConstants
  <2>3. age' = [age EXCEPT ![p] = older] /\ misses' = [misses EXCEPT ![p] = n]
    BY DEF Heartbeat
  <2>4. \/ st' = [st EXCEPT ![p] = "over"] /\ ended' = [ended EXCEPT ![p] = "failed"]
           /\ shown' = shown
        \/ /\ st' = st /\ ended' = ended
           /\ \E s \in {"degraded", "connected"} : shown' = [shown EXCEPT ![p] = s]
    BY DEF Heartbeat
  <2> HIDE DEF n, older
  <2>5. /\ st' \in [Sups -> Location] /\ shown' \in [Sups -> HostState]
        /\ ended' \in [Sups -> {"failed"} \cup HostAction]
    BY <2>4 DEF Location, HostState
  <2>6. QED
    BY SMTT(30), <2>1, <2>2, <2>3, <2>4, <2>5 DEF Heartbeat
<1>2. StepOf(p)
  BY DEF HInv, TypeOK, Heartbeat, Set, StepOf
<1>3. pool' = p => st'[p] \in {"session", "over", "aborted"}
  BY DEF HInv, TypeOK, Heartbeat, Set, PooledAgentHasSession
<1>4. st'[p] = "session" => misses'[p] < DisconnectAfter
  BY SupervisorConstants DEF HInv, TypeOK, Heartbeat, Set, MissesBelow
<1>5. Dialling(p)' => last[p] # "disconnect"
  BY DEF HInv, TypeOK, Heartbeat, Set, ToldToDial, Dialling
<1>6. QED
  BY <1>1, <1>2, <1>3, <1>4, <1>5, StepHInv

\* The session is taken down; only a Disconnect makes the supervisor idle.
LEMMA SessionOverHInv ==
    ASSUME HInv, NEW p \in Sups, SessionOver(p)
    PROVE  HInv'
<1>1. TypeOK'
  <2> USE DEF HInv, TypeOK, Set
  <2>1. ended[p] \in {"failed", "reconnect", "disconnect"}
    BY DEF HostAction
  <2>2. [failed |-> "backoff", reconnect |-> "dial", disconnect |-> "idle"][ended[p]]
            \in Location
    BY <2>1 DEF Location
  <2>3. st' \in [Sups -> Location]
    BY <2>2 DEF SessionOver
  <2>4. 0 \in 0 .. Rungs - 1 /\ 0 \in 0 .. ResetAfter /\ 0 \in 0 .. DisconnectAfter
    BY SupervisorConstants
  <2>5. /\ backoff' \in [Sups -> 0 .. Rungs - 1]
        /\ age' \in [Sups -> 0 .. ResetAfter]
        /\ misses' \in [Sups -> 0 .. DisconnectAfter]
    BY <2>4 DEF SessionOver
  <2>6. /\ shown' \in [Sups -> HostState] /\ ended' \in [Sups -> {"failed"} \cup HostAction]
        /\ caps' \in [Sups -> BOOLEAN] /\ up' \in [Sups -> BOOLEAN]
    BY DEF SessionOver, HostState
  <2>7. QED
    BY <2>3, <2>5, <2>6 DEF SessionOver
<1>2. StepOf(p)
  BY DEF HInv, TypeOK, SessionOver, Set, StepOf
<1>3. pool' = p => st'[p] \in {"session", "over", "aborted"}
  BY SupervisorConstants DEF SessionOver
<1>4. st'[p] = "session" => misses'[p] < DisconnectAfter
  BY SupervisorConstants DEF HInv, TypeOK, SessionOver, Set, MissesBelow
<1>5. Dialling(p)' => last[p] # "disconnect"
  BY DEF HInv, TypeOK, SessionOver, Set, ToldToDial, Dialling
<1>6. QED
  BY <1>1, <1>2, <1>3, <1>4, <1>5, StepHInv

\* The transport fails.
LEMMA SessionDiesHInv ==
    ASSUME HInv, NEW p \in Sups, SessionDies(p)
    PROVE  HInv'
<1>1. TypeOK'
  BY SupervisorConstants DEF HInv, TypeOK, SessionDies, Set, Location, HostState, HostAction
<1>2. StepOf(p)
  BY DEF HInv, TypeOK, SessionDies, Set, StepOf
<1>3. pool' = p => st'[p] \in {"session", "over", "aborted"}
  BY DEF HInv, TypeOK, SessionDies, Set, PooledAgentHasSession
<1>4. st'[p] = "session" => misses'[p] < DisconnectAfter
  BY SupervisorConstants DEF HInv, TypeOK, SessionDies, Set, MissesBelow
<1>5. Dialling(p)' => last[p] # "disconnect"
  BY DEF HInv, TypeOK, SessionDies, Set, ToldToDial, Dialling
<1>6. QED
  BY <1>1, <1>2, <1>3, <1>4, <1>5, StepHInv

\* Keepalives go through again.
LEMMA SessionRecoversHInv ==
    ASSUME HInv, NEW p \in Sups, SessionRecovers(p)
    PROVE  HInv'
<1>1. TypeOK'
  BY SupervisorConstants
     DEF HInv, TypeOK, SessionRecovers, Set, Location, HostState, HostAction
<1>2. StepOf(p)
  BY DEF HInv, TypeOK, SessionRecovers, Set, StepOf
<1>3. pool' = p => st'[p] \in {"session", "over", "aborted"}
  BY DEF HInv, TypeOK, SessionRecovers, Set, PooledAgentHasSession
<1>4. st'[p] = "session" => misses'[p] < DisconnectAfter
  BY SupervisorConstants DEF HInv, TypeOK, SessionRecovers, Set, MissesBelow
<1>5. Dialling(p)' => last[p] # "disconnect"
  BY DEF HInv, TypeOK, SessionRecovers, Set, ToldToDial, Dialling
<1>6. QED
  BY <1>1, <1>2, <1>3, <1>4, <1>5, StepHInv

\* The supervisor is aborted where it stands.
LEMMA AbortHInv ==
    ASSUME HInv, NEW p \in Sups, Abort(p)
    PROVE  HInv'
<1>1. TypeOK'
  BY SMTT(30), SupervisorConstants
     DEF HInv, TypeOK, Abort, Set, Location, HostState, HostAction
<1>2. StepOf(p)
  BY DEF HInv, TypeOK, Abort, Set, StepOf
<1>3. pool' = p => st'[p] \in {"session", "over", "aborted"}
  BY DEF HInv, TypeOK, Abort, Set, PooledAgentHasSession
<1>4. st'[p] = "session" => misses'[p] < DisconnectAfter
  BY SupervisorConstants DEF HInv, TypeOK, Abort, Set, MissesBelow
<1>5. Dialling(p)' => last[p] # "disconnect"
  BY DEF HInv, TypeOK, Abort, Set, ToldToDial, Dialling
<1>6. QED
  BY <1>1, <1>2, <1>3, <1>4, <1>5, StepHInv

LEMMA NextHInv == HInv /\ [Next]_vars => HInv'
<1> SUFFICES ASSUME HInv, [Next]_vars PROVE HInv'
  OBVIOUS
<1>1. ASSUME NEW p \in Sups, NEW a \in HostAction, Dispatch(p, a) PROVE HInv'
  BY <1>1, DispatchHInv
<1>2. ASSUME NEW p \in Sups, Takes(p) PROVE HInv'
  BY <1>2, TakesHInv
<1>3. ASSUME NEW p \in Sups, Runs(p) PROVE HInv'
  BY <1>3, DialHInv, ConnectSucceedsHInv, ConnectFailsHInv, DeployHInv, BackoffElapsesHInv,
     HeartbeatHInv, SessionOverHInv DEF Runs
<1>4. ASSUME NEW p \in Sups, SessionDies(p) \/ SessionRecovers(p) \/ Abort(p) PROVE HInv'
  BY <1>4, SessionDiesHInv, SessionRecoversHInv, AbortHInv
<1>5. CASE UNCHANGED vars
  BY <1>5 DEF vars, HInv, TypeOK, PooledAgentHasSession, MissesBelow, ToldToDial, Dialling
<1>6. QED
  BY <1>1, <1>2, <1>3, <1>4, <1>5 DEF Next

LEMMA SpecHInv == Spec => []HInv
  BY InitHInv, NextHInv, PTL DEF Spec

\* forward_fleet and host_supervisor: supervisors that replace and remove each other's
\* pool entry never leave one there whose session was taken down in order, however
\* many there are and however long the ladder.
THEOREM SupervisorsKept == Spec => []SupervisorInv
<1>1. HInv => SupervisorInv
  BY DEF HInv, SupervisorInv
<1>2. QED
  BY <1>1, SpecHInv, PTL

\* A dial by a supervisor that was told to disconnect, in no state it can be in.
LEMMA DialsAsTold ==
    HInv /\ [Next]_vars =>
        [\A p \in Sups : st[p] # "connecting" /\ st'[p] = "connecting"
                             => last[p] # "disconnect"]_vars
<1> SUFFICES ASSUME HInv, Next, NEW p \in Sups,
                    st[p] # "connecting", st'[p] = "connecting"
             PROVE  last[p] # "disconnect"
  OBVIOUS
<1>1. st[p] = "dial"
  <2> SUFFICES ASSUME NEW q \in Sups,
                      \/ \E a \in HostAction : Dispatch(q, a)
                      \/ Takes(q) \/ Runs(q)
                      \/ SessionDies(q) \/ SessionRecovers(q) \/ Abort(q)
               PROVE  st[p] = "dial"
    BY DEF Next
  <2> USE DEF HInv, TypeOK, Set
  <2>1. CASE \E a \in HostAction : Dispatch(q, a)
    BY <2>1 DEF Dispatch
  <2>2. CASE Takes(q)
    BY <2>2 DEF Takes, JumpTakes, IdleTakes, ConnectingTakes, SessionTakes, BackoffTakes,
                TerminalTakes
  <2>3. CASE Runs(q)
    <3>1. CASE Dial(q)
      BY <3>1 DEF Dial
    <3>2. CASE ConnectSucceeds(q) \/ ConnectFails(q)
      BY <3>2 DEF ConnectSucceeds, ConnectFails
    <3>3. CASE Deploy(q) \/ BackoffElapses(q)
      BY <3>3 DEF Deploy, BackoffElapses
    <3>4. CASE Heartbeat(q)
      BY <3>4 DEF Heartbeat
    <3>5. CASE SessionOver(q)
      BY <3>5 DEF SessionOver, HostAction
    <3>6. QED
      BY <2>3, <3>1, <3>2, <3>3, <3>4, <3>5 DEF Runs
  <2>4. CASE SessionDies(q) \/ SessionRecovers(q) \/ Abort(q)
    BY <2>4 DEF SessionDies, SessionRecovers, Abort
  <2>5. QED
    BY <2>1, <2>2, <2>3, <2>4
<1>2. QED
  BY <1>1 DEF HInv, ToldToDial, Dialling

\* HostAction::Disconnect, "stay idle until the next Reconnect": no step of the loop,
\* of the backoff or of a terminal state dials after it, for any number of supervisors.
THEOREM DisconnectStays == Spec => DisconnectSticks
  BY SpecHInv, DialsAsTold, PTL DEF Spec, DisconnectSticks
=============================================================================

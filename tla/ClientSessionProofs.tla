-------------------------- MODULE ClientSessionProofs --------------------------
(***************************************************************************)
(* Proofs about ClientSession for every set of subscription ids and kinds  *)
(* and every number of forwarders: the session always has a handle on each *)
(* forwarder that nobody has stopped, and a forwarder says once what it    *)
(* must say.                                                               *)
(***************************************************************************)
EXTENDS ClientSession, FiniteSetTheorems, TLAPS

-----------------------------------------------------------------------------
(* The inductive invariant.                                                *)

TaskRec ==
    [kind : Kinds, id : Ids, st : {"connect", "work", "over"},
     aborted : BOOLEAN, last : {"none", "up", "down"},
     shown : {"none", "list", "item", "unavailable", "end"}, streak : 0 .. 2]

\* What the session keeps besides its forwarders.
Plain ==
    /\ phase \in {"hello", "loop", "closing", "closed"} /\ peer \in {"open", "gone"}
    /\ writer \in {"run", "ended"} /\ dirty \in BOOLEAN /\ engine \in {"up", "down"}
    /\ status = {} \/ \E i \in Ids : status = {i}
    /\ spawned \in 0 .. MaxTasks /\ asked \in 0 .. MaxActs /\ acts \in 0 .. asked

\* A running task that has reported an outage remembers it, which is what keeps
\* it from reporting the same outage again.
OutageKept ==
    \A n \in Tasks :
        /\ task[n].streak <= 1
        /\ task[n].streak = 1 /\ task[n].st # "over" => task[n].last = "down"

IInv ==
    /\ Plain
    /\ subs \in [Maps -> [Ids -> 0 .. spawned]]
    /\ task \in [Tasks -> TaskRec]
    /\ NoZombieForwarder
    /\ OutageKept
    /\ EndIsTold

\* A fresh forwarder.
LEMMA FreshTask ==
    ASSUME NEW kind \in Kinds, NEW i \in Ids
    PROVE  /\ Fresh(kind, i) \in TaskRec /\ Over(Fresh(kind, i)) \in TaskRec
           /\ Fresh(kind, i).kind = kind /\ Fresh(kind, i).id = i
           /\ Fresh(kind, i).st # "over" /\ Fresh(kind, i).streak = 0
           /\ Over(Fresh(kind, i)).streak = 0
<1>1. PICK f : f = Fresh(kind, i)
  OBVIOUS
<1>2. PICK o : o = Over(f)
  OBVIOUS
<1>3. /\ f \in TaskRec /\ f.kind = kind /\ f.id = i /\ f.st \in {"connect", "work"}
      /\ f.streak = 0
  BY <1>1 DEF Fresh, TaskRec
<1>4. o = [f EXCEPT !.st = "over", !.last = "none"]
  BY <1>2 DEF Over
<1>5. o \in TaskRec /\ o.streak = 0
  BY <1>3, <1>4 DEF TaskRec
<1>6. QED
  BY <1>1, <1>2, <1>3, <1>5

\* A kind belongs to one of the session's maps.
LEMMA MapOfKind == \A kind \in Kinds : MapOf(kind) \in Maps
  BY DEF Maps

\* Init establishes the invariant.
LEMMA InitIInv == Init => IInv
<1> SUFFICES ASSUME Init PROVE IInv
  OBVIOUS
<1>1. PICK t : t = Over(Fresh(CHOOSE kind \in Kinds : TRUE, CHOOSE i \in Ids : TRUE))
  OBVIOUS
<1>2. (CHOOSE kind \in Kinds : TRUE) \in Kinds /\ (CHOOSE i \in Ids : TRUE) \in Ids
  BY SessionConstants
<1>3. t \in TaskRec /\ t.streak = 0
  BY <1>1, <1>2, FreshTask
<1>4. task = [n \in Tasks |-> t] /\ spawned = 0 /\ status = {} /\ acts = 0 /\ asked = 0
  BY <1>1 DEF Init
<1>5. Plain
  <2>1. spawned \in 0 .. MaxTasks /\ asked \in 0 .. MaxActs /\ acts \in 0 .. asked
    BY <1>4, SessionConstants
  <2>2. QED
    BY <1>4, <2>1 DEF Init, Plain
<1>6. subs \in [Maps -> [Ids -> 0 .. spawned]]
  BY <1>4 DEF Init
<1>7. task \in [Tasks -> TaskRec] /\ OutageKept
  BY <1>3, <1>4 DEF OutageKept
<1>8. NoZombieForwarder /\ EndIsTold
  BY <1>4 DEF NoZombieForwarder, EndIsTold, Live, Tasks
<1>9. QED
  BY <1>5, <1>6, <1>7, <1>8 DEF IInv

-----------------------------------------------------------------------------
(* One lemma per group of actions.                                         *)

\* Aborting marks tasks and changes nothing else of them.
LEMMA AbortedTasks ==
    ASSUME task \in [Tasks -> TaskRec], NEW ns
    PROVE  /\ Aborted(ns) \in [Tasks -> TaskRec]
           /\ \A n \in Tasks :
                 /\ n \notin ns => Aborted(ns)[n] = task[n]
                 /\ n \in ns => Aborted(ns)[n].aborted
                 /\ Aborted(ns)[n].kind = task[n].kind /\ Aborted(ns)[n].id = task[n].id
                 /\ Aborted(ns)[n].st = task[n].st /\ Aborted(ns)[n].last = task[n].last
                 /\ Aborted(ns)[n].shown = task[n].shown
                 /\ Aborted(ns)[n].streak = task[n].streak
<1>1. SUFFICES ASSUME NEW n \in Tasks, NEW t, t = Aborted(ns)[n]
               PROVE  /\ t \in TaskRec
                      /\ n \notin ns => t = task[n]
                      /\ n \in ns => t.aborted
                      /\ t.kind = task[n].kind /\ t.id = task[n].id /\ t.st = task[n].st
                      /\ t.last = task[n].last /\ t.shown = task[n].shown
                      /\ t.streak = task[n].streak
  BY DEF Aborted
<1>2. t = IF n \in ns THEN [task[n] EXCEPT !.aborted = TRUE] ELSE task[n]
  BY <1>1 DEF Aborted
<1>3. task[n] \in TaskRec
  OBVIOUS
<1>4. QED
  BY <1>2, <1>3 DEF TaskRec

\* The session may drop map entries as long as it stops what they point at.
LEMMA AbortStep ==
    ASSUME IInv, NEW ns, task' = Aborted(ns), UNCHANGED <<spawned, writer>>, Plain',
           subs' \in [Maps -> [Ids -> 0 .. spawned]],
           \A m \in Maps : \A i \in Ids : subs'[m][i] = subs[m][i] \/ subs[m][i] \in ns \cup {0}
    PROVE  IInv'
<1>0. task \in [Tasks -> TaskRec]
  BY DEF IInv
<1>1. /\ task' \in [Tasks -> TaskRec]
      /\ \A n \in Tasks :
            /\ n \notin ns => task'[n] = task[n]
            /\ n \in ns => task'[n].aborted
            /\ task'[n].kind = task[n].kind /\ task'[n].id = task[n].id
            /\ task'[n].st = task[n].st /\ task'[n].last = task[n].last
            /\ task'[n].shown = task[n].shown /\ task'[n].streak = task[n].streak
  BY <1>0, AbortedTasks
<1>2. NoZombieForwarder'
  <2>1. SUFFICES ASSUME NEW n \in Tasks, Live(n)'
                 PROVE  subs'[MapOf(task[n].kind)][task[n].id] = n
    BY <1>1 DEF NoZombieForwarder
  <2>2. n \notin ns /\ Live(n)
    BY <1>1, <2>1 DEF Live
  <2>3. subs[MapOf(task[n].kind)][task[n].id] = n
    BY <2>2 DEF IInv, NoZombieForwarder
  <2>4. MapOf(task[n].kind) \in Maps /\ task[n].id \in Ids
    BY <1>0, MapOfKind DEF TaskRec
  <2>5. n # 0
    BY DEF Tasks
  <2>6. QED
    BY <2>2, <2>3, <2>4, <2>5
<1>3. OutageKept'
  BY <1>1 DEF IInv, OutageKept
<1>4. EndIsTold'
  BY <1>1 DEF IInv, EndIsTold
<1>5. QED
  BY <1>1, <1>2, <1>3, <1>4 DEF IInv

\* A step that leaves maps and forwarders alone.
LEMMA QuietStep ==
    ASSUME IInv, UNCHANGED <<spawned, subs, task>>, Plain',
           writer' = writer \/ writer' = "ended"
    PROVE  IInv'
<1>1. NoZombieForwarder' /\ OutageKept'
  BY DEF IInv, NoZombieForwarder, Live, OutageKept
<1>2. EndIsTold'
  BY DEF IInv, EndIsTold
<1>3. QED
  BY <1>1, <1>2 DEF IInv

\* A new forwarder takes the place of the one it stops.
LEMMA SubscribeStep ==
    ASSUME IInv, NEW kind \in Kinds, NEW i \in Ids, SubscribeLocal(kind, i)
    PROVE  IInv'
<1> DEFINE m == MapOf(kind)
           prev == {subs[m][i]} \ {0}
<1>0. /\ task \in [Tasks -> TaskRec] /\ subs \in [Maps -> [Ids -> 0 .. spawned]]
      /\ spawned \in 0 .. MaxTasks /\ spawned < MaxTasks /\ MaxTasks \in Nat
      /\ m \in Maps
  BY SessionConstants, MapOfKind DEF IInv, Plain, SubscribeLocal
<1>1. PICK new : new = spawned + 1
  OBVIOUS
<1>2. PICK f : f = Fresh(kind, i)
  OBVIOUS
<1>3. /\ f \in TaskRec /\ f.kind = kind /\ f.id = i /\ f.st # "over" /\ f.streak = 0
      /\ new \in Tasks /\ new > spawned
  BY <1>0, <1>1, <1>2, FreshTask DEF Tasks
<1>4. /\ spawned' = new /\ task' = [Aborted(prev) EXCEPT ![new] = f]
      /\ subs' = [subs EXCEPT ![m][i] = new]
      /\ UNCHANGED <<phase, peer, writer, dirty, status, acts, asked, engine>>
  BY <1>1, <1>2 DEF SubscribeLocal
<1>5. PICK old : old = Aborted(prev)
  OBVIOUS
<1>6. /\ old \in [Tasks -> TaskRec]
      /\ \A n \in Tasks :
            /\ n \in prev => old[n].aborted
            /\ n \notin prev => old[n] = task[n]
            /\ old[n].kind = task[n].kind /\ old[n].id = task[n].id
            /\ old[n].st = task[n].st /\ old[n].last = task[n].last
            /\ old[n].shown = task[n].shown /\ old[n].streak = task[n].streak
  BY <1>0, <1>5, AbortedTasks
<1>7. /\ task' \in [Tasks -> TaskRec] /\ task'[new] = f
      /\ \A n \in Tasks \ {new} : task'[n] = old[n]
  BY <1>3, <1>4, <1>5, <1>6
<1>8. Plain'
  BY <1>0, <1>1, <1>4 DEF IInv, Plain
<1>9. /\ subs' \in [Maps -> [Ids -> 0 .. spawned']]
      /\ subs'[m][i] = new
      /\ \A l \in Maps : \A j \in Ids : l # m \/ j # i => subs'[l][j] = subs[l][j]
  <2>1. subs \in [Maps -> [Ids -> 0 .. new]] /\ new \in 0 .. new
    BY <1>0, <1>1
  <2> HIDE DEF m
  <2>2. QED
    BY <1>0, <1>4, <2>1
<1>10. NoZombieForwarder'
  <2>1. SUFFICES ASSUME NEW n \in Tasks, Live(n)'
                 PROVE  subs'[MapOf(task'[n].kind)][task'[n].id] = n
    BY DEF NoZombieForwarder
  <2>2. CASE n = new
    BY <1>3, <1>7, <1>9, <2>2
  <2>3. CASE n # new
    <3> HIDE DEF prev
    <3>0. n \notin prev
      BY <1>6, <1>7, <2>1, <2>3 DEF Live
    <3>1. task'[n] = task[n]
      BY <1>6, <1>7, <2>3, <3>0
    <3>2. n <= spawned
      <4>1. n <= new
        BY <1>4, <2>1 DEF Live
      <4>2. QED
        BY <1>0, <1>1, <2>3, <4>1 DEF Tasks
    <3>3. n \notin {subs[m][i]} \ {0} /\ task'[n] = task[n] /\ n <= spawned
      BY <3>0, <3>1, <3>2 DEF prev
    <3>4. subs[MapOf(task[n].kind)][task[n].id] = n
      BY <2>1, <3>3 DEF Live, IInv, NoZombieForwarder
    <3>5. MapOf(task[n].kind) \in Maps /\ task[n].id \in Ids /\ n # 0
      BY <1>0, MapOfKind DEF TaskRec, Tasks
    <3>6. MapOf(task[n].kind) # m \/ task[n].id # i
      BY <3>3, <3>4, <3>5
    <3> HIDE DEF m
    <3>7. QED
      BY <1>9, <3>3, <3>4, <3>5, <3>6
  <2>4. QED
    BY <2>2, <2>3
<1>11. OutageKept'
  BY <1>3, <1>6, <1>7 DEF IInv, OutageKept
<1>12. EndIsTold'
  <2>1. SUFFICES ASSUME NEW n \in Tasks, n <= spawned', Streams(task'[n].kind),
                        task'[n].st = "over", ~task'[n].aborted, writer' = "run"
                 PROVE  task'[n].shown = "end"
    BY DEF EndIsTold
  <2>2. n # new
    BY <1>3, <1>7, <2>1
  <2>3. task'[n] = task[n] /\ n <= spawned
    <3> HIDE DEF prev
    <3>1. n \notin prev
      BY <1>6, <1>7, <2>1, <2>2
    <3>2. n <= new
      BY <1>4, <2>1
    <3>3. n <= spawned
      BY <1>0, <1>1, <2>2, <3>2 DEF Tasks
    <3>4. QED
      BY <1>6, <1>7, <2>2, <3>1, <3>3
  <2>4. QED
    BY <1>4, <2>1, <2>3 DEF IInv, EndIsTold
<1>13. QED
  BY <1>7, <1>8, <1>9, <1>10, <1>11, <1>12 DEF IInv

\* The end of the loop stops every forwarder the maps point at.
LEMMA TeardownStep ==
    ASSUME IInv, Teardown, dirty' \in BOOLEAN
    PROVE  IInv'
<1>1. PICK ns : ns = {n \in Tasks : \E m \in Maps : \E i \in Ids : subs[m][i] = n}
  OBVIOUS
<1>2. /\ task' = Aborted(ns) /\ subs' = [m \in Maps |-> [i \in Ids |-> 0]]
      /\ phase' = "closing" /\ status' = {}
      /\ UNCHANGED <<peer, writer, spawned, acts, asked, engine>>
  BY <1>1 DEF Teardown
<1>3. Plain'
  BY <1>2 DEF IInv, Plain
<1>4. spawned \in Nat
  BY SessionConstants DEF IInv, Plain
<1>5. subs' \in [Maps -> [Ids -> 0 .. spawned]]
  BY <1>2, <1>4
<1>6. \A m \in Maps : \A i \in Ids : subs[m][i] \in ns \cup {0}
  <2>1. spawned \in 0 .. MaxTasks /\ subs \in [Maps -> [Ids -> 0 .. spawned]]
    BY DEF IInv, Plain
  <2>2. \A m \in Maps : \A i \in Ids : subs[m][i] \in Tasks \cup {0}
    BY <2>1, SessionConstants DEF Tasks
  <2>3. QED
    BY <1>1, <2>2
<1>7. QED
  BY <1>2, <1>3, <1>5, <1>6, AbortStep

\* Unsubscribe takes the id out of every map and stops what it pointed at.
LEMMA UnsubscribeStep ==
    ASSUME IInv, NEW i \in Ids, Unsubscribe(i)
    PROVE  IInv'
<1>1. PICK ns : ns = {subs[m][i] : m \in Maps} \ {0}
  OBVIOUS
<1>2. /\ task' = Aborted(ns) /\ subs' = [m \in Maps |-> [subs[m] EXCEPT ![i] = 0]]
      /\ status' = status \ {i}
      /\ UNCHANGED <<phase, peer, writer, dirty, spawned, acts, asked, engine>>
  BY <1>1 DEF Unsubscribe
<1>3. Plain'
  <2>1. status' = {} \/ \E j \in Ids : status' = {j}
    BY <1>2 DEF IInv, Plain
  <2>2. QED
    BY <1>2, <2>1 DEF IInv, Plain
<1>4. spawned \in Nat /\ subs \in [Maps -> [Ids -> 0 .. spawned]]
  BY SessionConstants DEF IInv, Plain
<1>5. subs' \in [Maps -> [Ids -> 0 .. spawned]]
  BY <1>2, <1>4
<1>6. \A m \in Maps : \A j \in Ids : subs'[m][j] = subs[m][j] \/ subs[m][j] \in ns \cup {0}
  BY <1>1, <1>2, <1>4
<1>7. QED
  BY <1>2, <1>3, <1>5, <1>6, AbortStep

\* Attaching to an unknown pane stops the previous attachment of the id.
LEMMA AttachUnknownStep ==
    ASSUME IInv, NEW i \in Ids, AttachUnknown(i)
    PROVE  IInv'
<1>1. PICK ns : ns = {subs["pane"][i]}
  OBVIOUS
<1>2. /\ task' = Aborted(ns) /\ subs' = [subs EXCEPT !["pane"][i] = 0] /\ "pane" \in Maps
      /\ dirty' = TRUE
      /\ UNCHANGED <<phase, peer, writer, status, spawned, acts, asked, engine>>
  BY <1>1 DEF AttachUnknown, Sent
<1>3. Plain'
  BY <1>2 DEF IInv, Plain
<1>4. spawned \in Nat /\ subs \in [Maps -> [Ids -> 0 .. spawned]]
  BY SessionConstants DEF IInv, Plain
<1>5. subs' \in [Maps -> [Ids -> 0 .. spawned]]
  BY <1>2, <1>4
<1>6. \A m \in Maps : \A j \in Ids : subs'[m][j] = subs[m][j] \/ subs[m][j] \in ns \cup {0}
  BY <1>1, <1>2, <1>4
<1>7. QED
  BY <1>2, <1>3, <1>5, <1>6, AbortStep

\* The commands.
LEMMA CommandStep ==
    ASSUME IInv, Command
    PROVE  IInv'
<1>0. /\ dirty \in BOOLEAN /\ MaxActs \in Nat
      /\ asked \in 0 .. MaxActs /\ acts \in 0 .. asked
  BY SessionConstants DEF IInv, Plain
<1>1. CASE Answer \/ StatusTick
  <2>1. Answer
    BY <1>1 DEF StatusTick
  <2>2. CASE Sent /\ UNCHANGED <<sessionVars, writer, task, acts, engine>>
    BY <2>2, QuietStep DEF Sent, sessionVars, IInv, Plain
  <2>3. CASE SendFails /\ Teardown
    BY <1>0, <2>3, TeardownStep DEF SendFails
  <2>4. QED
    BY <2>1, <2>2, <2>3 DEF Answer
<1>2. ASSUME NEW i \in Ids, SubscribeStatus(i)
      PROVE  IInv'
  <2>1. CASE SendFails /\ Teardown
    BY <1>0, <2>1, TeardownStep DEF SendFails
  <2>2. CASE /\ Sent /\ status' = {i}
             /\ UNCHANGED <<phase, peer, writer, subs, spawned, task, acts, asked, engine>>
    <3>1. Plain'
      BY <2>2 DEF IInv, Plain, Sent
    <3>2. QED
      BY <2>2, <3>1, QuietStep
  <2>3. QED
    BY <1>2, <2>1, <2>2 DEF SubscribeStatus
<1>3. CASE DockerAction
  <2>1. asked' \in 0 .. MaxActs /\ acts' \in 0 .. asked'
    BY <1>0, <1>3 DEF DockerAction
  <2>2. Plain'
    BY <1>3, <2>1 DEF DockerAction, IInv, Plain
  <2>3. QED
    BY <1>3, <2>2, QuietStep DEF DockerAction
<1>4. QED
  BY <1>1, <1>2, <1>3, SubscribeStep, AttachUnknownStep, UnsubscribeStep DEF Command

-----------------------------------------------------------------------------
(* The forwarders.                                                         *)

\* Task n may go on as t.
MayBecome(n, t) ==
    /\ t \in TaskRec
    /\ t.kind = task[n].kind /\ t.id = task[n].id /\ t.aborted = task[n].aborted

\* A step of a forwarder keeps the invariant if it leaves the forwarder with at
\* most one report of an outage, remembered, and lets it end by itself only
\* after it has said so.
LEMMA TaskStep ==
    ASSUME IInv, NEW n \in Tasks, NEW t, Becomes(n, t), MayBecome(n, t),
           n <= spawned, task[n].st # "over", dirty' \in BOOLEAN,
           UNCHANGED peer,
           t.streak = 0 \/ (t.streak = 1 /\ (t.st = "over" \/ t.last = "down")),
           /\ Streams(t.kind) /\ t.st = "over" /\ ~t.aborted /\ writer = "run"
           => t.shown = "end"
    PROVE  IInv'
<1>0. /\ task \in [Tasks -> TaskRec] /\ task' = [task EXCEPT ![n] = t] /\ t \in TaskRec
      /\ UNCHANGED <<phase, peer, subs, status, spawned, asked, writer, acts, engine>>
  BY DEF IInv, Becomes, MayBecome, sessionVars
<1>1. /\ task' \in [Tasks -> TaskRec] /\ task'[n] = t
      /\ \A l \in Tasks \ {n} : task'[l] = task[l]
  BY <1>0
<1>2. Plain'
  BY <1>0 DEF IInv, Plain
<1>3. NoZombieForwarder'
  <2>1. SUFFICES ASSUME NEW l \in Tasks, Live(l)'
                 PROVE  subs[MapOf(task'[l].kind)][task'[l].id] = l
    BY <1>0 DEF NoZombieForwarder
  <2>2. CASE l = n
    BY <1>0, <1>1, <2>1, <2>2 DEF Live, MayBecome, IInv, NoZombieForwarder
  <2>3. CASE l # n
    BY <1>0, <1>1, <2>1, <2>3 DEF Live, IInv, NoZombieForwarder
  <2>4. QED
    BY <2>2, <2>3
<1>4. OutageKept'
  <2>1. SUFFICES ASSUME NEW l \in Tasks
                 PROVE  /\ task'[l].streak <= 1
                        /\ task'[l].streak = 1 /\ task'[l].st # "over" =>
                              task'[l].last = "down"
    BY DEF OutageKept
  <2>2. CASE l = n
    BY <1>1, <2>2
  <2>3. CASE l # n
    BY <1>1, <2>3 DEF IInv, OutageKept
  <2>4. QED
    BY <2>2, <2>3
<1>5. EndIsTold'
  <2>1. SUFFICES ASSUME NEW l \in Tasks, l <= spawned, Streams(task'[l].kind),
                        task'[l].st = "over", ~task'[l].aborted, writer = "run"
                 PROVE  task'[l].shown = "end"
    BY <1>0 DEF EndIsTold
  <2>2. CASE l = n
    BY <1>1, <2>1, <2>2
  <2>3. CASE l # n
    BY <1>1, <2>1, <2>3 DEF IInv, EndIsTold
  <2>4. QED
    BY <2>2, <2>3
<1>6. subs' \in [Maps -> [Ids -> 0 .. spawned']]
  BY <1>0 DEF IInv
<1>7. QED
  BY <1>1, <1>2, <1>3, <1>4, <1>5, <1>6 DEF IInv

\* What a task may say: an outage only after something else, or at first.
LEMMA EmitsStep ==
    ASSUME IInv, NEW n \in Tasks, NEW sort \in {"list", "item", "unavailable", "end"},
           NEW t, Emits(n, sort, t), MayBecome(n, t), UNCHANGED peer,
           n <= spawned, task[n].st # "over", t.streak \in {0, 1},
           sort = "unavailable" => t.streak = 0 /\ (t.st = "over" \/ t.last = "down"),
           /\ Streams(t.kind) /\ t.st = "over" => sort = "end"
    PROVE  IInv'
<1>0. dirty \in BOOLEAN /\ t \in TaskRec
  BY DEF IInv, Plain, MayBecome
<1>1. CASE SendFails /\ Becomes(n, Over(t))
  <2>1. PICK o : o = Over(t)
    OBVIOUS
  <2>2. /\ o \in TaskRec /\ o.kind = t.kind /\ o.id = t.id /\ o.aborted = t.aborted
        /\ o.st = "over" /\ o.streak = t.streak
    BY <1>0, <2>1 DEF Over, TaskRec
  <2>3. MayBecome(n, o) /\ Becomes(n, o) /\ dirty' \in BOOLEAN /\ writer = "ended"
    BY <1>0, <1>1, <2>1, <2>2 DEF MayBecome, SendFails
  <2>4. QED
    BY <2>2, <2>3, TaskStep
<1>2. CASE /\ Sent
           /\ Becomes(n, [t EXCEPT !.shown = sort,
                                   !.streak = IF sort # "unavailable" THEN 0
                                              ELSE IF @ = 0 THEN 1 ELSE 2])
  <2>1. PICK k : k = IF sort # "unavailable" THEN 0 ELSE IF t.streak = 0 THEN 1 ELSE 2
    OBVIOUS
  <2>2. PICK o : o = [t EXCEPT !.shown = sort, !.streak = k]
    OBVIOUS
  <2>3. Becomes(n, o)
    BY <1>2, <2>1, <2>2
  <2>4. k \in {0, 1} /\ (k = 1 => sort = "unavailable")
    BY <2>1
  <2>5. /\ o \in TaskRec /\ o.kind = t.kind /\ o.id = t.id /\ o.aborted = t.aborted
        /\ o.st = t.st /\ o.last = t.last /\ o.shown = sort /\ o.streak = k
    <3>1. k \in 0 .. 2
      BY <2>4
    <3>2. QED
      BY <1>0, <2>2, <3>1 DEF TaskRec
  <2>6. MayBecome(n, o) /\ dirty' \in BOOLEAN
    BY <1>2, <2>5 DEF MayBecome, Sent
  <2>7. QED
    BY <2>3, <2>4, <2>5, <2>6, TaskStep
<1>3. QED
  BY <1>1, <1>2 DEF Emits

\* Every step of a forwarder.
LEMMA ForwarderStep ==
    ASSUME IInv, NEW n \in Tasks, Poll(n) \/ Stream(n) \/ Dropped(n), UNCHANGED peer
    PROVE  IInv'
<1>0. /\ task[n] \in TaskRec /\ task[n].streak <= 1
      /\ task[n].streak = 1 /\ task[n].st # "over" => task[n].last = "down"
      /\ dirty \in BOOLEAN
  BY DEF IInv, Plain, OutageKept
<1>1. PICK t : t = task[n]
  OBVIOUS
<1>2. /\ t \in TaskRec /\ t.streak \in {0, 1}
      /\ t.streak = 1 /\ t.st # "over" => t.last = "down"
  BY <1>0, <1>1 DEF TaskRec
<1>3. CASE Connects(n)
  <2>1. PICK o : o = [t EXCEPT !.st = "work"]
    OBVIOUS
  <2>2. /\ o \in TaskRec /\ o.kind = t.kind /\ o.id = t.id /\ o.aborted = t.aborted
        /\ o.st = "work" /\ o.last = t.last /\ o.streak = t.streak
    BY <1>2, <2>1 DEF TaskRec
  <2>3. /\ Becomes(n, o) /\ dirty' \in BOOLEAN /\ n <= spawned /\ task[n].st # "over"
        /\ MayBecome(n, o)
    BY <1>0, <1>1, <1>3, <2>1, <2>2 DEF Connects, Runs, MayBecome
  <2>4. o.streak = 0 \/ (o.streak = 1 /\ o.last = "down")
    BY <1>1, <1>2, <2>2, <2>3
  <2>5. QED
    BY <2>2, <2>3, <2>4, TaskStep
<1>4. ASSUME NEW w, w \in TaskRec, w.kind = t.kind, w.id = t.id, w.aborted = t.aborted,
             w.last = t.last, w.streak = t.streak, w.st \in {"connect", "work"},
             Unavailable(n, w), n <= spawned, t.st # "over"
      PROVE  IInv'
  <2>1. CASE t.last = "down"
    <3>1. Becomes(n, w) /\ UNCHANGED dirty
      BY <1>1, <1>4, <2>1 DEF Unavailable
    <3>2. MayBecome(n, w)
      BY <1>1, <1>4 DEF MayBecome
    <3>3. w.streak = 0 \/ (w.streak = 1 /\ w.last = "down")
      BY <1>2, <1>4, <2>1
    <3>4. QED
      BY <1>0, <1>1, <1>4, <3>1, <3>2, <3>3, TaskStep
  <2>2. CASE t.last # "down"
    <3>1. PICK o : o = [w EXCEPT !.last = "down"]
      OBVIOUS
    <3>2. Emits(n, "unavailable", o)
      BY <1>1, <2>2, <3>1, <1>4 DEF Unavailable
    <3>3. /\ o \in TaskRec /\ o.kind = t.kind /\ o.id = t.id /\ o.aborted = t.aborted
          /\ o.st = w.st /\ o.last = "down" /\ o.streak = t.streak
      BY <1>4, <3>1 DEF TaskRec
    <3>4. MayBecome(n, o) /\ t.streak = 0
      BY <1>1, <1>2, <1>4, <2>2, <3>3 DEF MayBecome
    <3>5. QED
      BY <1>1, <1>4, <3>2, <3>3, <3>4, EmitsStep
  <2>3. QED
    BY <2>1, <2>2
<1>5. CASE DockerFails(n)
  <2>1. PICK w : w = [t EXCEPT !.st = "connect"]
    OBVIOUS
  <2>2. /\ w \in TaskRec /\ w.kind = t.kind /\ w.id = t.id /\ w.aborted = t.aborted
        /\ w.last = t.last /\ w.streak = t.streak /\ w.st = "connect"
    BY <1>2, <2>1 DEF TaskRec
  <2>3. Unavailable(n, w) /\ n <= spawned /\ t.st # "over"
    BY <1>1, <1>5, <2>1 DEF DockerFails, Runs
  <2>4. QED
    BY <1>4, <2>2, <2>3
<1>6. CASE ProbeFails(n)
  BY <1>1, <1>2, <1>4, <1>6 DEF ProbeFails, Runs
<1>7. CASE PollLists(n)
  <2>1. PICK o : o = [t EXCEPT !.last = "up"]
    OBVIOUS
  <2>2. /\ o \in TaskRec /\ o.kind = t.kind /\ o.id = t.id /\ o.aborted = t.aborted
        /\ o.st = t.st /\ o.streak = t.streak
    BY <1>2, <2>1 DEF TaskRec
  <2>3. /\ Emits(n, "list", o) /\ n <= spawned /\ t.st = "work" /\ MayBecome(n, o)
    BY <1>1, <1>7, <2>1, <2>2 DEF PollLists, Runs, MayBecome
  <2>4. QED
    BY <1>1, <1>2, <2>2, <2>3, EmitsStep
<1>8. CASE StreamEmits(n)
  <2>1. /\ Emits(n, "item", t) /\ n <= spawned /\ t.st = "work" /\ MayBecome(n, t)
    BY <1>1, <1>2, <1>8 DEF StreamEmits, Runs, MayBecome
  <2>2. QED
    BY <1>1, <1>2, <2>1, EmitsStep
<1>9. PICK o : o = Over(t)
  OBVIOUS
<1>10. /\ o \in TaskRec /\ o.kind = t.kind /\ o.id = t.id /\ o.aborted = t.aborted
       /\ o.st = "over" /\ o.streak = t.streak /\ MayBecome(n, o)
  <2>1. /\ o \in TaskRec /\ o.kind = t.kind /\ o.id = t.id /\ o.aborted = t.aborted
        /\ o.st = "over" /\ o.streak = t.streak
    BY <1>2, <1>9 DEF TaskRec, Over
  <2>2. QED
    BY <1>1, <2>1 DEF MayBecome
<1>11. CASE StreamEnds(n)
  <2>1. Emits(n, "end", o) /\ n <= spawned /\ t.st # "over"
    BY <1>1, <1>9, <1>11 DEF StreamEnds, Runs
  <2>2. QED
    BY <1>1, <1>2, <1>10, <2>1, EmitsStep
<1>12. CASE Dropped(n)
  <2>1. /\ Becomes(n, o) /\ n <= spawned /\ t.st # "over" /\ t.aborted
        /\ dirty' = dirty
    BY <1>1, <1>9, <1>12 DEF Dropped
  <2>2. QED
    BY <1>0, <1>1, <1>2, <1>10, <2>1, TaskStep
<1>13. QED
  BY <1>3, <1>5, <1>6, <1>7, <1>8, <1>11, <1>12 DEF Poll, Stream

-----------------------------------------------------------------------------
(* The theorems.                                                           *)

\* Every step of the session, its writer and its forwarders preserves the
\* invariant.
LEMMA NextIInv == IInv /\ [Next]_vars => IInv'
<1> SUFFICES ASSUME IInv, [Next]_vars PROVE IInv'
  OBVIOUS
<1>0. dirty \in BOOLEAN /\ acts \in 0 .. asked /\ asked \in 0 .. MaxActs /\ MaxActs \in Nat
  BY SessionConstants DEF IInv, Plain
<1>1. CASE UNCHANGED vars
  <2>1. Plain'
    BY <1>1 DEF vars, IInv, Plain
  <2>2. QED
    BY <1>1, <2>1, QuietStep DEF vars
<1>2. CASE ReadHello \/ Close \/ ClientLeaves \/ EngineChanges
  <2>1. UNCHANGED <<spawned, subs, task, writer, status, acts, asked>>
    BY <1>2 DEF ReadHello, Close, ClientLeaves, EngineChanges, sessionVars
  <2>2. dirty' \in BOOLEAN
    BY <1>0, <1>2 DEF ReadHello, Close, ClientLeaves, EngineChanges, Sent, SendFails
  <2>3. /\ phase' \in {"hello", "loop", "closing", "closed"}
        /\ peer' \in {"open", "gone"} /\ engine' \in {"up", "down"}
    BY <1>2 DEF ReadHello, Close, ClientLeaves, EngineChanges, sessionVars, IInv, Plain
  <2>4. Plain'
    BY <2>1, <2>2, <2>3 DEF IInv, Plain
  <2>5. QED
    BY <2>1, <2>4, QuietStep
<1>3. CASE Writer
  <2>1. /\ UNCHANGED <<spawned, subs, task, status, acts, asked, phase, peer, engine>>
        /\ dirty' \in BOOLEAN /\ writer = "run" /\ writer' \in {"run", "ended"}
    BY <1>0, <1>3 DEF Writer, WriterWrites, WriterDrained, sessionVars
  <2>2. Plain'
    BY <2>1 DEF IInv, Plain
  <2>3. QED
    BY <2>1, <2>2, QuietStep
<1>4. CASE ActionEnds
  <2>1. acts' \in 0 .. asked
    BY <1>0, <1>4 DEF ActionEnds
  <2>2. dirty' \in BOOLEAN
        /\ UNCHANGED <<phase, peer, subs, status, spawned, asked, writer, task, engine>>
    BY <1>0, <1>4 DEF ActionEnds, Sent, SendFails, sessionVars
  <2>3. Plain'
    BY <2>1, <2>2 DEF IInv, Plain
  <2>4. QED
    BY <2>2, <2>3, QuietStep
<1>5. CASE ReadFails
  BY <1>0, <1>5, TeardownStep DEF ReadFails
<1>6. ASSUME NEW n \in Tasks, Poll(n) \/ Stream(n) \/ Dropped(n)
      PROVE  IInv'
  <2>1. UNCHANGED peer
    BY <1>6 DEF Poll, Stream, Dropped, Connects, DockerFails, ProbeFails, PollLists,
       StreamEmits, StreamEnds, Unavailable, Emits, Becomes, sessionVars
  <2>2. QED
    BY <1>6, <2>1, ForwarderStep
<1>7. QED
  BY <1>1, <1>2, <1>3, <1>4, <1>5, <1>6, CommandStep DEF Next

\* The invariant holds in every reachable state.
LEMMA Invariant == Spec => []IInv
  BY InitIInv, NextIInv, PTL DEF Spec

\* The session always has a handle on every forwarder that nobody has stopped, so
\* that an Unsubscribe and the teardown reach it: no replacement, no attach to an
\* unknown pane and no refused id leaves a zombie behind (handle_command, session).
THEOREM NoForwarderIsLost == Spec => []SessionInv
<1>1. IInv => SessionInv
  <2> SUFFICES ASSUME IInv PROVE SessionInv
    OBVIOUS
  <2>1. status \subseteq Ids /\ Cardinality(status) <= 1
    <3>1. CASE status = {}
      BY <3>1, FS_EmptySet
    <3>2. ASSUME NEW i \in Ids, status = {i}
          PROVE  status \subseteq Ids /\ Cardinality(status) <= 1
      <4>1. Cardinality({i}) = 1
        BY FS_Singleton
      <4>2. QED
        BY <3>2, <4>1
    <3>3. QED
      BY <3>1, <3>2 DEF IInv, Plain
  <2>2. TypeOK
    BY <2>1 DEF IInv, Plain, TypeOK, TaskRec
  <2>3. QED
    BY <2>2 DEF IInv, SessionInv
<1>2. QED
  BY <1>1, Invariant, PTL

\* An outage is reported once, when it begins, and a stream that ends by itself
\* while the client listens has said so (forward_docker, forward_ports,
\* forward_processes, forward_docker_logs, forward_docker_stats, forward_pane).
THEOREM ForwardersTellOnce == Spec => []ToldOnce
<1>1. IInv => ToldOnce
  BY DEF IInv, ToldOnce, OutageKept, UnavailableSaidOnce
<1>2. QED
  BY <1>1, Invariant, PTL
=============================================================================

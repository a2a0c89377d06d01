-------------------------- MODULE AgentDeployProofs --------------------------
(***************************************************************************)
(* Host keys are kept and asked for, and no host runs half an agent, for   *)
(* every set of callers, hosts, keys and controllers, every configuration  *)
(* and every interleaving of key exchanges with doctor --ssh-forget, of    *)
(* deploys with each other and with the commands that outlive them.  The   *)
(* deploys run on top of the connections and leave the known_hosts file    *)
(* alone, except that a lost session hangs up: SInv is about the file and  *)
(* DInv about the deploys.                                                 *)
(*                                                                         *)
(* TrustIsKept alone is not inductive for KeyChangeIsAsked: a key may be   *)
(* believed because the file has it, so the file, and the copy that forget *)
(* writes back, must hold no line that was not persisted; and one that is  *)
(* about to be appended was unknown when the file was read.                *)
(***************************************************************************)
EXTENDS AgentDeploy, TLAPS

\* Every line of the file was persisted and not forgotten since; so was every
\* line that forget will write back.
FileIsSettled ==
    /\ \A l \in known : l.key \in settled[l.host]
    /\ cli.at # "done" =>
          \A l \in cli.seen : l.host # cli.host => l.key \in settled[l.host]

\* A task has a host from the key exchange on.
Addressed ==
    \A t \in Tasks : pc[t] \in {"check", "trust", "auth", "up"} => addr[t] \in Hosts

\* A task goes from the check to the append with the file as the check saw it.
TrustsTheUnknown ==
    \A t \in Tasks : pc[t] = "trust" =>
        \/ settled[addr[t]] = {}
        \/ addr[t] \in dropped
        \/ view[t] \in {"truncated", "overtaken"}

SInv == SshTypeOK /\ Addressed /\ TrustIsKept /\ FileIsSettled /\ TrustsTheUnknown

\* Every source lists hosts only.
LEMMA HostListType ==
    ASSUME SshTypeOK, NEW a \in DOMAIN HostList
    PROVE  HostList[a] \in Hosts
<1>1. CASE toml = Broken
  BY <1>1 DEF HostList
<1>2. CASE toml # Broken /\ toml # <<>>
  <2>1. toml = Toml
    BY <1>2 DEF SshTypeOK
  <2> DEFINE firsts == {i \in DOMAIN toml : \A j \in 1 .. i - 1 : toml[j].alias # toml[i].alias}
  <2>2. HostList = [b \in {toml[i].alias : i \in firsts} |->
                      toml[CHOOSE i \in firsts : toml[i].alias = b].host]
    BY <1>2 DEF HostList, FromToml
  <2>3. firsts \subseteq DOMAIN toml
    OBVIOUS
  <2> HIDE DEF firsts
  <2>4. a \in {toml[i].alias : i \in firsts}
    BY <2>2
  <2>5. \E i \in firsts : toml[i].alias = a
    BY <2>4
  <2>6. (CHOOSE i \in firsts : toml[i].alias = a) \in firsts
    BY <2>5
  <2>7. HostList[a] = toml[CHOOSE i \in firsts : toml[i].alias = a].host
    BY <2>2, <2>4
  <2>8. QED
    BY <2>1, <2>3, <2>6, <2>7, SshConstants
<1>3. CASE toml # Broken /\ toml = <<>>
  <2> DEFINE aliases == IF scenario.env # {} THEN scenario.env ELSE Concrete
  <2>1. HostList = [b \in aliases |-> Resolve[b]]
    BY <1>3 DEF HostList
  <2>2. scenario.env \subseteq DOMAIN Resolve
    BY DEF SshTypeOK, Scenario
  <2>3. Concrete \subseteq DOMAIN Resolve
    BY SshConstants DEF Concrete
  <2>4. a \in DOMAIN Resolve /\ HostList[a] = Resolve[a]
    BY <2>1, <2>2, <2>3
  <2>5. QED
    BY <2>4, SshConstants
<1>4. QED
  BY <1>1, <1>2, <1>3

\* The initial states.
LEMMA InitSInv == Init => SInv
<1> SUFFICES ASSUME SshInit PROVE SInv
  BY DEF Init
<1> USE DEF SshInit
<1>1. AnyKey \in Keys
  BY SshConstants DEF AnyKey
<1>2. SshTypeOK
  BY <1>1, SshConstants DEF SshTypeOK, Place, Line
<1>3. Addressed /\ TrustIsKept /\ FileIsSettled /\ TrustsTheUnknown
  BY DEF Addressed, TrustIsKept, FileIsSettled, TrustsTheUnknown
<1>4. QED
  BY <1>2, <1>3 DEF SInv

-----------------------------------------------------------------------------
(* The steps that leave the file alone.                                    *)

\* What does not touch the file, or what was persisted, disturbs neither part.
LEMMA FileAlone ==
    ASSUME SInv, UNCHANGED <<known, cli, settled, dropped>>
    PROVE  TrustIsKept' /\ FileIsSettled'
  BY DEF SInv, TrustIsKept, FileIsSettled

\* Nor does what makes no task trust disturb the third.
LEMMA NoneTrusts ==
    ASSUME SInv, UNCHANGED <<settled, dropped>>,
           \A u \in Tasks : pc'[u] = "trust" =>
               pc[u] = "trust" /\ addr'[u] = addr[u] /\ view'[u] = view[u]
    PROVE  TrustsTheUnknown'
  BY DEF SInv, TrustsTheUnknown

\* Counting down what is still to come leaves the rest of the scenario.
LEMMA ScenarioCounts ==
    ASSUME scenario \in Scenario
    PROVE  /\ scenario.edits > 0 => [scenario EXCEPT !.edits = @ - 1] \in Scenario
           /\ scenario.rekeys > 0 => [scenario EXCEPT !.rekeys = @ - 1] \in Scenario
           /\ scenario.forgets > 0 => [scenario EXCEPT !.forgets = @ - 1] \in Scenario
<1>1. scenario.edits > 0 => [scenario EXCEPT !.edits = @ - 1] \in Scenario
  BY DEF Scenario
<1>2. scenario.rekeys > 0 => [scenario EXCEPT !.rekeys = @ - 1] \in Scenario
  BY DEF Scenario
<1>3. scenario.forgets > 0 => [scenario EXCEPT !.forgets = @ - 1] \in Scenario
  BY DEF Scenario
<1>4. QED
  BY <1>1, <1>2, <1>3

\* So does a dial.
LEMMA ScenarioDials ==
    ASSUME scenario \in Scenario, NEW t \in Tasks, scenario.dials[t] > 0
    PROVE  [scenario EXCEPT !.dials[t] = @ - 1] \in Scenario
<1>1. PICK d : d = [scenario.dials EXCEPT ![t] = @ - 1]
  OBVIOUS
<1>2. scenario.dials \in [Tasks -> Nat]
  BY DEF Scenario
<1>3. d \in [Tasks -> Nat]
  BY <1>1, <1>2
<1>4. [scenario EXCEPT !.dials = d] \in Scenario
  BY <1>3 DEF Scenario
<1>5. QED
  BY <1>1, <1>4

\* A dial goes to a host; the exchange brings that host's key.
LEMMA DialSInv ==
    ASSUME SInv, NEW t \in Tasks, Dial(t)
    PROVE  SInv'
<1>0. SshTypeOK /\ Addressed
  BY DEF SInv
<1>1. scenario' \in Scenario
  BY <1>0, ScenarioDials DEF Dial, SshTypeOK
<1>2. \A h \in Dialled(t) : h \in Hosts
  <2>1. addr[t] # NoHost => addr[t] \in Hosts
    BY <1>0 DEF SshTypeOK
  <2>2. QED
    BY <1>0, <2>1, HostListType DEF Dialled
<1>3. CASE \E h \in Dialled(t) :
              /\ addr' = [addr EXCEPT ![t] = h]
              /\ key' = [key EXCEPT ![t] = serverKey[h]]
              /\ \E p \in {"check", "refused"} : pc' = [pc EXCEPT ![t] = p]
  <2>1. PICK h \in Hosts, p \in {"check", "refused"} :
            /\ addr' = [addr EXCEPT ![t] = h]
            /\ key' = [key EXCEPT ![t] = serverKey[h]]
            /\ pc' = [pc EXCEPT ![t] = p]
    BY <1>2, <1>3
  <2>2. SshTypeOK'
    BY <1>0, <1>1, <2>1 DEF Dial, SshTypeOK, Place
  <2>3. Addressed'
    BY <1>0, <2>1 DEF Addressed, SshTypeOK
  <2>5. TrustsTheUnknown'
    <3>1. \A u \in Tasks : pc'[u] = "trust" => u # t /\ pc'[u] = pc[u] /\ addr'[u] = addr[u]
      BY <1>0, <2>1 DEF SshTypeOK
    <3>2. QED
      BY <3>1, NoneTrusts DEF Dial
  <2>4. QED
    BY <2>2, <2>3, <2>5, FileAlone DEF SInv, Dial
<1>4. CASE pc' = [pc EXCEPT ![t] = "refused"] /\ UNCHANGED <<addr, key>>
  <2>1. SshTypeOK'
    BY <1>0, <1>1, <1>4 DEF Dial, SshTypeOK, Place
  <2>2. Addressed'
    BY <1>0, <1>4 DEF Addressed, SshTypeOK
  <2>4. TrustsTheUnknown'
    <3>1. \A u \in Tasks : pc'[u] = "trust" => pc[u] = "trust"
      BY <1>0, <1>4 DEF SshTypeOK
    <3>2. QED
      BY <1>4, <3>1, NoneTrusts DEF Dial
  <2>3. QED
    BY <2>1, <2>2, <2>4, FileAlone DEF SInv, Dial
<1>5. QED
  BY <1>3, <1>4 DEF Dial

\* A verdict, an authentication.
LEMMA MoveSInv ==
    ASSUME SInv, NEW t \in Tasks, Check(t) \/ Authenticate(t)
    PROVE  SInv'
<1>0. SshTypeOK /\ Addressed
  BY DEF SInv
<1>1. PICK p \in Place :
          /\ pc' = [pc EXCEPT ![t] = p]
          /\ pc[t] \in {"check", "auth"}
  <2>1. CASE Check(t)
    <3>1. PICK v \in Verdict(addr[t], key[t]) :
              pc' = [pc EXCEPT ![t] = CASE v = "trusted" -> "auth" [] v = "unknown" -> "trust"
                                        [] v = "mismatch" -> "refused"]
      BY <2>1 DEF Check, At
    <3>2. v \in {"trusted", "unknown", "mismatch"}
      BY <3>1 DEF Verdict
    <3>3. pc[t] = "check"
      BY <2>1 DEF Check
    <3>4. CASE v = "trusted"
      BY <3>1, <3>3, <3>4 DEF Place
    <3>5. CASE v = "unknown"
      BY <3>1, <3>3, <3>5 DEF Place
    <3>6. CASE v = "mismatch"
      BY <3>1, <3>3, <3>6 DEF Place
    <3>7. QED
      BY <3>2, <3>4, <3>5, <3>6
  <2>2. CASE Authenticate(t)
    BY <2>2 DEF Authenticate, At, Place
  <2>3. QED
    BY <2>1, <2>2
<1>2. UNCHANGED <<toml, serverKey, known, cli, addr, key, scenario, settled, dropped>>
  BY DEF Check, Authenticate, At
<1>3. SshTypeOK'
  <2>1. view' \in [Tasks -> {"whole", "truncated", "overtaken"}]
    BY <1>0 DEF Check, Authenticate, SshTypeOK
  <2>2. QED
    BY <1>0, <1>1, <1>2, <2>1 DEF SshTypeOK
<1>4. Addressed'
  BY <1>0, <1>1, <1>2 DEF Addressed, SshTypeOK
<1>6. TrustsTheUnknown'
  <2>1. CASE Authenticate(t)
    <3>1. \A u \in Tasks : pc'[u] = "trust" => pc[u] = "trust" /\ u # t
      BY <1>0, <2>1 DEF Authenticate, At, SshTypeOK
    <3>2. \A u \in Tasks \ {t} : view'[u] = view[u]
      BY <1>0, <2>1 DEF Authenticate, SshTypeOK
    <3>3. QED
      BY <1>2, <3>1, <3>2, NoneTrusts
  <2>2. CASE Check(t)
    <3>1. SUFFICES ASSUME NEW u \in Tasks, pc'[u] = "trust"
                   PROVE  \/ settled[addr[u]] = {} \/ addr[u] \in dropped
                          \/ view'[u] \in {"truncated", "overtaken"}
      BY <1>2 DEF TrustsTheUnknown
    <3>2. CASE u # t
      <4>1. pc[u] = "trust" /\ view'[u] = view[u]
        BY <1>0, <1>1, <2>2, <3>1, <3>2 DEF Check, SshTypeOK
      <4>2. QED
        BY <4>1 DEF SInv, TrustsTheUnknown
    <3>3. CASE u = t /\ KeysOf(addr[t]) # {}
      <4>1. PICK v \in Verdict(addr[t], key[t]) :
                pc' = [pc EXCEPT ![t] = CASE v = "trusted" -> "auth" [] v = "unknown" -> "trust"
                                          [] v = "mismatch" -> "refused"]
        BY <2>2 DEF Check, At
      <4>2. v \in {"trusted", "mismatch"}
        BY <3>3, <4>1 DEF Verdict
      <4>3. pc'[t] \in {"auth", "refused"}
        BY <1>0, <4>1, <4>2 DEF SshTypeOK
      <4>4. QED
        BY <3>1, <3>3, <4>3
    <3>4. CASE u = t /\ KeysOf(addr[t]) = {}
      <4>1. view'[t] = "truncated" <=> cli.at = "truncated"
        BY <1>0, <2>2 DEF Check, SshTypeOK
      <4>2. addr[t] \in Hosts
        BY <1>0, <2>2 DEF Check, Addressed
      <4>3. \A k \in Keys : [host |-> addr[t], key |-> k] \notin known
        <5>1. SUFFICES ASSUME NEW l \in known, l.host = addr[t]
                       PROVE  FALSE
          OBVIOUS
        <5>2. l \in {m \in known : m.host = addr[t]}
          BY <5>1
        <5>3. QED
          BY <3>4, <5>2 DEF KeysOf
      <4>4. settled[addr[t]] \subseteq Keys
        BY <1>0, <4>2 DEF SshTypeOK
      <4>5. QED
        BY <3>4, <4>1, <4>2, <4>3, <4>4 DEF SInv, TrustIsKept
    <3>5. QED
      BY <3>2, <3>3, <3>4
  <2>3. QED
    BY <2>1, <2>2
<1>5. QED
  BY <1>2, <1>3, <1>4, <1>6, FileAlone DEF SInv

\* A lost or finished session.
LEMMA HangupSInv ==
    ASSUME SInv, NEW t \in Tasks, Hangup(t)
    PROVE  SInv'
<1>0. SshTypeOK /\ Addressed /\ AnyKey \in Keys
  BY SshConstants DEF SInv, AnyKey
<1>1. pc' = [pc EXCEPT ![t] = "idle"] /\ key' = [key EXCEPT ![t] = AnyKey]
      /\ UNCHANGED <<toml, serverKey, known, cli, scenario, settled, dropped>>
  BY DEF Hangup, At
<1>2. SshTypeOK'
  BY <1>0, <1>1 DEF Hangup, SshTypeOK, Place
<1>3. Addressed'
  BY <1>0, <1>1 DEF Hangup, Addressed, SshTypeOK
<1>4. TrustsTheUnknown'
  <2>1. \A u \in Tasks : pc'[u] = "trust" => pc[u] = "trust" /\ u # t
    BY <1>0, <1>1 DEF SshTypeOK
  <2>2. \A u \in Tasks \ {t} : addr'[u] = addr[u] /\ view'[u] = view[u]
    BY <1>0 DEF Hangup, SshTypeOK
  <2>3. QED
    BY <1>1, <2>1, <2>2, NoneTrusts
<1>5. QED
  BY <1>1, <1>2, <1>3, <1>4, FileAlone DEF SInv

\* The user edits config.toml, a host gets another key, or forget reads the file.
LEMMA WorldSInv ==
    ASSUME SInv, EditConfig \/ \E h \in Hosts : Rekey(h)
    PROVE  SInv'
<1>0. SshTypeOK /\ Addressed
  BY DEF SInv
<1>1. UNCHANGED <<known, cli, pc, addr, key, view, settled, dropped>>
  BY DEF EditConfig, Rekey
<1>3. scenario' \in Scenario
  BY <1>0, ScenarioCounts DEF EditConfig, Rekey, SshTypeOK
<1>4. SshTypeOK'
  BY <1>0, <1>1, <1>3 DEF EditConfig, Rekey, SshTypeOK
<1>5. QED
  BY <1>0, <1>1, <1>4, FileAlone, NoneTrusts DEF SInv, Addressed

-----------------------------------------------------------------------------
(* The steps that change the file.                                         *)

\* An append persists the key and adds its line.
LEMMA TrustSInv ==
    ASSUME SInv, NEW t \in Tasks, Trust(t)
    PROVE  SInv'
<1>0. SshTypeOK /\ Addressed /\ TrustIsKept /\ FileIsSettled
  BY DEF SInv
<1>1. /\ addr[t] \in Hosts /\ key[t] \in Keys
      /\ UNCHANGED <<toml, serverKey, cli, addr, key, scenario, dropped>>
      /\ \E p \in {"auth", "refused"} : pc' = [pc EXCEPT ![t] = p]
  BY <1>0 DEF Trust, At, Addressed, SshTypeOK
<1>5. \A u \in Tasks : pc'[u] = "trust" => u # t /\ pc[u] = "trust"
  BY <1>0, <1>1 DEF SshTypeOK
<1>2. CASE UNCHANGED <<known, view, settled>>
  <2>1. SshTypeOK' /\ Addressed'
    BY <1>0, <1>1, <1>2 DEF SshTypeOK, Place, Addressed
  <2>2. QED
    BY <1>1, <1>2, <1>5, <2>1, FileAlone, NoneTrusts DEF SInv
<1>3. CASE /\ known' = known \cup {[host |-> addr[t], key |-> key[t]]}
           /\ settled' = [settled EXCEPT ![addr[t]] = @ \cup {key[t]}]
           /\ view' = [u \in Tasks |->
                          IF u # t /\ pc[u] = "trust" /\ addr[u] = addr[t]
                          THEN "overtaken" ELSE view[u]]
  <2>1. settled \in [Hosts -> SUBSET Keys] /\ known \subseteq Line
    BY <1>0 DEF SshTypeOK
  <2>2. /\ settled'[addr[t]] = settled[addr[t]] \cup {key[t]}
        /\ \A h \in Hosts \ {addr[t]} : settled'[h] = settled[h]
        /\ settled' \in [Hosts -> SUBSET Keys]
    BY <1>1, <1>3, <2>1
  <2>3. SshTypeOK'
    <3>1. view' \in [Tasks -> {"whole", "truncated", "overtaken"}]
      BY <1>0, <1>3 DEF SshTypeOK
    <3>2. QED
      BY <1>0, <1>1, <1>3, <2>2, <3>1 DEF SshTypeOK, Place, Line
  <2>4. Addressed'
    BY <1>0, <1>1 DEF SshTypeOK, Addressed
  <2>5. TrustIsKept'
    BY <1>0, <1>1, <1>3, <2>2 DEF TrustIsKept
  <2>6. \A l \in known' : l.key \in settled'[l.host]
    <3>1. SUFFICES ASSUME NEW l \in known' PROVE l.key \in settled'[l.host]
      OBVIOUS
    <3>2. CASE l = [host |-> addr[t], key |-> key[t]]
      BY <2>2, <3>2
    <3>3. CASE l \in known
      <4>1. l.host \in Hosts /\ l.key \in settled[l.host]
        BY <1>0, <2>1, <3>3 DEF FileIsSettled, Line
      <4>2. QED
        BY <2>2, <4>1
    <3>4. QED
      BY <1>3, <3>2, <3>3
  <2>7. \A l \in cli.seen : l.key \in settled[l.host] => l.key \in settled'[l.host]
    <3>1. \A l \in cli.seen : l.host \in Hosts
      BY <1>0 DEF SshTypeOK, Line
    <3>2. QED
      BY <2>2, <3>1
  <2>8. FileIsSettled'
    BY <1>0, <1>1, <2>6, <2>7 DEF FileIsSettled
  <2>9. TrustsTheUnknown'
    <3>1. SUFFICES ASSUME NEW u \in Tasks, pc'[u] = "trust"
                   PROVE  \/ settled'[addr[u]] = {} \/ addr[u] \in dropped
                          \/ view'[u] \in {"truncated", "overtaken"}
      BY <1>1 DEF TrustsTheUnknown
    <3>2. u # t /\ pc[u] = "trust" /\ addr[u] \in Hosts
      BY <1>0, <1>5, <3>1 DEF Addressed
    <3>3. CASE addr[u] = addr[t]
      BY <1>3, <3>2, <3>3
    <3>4. CASE addr[u] # addr[t]
      BY <1>3, <2>2, <3>2, <3>4 DEF SInv, TrustsTheUnknown
    <3>5. QED
      BY <3>3, <3>4
  <2>10. QED
    BY <2>3, <2>4, <2>5, <2>8, <2>9 DEF SInv
<1>4. QED
  BY <1>2, <1>3 DEF Trust

\* forget reads the file, which holds persisted lines only.
LEMMA ForgetReadsSInv ==
    ASSUME SInv, NEW a \in DOMAIN HostList, ForgetReads(a)
    PROVE  SInv'
<1>0. SshTypeOK /\ Addressed /\ TrustIsKept /\ FileIsSettled
  BY DEF SInv
<1>1. /\ cli' = [at |-> "read", seen |-> known, host |-> HostList[a]] /\ cli.at = "done"
      /\ UNCHANGED <<toml, serverKey, pc, addr, key, known, view, settled, dropped>>
  BY DEF ForgetReads, Cli
<1>2. HostList[a] \in Hosts /\ scenario' \in Scenario
  BY <1>0, HostListType, ScenarioCounts DEF ForgetReads, SshTypeOK
<1>3. SshTypeOK'
  BY <1>0, <1>1, <1>2 DEF SshTypeOK
<1>4. Addressed' /\ TrustIsKept' /\ FileIsSettled'
  BY <1>0, <1>1 DEF Addressed, TrustIsKept, FileIsSettled
<1>5. QED
  BY <1>1, <1>3, <1>4, NoneTrusts DEF SInv

\* A key of a host whose line no rewrite lost is in the file, or in the copy
\* that forget holds of another host's lines.
LEMMA NotLost ==
    ASSUME dropped' = dropped \cup Lost,
           NEW h \in Hosts \ dropped', NEW k \in settled'[h]
    PROVE  \/ [host |-> h, key |-> k] \in known'
           \/ h # cli.host /\ [host |-> h, key |-> k] \in cli.seen
  BY DEF Lost

\* The file is emptied; the copy holds what other hosts persisted.
LEMMA ForgetTruncatesSInv ==
    ASSUME SInv, ForgetTruncates
    PROVE  SInv'
<1>0. SshTypeOK /\ Addressed /\ TrustIsKept /\ FileIsSettled
  BY DEF SInv
<1>1. /\ cli' = [at |-> "truncated", seen |-> cli.seen, host |-> cli.host] /\ cli.at = "read"
      /\ known' = {} /\ dropped' = dropped \cup Lost
      /\ settled' = [settled EXCEPT ![cli.host] = {}]
      /\ UNCHANGED <<toml, serverKey, pc, addr, key, view, scenario>>
  BY DEF ForgetTruncates, Cli
<1>2. Lost \subseteq Hosts
  BY DEF Lost
<1>3. SshTypeOK'
  BY <1>0, <1>1, <1>2 DEF SshTypeOK
<1>4. TrustIsKept'
  BY <1>1, NotLost DEF TrustIsKept
<1>5. FileIsSettled'
  <2>1. \A l \in cli.seen : l.host # cli.host => settled'[l.host] = settled[l.host]
    BY <1>0, <1>1 DEF SshTypeOK, Line
  <2>2. QED
    BY <1>0, <1>1, <2>1 DEF FileIsSettled
<1>6. Addressed'
  BY <1>0, <1>1 DEF Addressed
<1>7. TrustsTheUnknown'
  <2>1. \A h \in Hosts : settled[h] = {} => settled'[h] = {}
    BY <1>0, <1>1 DEF SshTypeOK
  <2>2. QED
    BY <1>0, <1>1, <2>1 DEF SInv, TrustsTheUnknown, Addressed
<1>8. QED
  BY <1>3, <1>4, <1>5, <1>6, <1>7 DEF SInv

\* The copy is written back without the forgotten host's lines.
LEMMA ForgetWritesSInv ==
    ASSUME SInv, ForgetWrites
    PROVE  SInv'
<1>0. SshTypeOK /\ Addressed /\ TrustIsKept /\ FileIsSettled
  BY DEF SInv
<1>1. /\ cli' = [at |-> "done", seen |-> {}, host |-> NoHost] /\ cli.at = "truncated"
      /\ known' = IF Kept(cli.seen, cli.host) = {} THEN known ELSE Kept(cli.seen, cli.host)
      /\ dropped' = dropped \cup Lost
      /\ UNCHANGED <<toml, serverKey, pc, addr, key, view, scenario, settled>>
  BY DEF ForgetWrites, Cli
<1>2. Lost \subseteq Hosts /\ Kept(cli.seen, cli.host) \subseteq Line
  BY <1>0 DEF Lost, Kept, SshTypeOK
<1>3. SshTypeOK'
  BY <1>0, <1>1, <1>2 DEF SshTypeOK
<1>4. TrustIsKept'
  <2>1. SUFFICES ASSUME NEW h \in Hosts \ dropped', NEW k \in settled'[h]
                 PROVE  [host |-> h, key |-> k] \in known'
    BY DEF TrustIsKept
  <2>2. CASE h # cli.host /\ [host |-> h, key |-> k] \in cli.seen
    BY <1>1, <2>2 DEF Kept
  <2>3. QED
    BY <1>1, <2>2, NotLost
<1>5. FileIsSettled'
  BY <1>0, <1>1 DEF FileIsSettled, Kept
<1>6. Addressed'
  BY <1>0, <1>1 DEF Addressed
<1>7. TrustsTheUnknown'
  BY <1>0, <1>1 DEF SInv, TrustsTheUnknown
<1>8. QED
  BY <1>3, <1>4, <1>5, <1>6, <1>7 DEF SInv

-----------------------------------------------------------------------------
(* The theorems about host keys.                                           *)

\* A deploy changes nothing of the connections but to hang up.
LEMMA DeployIsApart ==
    ASSUME NEW t \in Tasks,
           \/ Ends(t) \/ Detect(t) \/ Inspect(t) \/ OpenTmp(t) \/ CatEnds(t) \/ CatFails(t)
           \/ Remove(t) \/ Move(t) \/ Chmod(t) \/ Verify(t) \/ Exec(t) \/ GivesUp(t) \/ LeftRuns(t)
    PROVE  Hangup(t) \/ UNCHANGED sshVars
  BY DEF Ends, Detect, Inspect, OpenTmp, CatEnds, CatFails, Remove, Move, Chmod, Verify, Exec,
     GivesUp, LeftRuns

\* The steps that the connections see.
LEMMA StepCases ==
    ASSUME [Next]_vars
    PROVE  \/ UNCHANGED sshVars
           \/ \E t \in Tasks : Hangup(t) \/ SshStep(t)
           \/ SshEnvironment
  BY DeployIsApart DEF Next, Connecting, vars

\* Every step preserves the invariant.
LEMMA NextSInv == SInv /\ [Next]_vars => SInv'
<1> SUFFICES ASSUME SInv, [Next]_vars PROVE SInv'
  OBVIOUS
<1>1. CASE UNCHANGED sshVars
  <2>1. SshTypeOK' /\ Addressed'
    BY <1>1 DEF SInv, sshVars, SshTypeOK, Addressed
  <2>2. QED
    BY <1>1, <2>1, FileAlone, NoneTrusts DEF SInv, sshVars
<1>2. ASSUME NEW t \in Tasks, Hangup(t) \/ SshStep(t) PROVE SInv'
  BY <1>2, HangupSInv, DialSInv, MoveSInv, TrustSInv DEF SshStep
<1>3. CASE SshEnvironment
  BY <1>3, WorldSInv, ForgetReadsSInv, ForgetTruncatesSInv, ForgetWritesSInv
     DEF SshEnvironment
<1>4. QED
  BY <1>1, <1>2, <1>3, StepCases

LEMMA KeyInvariant == Spec => []SInv
  BY InitSInv, NextSInv, PTL DEF Spec

\* The rewrite of one host's known_hosts lines takes no other host's, and no
\* append is undone, except a line appended between forget's read and its write
\* (KnownHostsStore::forget, TofuHandler's trust).
THEOREM TrustKept == Spec => []TrustIsKept
<1>1. SInv => TrustIsKept
  BY DEF SInv
<1>2. QED
  BY <1>1, KeyInvariant, PTL

\* A host whose key was persisted is not believed with another key, neither by the
\* check nor by the append that follows it, outside three windows: forget has the
\* file truncated at the check, it lost the host's line, or another task persisted a
\* key between this one's check and append (check_server_key, KnownHostsStore).
THEOREM ChangedKeyAsked == Spec => KeyChangeIsAsked
<1> DEFINE Asked ==
      \A t \in Tasks :
          Believes(t) => \/ Persisted(t)
                         \/ addr[t] \in dropped
                         \/ view'[t] = "truncated"
                         \/ view[t] = "overtaken"
<1>1. SInv /\ [Next]_vars => [Asked]_sshVars
  <2>1. SUFFICES ASSUME SInv, [Next]_vars, sshVars' # sshVars, NEW t \in Tasks, Believes(t),
                        ~Persisted(t), addr[t] \notin dropped,
                        view'[t] # "truncated", view[t] # "overtaken"
                 PROVE  FALSE
    OBVIOUS
  <2>2. /\ SshTypeOK /\ pc \in [Tasks -> Place] /\ addr[t] \in Hosts
        /\ pc[t] \in {"check", "trust"} /\ pc'[t] = "auth"
    BY <2>1 DEF SInv, SshTypeOK, Addressed, Believes
  <2>3. Check(t) \/ Trust(t)
    <3>1. \A u \in Tasks : ~Hangup(u)
      BY <2>2 DEF Hangup, At
    <3>2. ~SshEnvironment
      BY <2>2 DEF SshEnvironment, EditConfig, Rekey, ForgetReads, ForgetTruncates,
         ForgetWrites, Cli
    <3>3. ASSUME NEW u \in Tasks, SshStep(u)
          PROVE  Check(t) \/ Trust(t)
      <4>1. u = t
        BY <2>2, <3>3 DEF SshStep, Dial, Check, Trust, Authenticate, At
      <4>2. ~Dial(u) /\ ~Authenticate(u)
        BY <2>2, <4>1 DEF Dial, Authenticate
      <4>3. QED
        BY <3>3, <4>1, <4>2 DEF SshStep
    <3>4. QED
      BY <2>1, <3>1, <3>2, <3>3, StepCases
  \* The append: what the check saw is what SInv remembers.
  <2>4. CASE Trust(t)
    <3>1. view'[t] = view[t]
      BY <2>2, <2>4 DEF Trust, SshTypeOK
    <3>2. QED
      BY <2>1, <2>4, <3>1 DEF SInv, TrustsTheUnknown, Trust, Persisted
  \* The check: the file shows the key, and shows no other.
  <2>5. CASE Check(t)
    <3>1. cli.at # "truncated"
      BY <2>1, <2>2, <2>5 DEF Check, SshTypeOK
    <3>2. PICK k \in settled[addr[t]] : [host |-> addr[t], key |-> k] \in known
      BY <2>1, <2>2, <3>1 DEF SInv, TrustIsKept, Persisted
    <3>3. KeysOf(addr[t]) # {}
      <4>1. PICK l \in known : l = [host |-> addr[t], key |-> k]
        BY <3>2
      <4>2. l \in {m \in known : m.host = addr[t]}
        BY <4>1
      <4>3. QED
        BY <4>2 DEF KeysOf
    <3>4. PICK v \in Verdict(addr[t], key[t]) :
              pc' = [pc EXCEPT ![t] = CASE v = "trusted" -> "auth" [] v = "unknown" -> "trust"
                                        [] v = "mismatch" -> "refused"]
      BY <2>5 DEF Check, At
    <3>5. v # "mismatch"
      BY <2>2, <3>4
    <3>6. key[t] \in KeysOf(addr[t])
      BY <3>3, <3>4, <3>5 DEF Verdict
    <3>7. QED
      BY <2>1, <3>6 DEF KeysOf, SInv, FileIsSettled, Persisted
  <2>6. QED
    BY <2>3, <2>4, <2>5
<1>2. QED
  BY <1>1, KeyInvariant, PTL DEF Spec, KeyChangeIsAsked

-----------------------------------------------------------------------------
(* The deploys.  On a host where no two uploads of one process overlapped, *)
(* a cat writes to the file it opened, an mv finds a file that was written *)
(* to its end, and so the path of the agent never names half of one.  The  *)
(* invariant has to say so of the commands that outlive their deploy too,  *)
(* and for a deploy that nothing disturbs where each stage finds the file. *)

DeployTypeOK ==
    /\ stage \in [Tasks -> Stage] /\ tries \in [Tasks -> 0..2]
    /\ cmd \in [Tasks -> Command] /\ left \in [Tasks -> Command]
    /\ final \in [Hosts -> File]
    /\ tmp \in [Hosts -> [Procs -> File]]
    /\ ran \in [Tasks -> Bytes]
    /\ mixed \subseteq Hosts /\ clean \in [Tasks -> BOOLEAN]
    /\ procOf \in [Tasks -> Procs]

\* How a deploy's stage goes with its session, its uploads and its commands.
StagedAt(t) ==
    /\ stage[t] # "none" => pc[t] = "up"
    /\ stage[t] = "none" => ran[t] = None
    /\ stage[t] = "inspect" => tries[t] = 0
    /\ stage[t] = "upload" => tries[t] <= 1
    /\ cmd[t].is # "none" <=> stage[t] = "command"
    /\ cmd[t] = NoCommand \/ (cmd[t].is # "none" /\ cmd[t].host = addr[t])
    /\ left[t] = NoCommand \/ (left[t].is # "none" /\ left[t].host \in Hosts)
    /\ ran[t] = "part" => addr[t] \in mixed

Uploads(c, h) == c.is \in {"cat", "mv"} /\ c.host = h

\* Of each process at most one upload is under way on the host.
OneUpload(h) ==
    \A u, v \in Tasks : procOf[u] = procOf[v] =>
        /\ Uploads(cmd[u], h) /\ Uploads(cmd[v], h) => u = v
        /\ Uploads(left[u], h) /\ Uploads(left[v], h) => u = v
        /\ ~(Uploads(cmd[u], h) /\ Uploads(left[v], h))

\* A command c of task u does to the host's files what its deploy meant, or nothing
\* if an rm that outlived its deploy took the file that the cat has open.
Sound(c, u, h) ==
    c.host = h =>
        /\ c.is = "cat" => \/ c.fresh /\ c.loc = "tmp"
                           \/ c.loc = "gone" /\ tmp[h][procOf[u]].what # "part"
        /\ c.is = "mv" => tmp[h][procOf[u]].what # "part"

HostSoundAt(h) ==
    h \notin mixed =>
        /\ final[h].what # "part"
        /\ OneUpload(h)
        /\ \A u \in Tasks : Sound(cmd[u], u, h) /\ Sound(left[u], u, h)

\* What a deploy that nothing disturbed finds at its next step.
OnItsWay(t) ==
    /\ stage[t] = "inspect" /\ IsWhole(final[addr[t]]) => final[addr[t]].exec
    /\ cmd[t].is # "rm"
    /\ cmd[t].is = "cat" => cmd[t].fresh /\ cmd[t].loc = "tmp"
    /\ cmd[t].is = "mv" => tmp[addr[t]][procOf[t]].what = Own(t)
    /\ cmd[t].is = "chmod" => final[addr[t]].what = Own(t)
    /\ stage[t] \in {"verify", "exec"} => final[addr[t]].what = Own(t) /\ final[addr[t]].exec

CleanAt(t) ==
    clean[t] =>
        /\ stage[t] # "failed"
        /\ stage[t] \notin Idle => ~Busy(t, addr[t]) /\ OnItsWay(t)

DInv ==
    /\ DeployTypeOK
    /\ \A t \in Tasks : StagedAt(t) /\ CleanAt(t)
    /\ \A h \in Hosts : HostSoundAt(h)

\* The command c became d in a step at work on host h, to whose file it may write.
Touched(c, d, h) ==
    \/ d = c
    \/ c.is # "none" /\ c.host = h /\ d.is = c.is /\ d.host = c.host

\* A step of task t on the files of host h and the state of its own deploy.
Apart(t, h) ==
    /\ procOf' = procOf
    /\ mixed \subseteq mixed'
    /\ \A u \in Tasks \ {t} :
          /\ addr'[u] = addr[u] /\ pc'[u] = pc[u] /\ stage'[u] = stage[u]
          /\ tries'[u] = tries[u] /\ ran'[u] = ran[u] /\ (clean'[u] => clean[u])
          /\ Touched(cmd[u], cmd'[u], h) /\ Touched(left[u], left'[u], h)
    /\ \A g \in Hosts \ {h} : final'[g] = final[g] /\ tmp'[g] = tmp[g]
    /\ \/ stage'[t] \in Idle
       \/ stage'[t] = stage[t] /\ addr'[t] = addr[t]
       \/ addr[t] = h /\ addr'[t] = h
    /\ cmd'[t] = cmd[t] \/ cmd'[t].host \in {h, NoHost}
    /\ left'[t] = left[t] \/ left'[t].host \in {h, NoHost}

\* The initial states.
LEMMA InitDInv == Init => DInv
<1> SUFFICES ASSUME Init PROVE DInv
  OBVIOUS
<1> USE DEF Init, SshInit
<1>1. procOf \in [Tasks -> Procs]
  BY DeployConstants DEF procOf
<1>2. NoCommand \in Command /\ NoFile \in File
  BY DEF NoCommand, Command, NoFile, File, Bytes
<1>3. DeployTypeOK
  <2>1. tmp \in [Hosts -> [Procs -> File]]
    BY <1>2
  <2>2. ran \in [Tasks -> Bytes]
    BY DEF Bytes
  <2>3. QED
    BY <1>1, <1>2, <2>1, <2>2 DEF DeployTypeOK, Stage
<1>4. ASSUME NEW t \in Tasks PROVE StagedAt(t) /\ CleanAt(t)
  <2>1. /\ stage[t] = "none" /\ cmd[t] = NoCommand /\ left[t] = NoCommand
        /\ ran[t] = None /\ ~clean[t]
    OBVIOUS
  <2>2. NoCommand.is = "none" /\ None # "part"
    BY DeployConstants DEF NoCommand
  <2> HIDE DEF Init, SshInit
  <2>3. StagedAt(t)
    BY <2>1, <2>2 DEF StagedAt
  <2>4. CleanAt(t)
    BY <2>1 DEF CleanAt
  <2>5. QED
    BY <2>3, <2>4
<1>5. ASSUME NEW h \in Hosts PROVE HostSoundAt(h)
  <2>1. final[h].what # "part"
    BY DeployConstants DEF NoFile
  <2>2. \A u \in Tasks : cmd[u] = NoCommand /\ left[u] = NoCommand
    OBVIOUS
  <2>3. QED
    BY <2>1, <2>2 DEF HostSoundAt, OneUpload, Uploads, Sound, NoCommand
<1>6. QED
  BY <1>3, <1>4, <1>5 DEF DInv

-----------------------------------------------------------------------------
(* What a step leaves to the other deploys and the other hosts.            *)

LEMMA OthersStaged ==
    ASSUME DInv, NEW t \in Tasks, NEW h, Apart(t, h), NEW u \in Tasks \ {t}
    PROVE  StagedAt(u)'
<1>1. StagedAt(u)
  BY DEF DInv
<1>2. cmd'[u] = NoCommand \/ (cmd'[u].is # "none" /\ cmd'[u].host = addr'[u])
  BY <1>1 DEF StagedAt, Apart, Touched, NoCommand
<1>3. left'[u] = NoCommand \/ (left'[u].is # "none" /\ left'[u].host \in Hosts)
  BY <1>1 DEF StagedAt, Apart, Touched, NoCommand
<1>4. cmd'[u].is = cmd[u].is
  BY DEF Apart, Touched
<1>5. /\ stage'[u] = stage[u] /\ pc'[u] = pc[u] /\ tries'[u] = tries[u] /\ ran'[u] = ran[u]
      /\ addr'[u] = addr[u] /\ mixed \subseteq mixed'
  BY DEF Apart
<1>6. QED
  BY <1>1, <1>2, <1>3, <1>4, <1>5 DEF StagedAt

LEMMA ElsewhereSound ==
    ASSUME DInv, NEW t \in Tasks, NEW h, Apart(t, h), NEW g \in Hosts, g # h
    PROVE  HostSoundAt(g)'
<1>1. HostSoundAt(g) /\ g # NoHost
  BY SshConstants DEF DInv
<1>2. final'[g] = final[g] /\ tmp'[g] = tmp[g] /\ (g \in mixed => g \in mixed')
      /\ procOf' = procOf
  BY DEF Apart
<1>3. ASSUME NEW u \in Tasks
      PROVE  /\ cmd'[u].host = g => cmd'[u] = cmd[u]
             /\ left'[u].host = g => left'[u] = left[u]
  BY <1>1 DEF Apart, Touched
<1>4. OneUpload(g) => OneUpload(g)'
  BY <1>2, <1>3 DEF OneUpload, Uploads
<1>5. ASSUME NEW u \in Tasks, Sound(cmd[u], u, g), Sound(left[u], u, g)
      PROVE  Sound(cmd[u], u, g)' /\ Sound(left[u], u, g)'
  BY <1>2, <1>3, <1>5 DEF Sound
<1>6. QED
  BY <1>1, <1>2, <1>4, <1>5 DEF HostSoundAt

\* No other deploy that nothing disturbed is where this one is at work.
LEMMA AtWork ==
    ASSUME DInv, NEW t \in Tasks, NEW h \in Hosts,
           \/ stage[t] \notin Idle /\ addr[t] = h
           \/ left[t].host = h,
           NEW u \in Tasks \ {t}, clean[u], stage[u] \notin Idle
    PROVE  addr[u] # h
  BY DEF DInv, CleanAt, Busy

LEMMA OthersClean ==
    ASSUME DInv, NEW t \in Tasks, NEW h, Apart(t, h), NEW u \in Tasks \ {t},
           clean'[u] /\ stage[u] \notin Idle => addr[u] \in Hosts \ {h}
    PROVE  CleanAt(u)'
<1> SUFFICES ASSUME clean'[u]
             PROVE  /\ stage'[u] # "failed"
                    /\ stage'[u] \notin Idle => ~Busy(u, addr[u])' /\ OnItsWay(u)'
  BY DEF CleanAt, Apart
<1>1. clean[u] /\ stage'[u] = stage[u] /\ addr'[u] = addr[u] /\ CleanAt(u) /\ procOf' = procOf
  BY DEF Apart, DInv
<1> SUFFICES ASSUME stage[u] \notin Idle
             PROVE  ~Busy(u, addr[u])' /\ OnItsWay(u)'
  BY <1>1 DEF CleanAt
<1>2. addr[u] \in Hosts \ {h} /\ addr[u] # NoHost /\ ~Busy(u, addr[u]) /\ OnItsWay(u)
  BY <1>1, SshConstants DEF CleanAt
<1>3. ASSUME NEW v \in Tasks \ {u} PROVE ~(addr'[v] = addr[u] /\ stage'[v] \notin Idle)
  BY <1>2 DEF Busy, Apart
<1>4. ASSUME NEW v \in Tasks PROVE left'[v].host # addr[u]
  BY <1>2 DEF Busy, Apart, Touched
<1>5. ~Busy(u, addr[u])'
  BY <1>1, <1>3, <1>4 DEF Busy
<1>6. cmd'[u] = cmd[u]
  <2>1. StagedAt(u)
    BY DEF DInv
  <2>2. QED
    BY <1>2, <2>1 DEF Apart, Touched, StagedAt, NoCommand
<1>7. final'[addr[u]] = final[addr[u]] /\ tmp'[addr[u]] = tmp[addr[u]]
  BY <1>2 DEF Apart
<1>8. QED
  BY <1>1, <1>2, <1>5, <1>6, <1>7 DEF OnItsWay, Own, IsWhole

\* A step at work on host h keeps the invariant if it does for its own deploy
\* and for that host.
LEMMA DeployStep ==
    ASSUME DInv, NEW t \in Tasks, NEW h, Apart(t, h), DeployTypeOK',
           StagedAt(t)', CleanAt(t)', h \in Hosts => HostSoundAt(h)',
           \A u \in Tasks \ {t} :
               clean'[u] /\ stage[u] \notin Idle => addr[u] \in Hosts \ {h}
    PROVE  DInv'
<1>1. \A u \in Tasks : StagedAt(u)'
  BY OthersStaged
<1>2. \A u \in Tasks : CleanAt(u)'
  BY OthersClean
<1>3. \A g \in Hosts : HostSoundAt(g)'
  BY ElsewhereSound
<1>4. QED
  BY <1>1, <1>2, <1>3 DEF DInv

\* A deploy under way has a host.
LEMMA DeployHasHost ==
    ASSUME SInv, DInv, NEW t \in Tasks, stage[t] # "none"
    PROVE  addr[t] \in Hosts
  BY DEF SInv, Addressed, DInv, StagedAt

\* A step of a deploy that is under way, or of a command left behind.
LEMMA WorkStep ==
    ASSUME SInv, DInv, NEW t \in Tasks, NEW h \in Hosts, Apart(t, h),
           \/ stage[t] \notin Idle /\ addr[t] = h
           \/ left[t].host = h,
           DeployTypeOK', StagedAt(t)', CleanAt(t)', HostSoundAt(h)'
    PROVE  DInv'
<1>1. ASSUME NEW u \in Tasks \ {t}, clean'[u], stage[u] \notin Idle
      PROVE  addr[u] \in Hosts \ {h}
  <2>1. clean[u]
    BY <1>1 DEF Apart
  <2>2. addr[u] # h
    BY <1>1, <2>1, AtWork
  <2>3. addr[u] \in Hosts
    BY <1>1, DeployHasHost DEF Idle
  <2>4. QED
    BY <2>2, <2>3
<1>2. QED
  BY <1>1, DeployStep

\* What the host's files and commands allow does not depend on the rest.
LEMMA FilesAlone ==
    ASSUME DInv, procOf' = procOf, UNCHANGED <<cmd, left, final, tmp, mixed>>,
           NEW h \in Hosts
    PROVE  HostSoundAt(h)'
<1>1. HostSoundAt(h)
  BY DEF DInv
<1>2. QED
  BY <1>1 DEF HostSoundAt, OneUpload, Uploads, Sound

\* A deploy goes from stage to stage; the host's files stay.
LEMMA QuietStep ==
    ASSUME SInv, DInv, NEW t \in Tasks, NEW s \in Stage,
           stage[t] \notin Idle \cup {"command"}, s # "command", s # "none",
           stage' = [stage EXCEPT ![t] = s],
           UNCHANGED <<sshVars, tries, cmd, left, final, tmp, mixed>>,
           ran' = ran \/ \E b \in Bytes : ran' = [ran EXCEPT ![t] = b]
                                          /\ (b = "part" => addr[t] \in mixed),
           clean' = clean \/ clean' = [clean EXCEPT ![t] = FALSE],
           s = "inspect" => tries[t] = 0, s = "upload" => tries[t] <= 1,
           clean'[t] /\ s \notin {"upload", "running"} =>
               /\ s \in {"exec", "verify"}
               /\ final[addr[t]].what = Own(t) /\ final[addr[t]].exec
    PROVE  DInv'
<1>1. DeployTypeOK /\ StagedAt(t) /\ CleanAt(t) /\ addr[t] \in Hosts /\ procOf' = procOf
      /\ UNCHANGED <<addr, pc>>
  BY DeployHasHost DEF DInv, sshVars, procOf, Idle
<1>2. stage'[t] = s /\ \A u \in Tasks \ {t} : stage'[u] = stage[u]
  BY <1>1 DEF DeployTypeOK
<1>3. /\ \A u \in Tasks \ {t} : ran'[u] = ran[u] /\ clean'[u] = clean[u]
      /\ ran'[t] = "part" => addr[t] \in mixed
      /\ clean'[t] => clean[t]
  BY <1>1 DEF DeployTypeOK, StagedAt
<1>4. DeployTypeOK'
  <2>1. stage' \in [Tasks -> Stage]
    BY <1>1 DEF DeployTypeOK
  <2>2. ran' \in [Tasks -> Bytes]
    BY <1>1 DEF DeployTypeOK
  <2>3. clean' \in [Tasks -> BOOLEAN]
    BY <1>1 DEF DeployTypeOK
  <2>4. QED
    BY <1>1, <2>1, <2>2, <2>3 DEF DeployTypeOK
<1>5. Apart(t, addr[t])
  BY <1>1, <1>2, <1>3 DEF Apart, Touched
<1>6. cmd[t] = NoCommand
  BY <1>1 DEF StagedAt, NoCommand
<1>7. StagedAt(t)'
  <2>1. stage[t] # "none" /\ stage[t] # "command"
    BY DEF Idle
  <2>2. QED
    BY <1>1, <1>2, <1>3, <1>6, <2>1 DEF StagedAt, NoCommand
<1>8. CleanAt(t)'
  <2>1. SUFFICES ASSUME clean'[t]
                 PROVE  /\ s # "failed"
                        /\ s \notin Idle => ~Busy(t, addr[t])' /\ OnItsWay(t)'
    BY <1>2 DEF CleanAt
  <2>2. s # "failed"
    BY <2>1
  <2>3. Busy(t, addr[t]) = Busy(t, addr[t])'
    BY <1>1, <1>2 DEF Busy
  <2>4. ~Busy(t, addr[t])
    BY <1>1, <1>3, <2>1 DEF CleanAt
  <2>5. s \notin Idle => OnItsWay(t)'
    BY <1>1, <1>2, <1>6, <2>1 DEF OnItsWay, NoCommand, Idle, Own
  <2>6. QED
    BY <2>2, <2>3, <2>4, <2>5
<1>9. HostSoundAt(addr[t])'
  BY <1>1, FilesAlone
<1>10. QED
  BY <1>1, <1>4, <1>5, <1>7, <1>8, <1>9, WorkStep

\* The agent of a process is a whole one.
LEMMA OwnIsWhole ==
    ASSUME DInv, NEW t \in Tasks
    PROVE  Own(t) \in Bytes /\ Own(t) # None /\ Own(t) # "part"
<1>1. procOf[t] \in Procs
  BY DEF DInv, DeployTypeOK
<1>2. QED
  BY <1>1, DeployConstants DEF Own, Bytes

LEMMA InspectDInv ==
    ASSUME SInv, DInv, NEW t \in Tasks, Inspect(t)
    PROVE  DInv'
<1>1. PICK s \in {"exec", "upload"} :
          stage' = [stage EXCEPT ![t] = s] /\ (s = "exec" => final[addr[t]].what = Own(t))
  BY DEF Inspect, Goes, Cached
<1>2. /\ stage[t] = "inspect" /\ UNCHANGED <<sshVars, tries, cmd, left, final, tmp, mixed>>
      /\ ran' = ran /\ clean' = clean
  BY DEF Inspect
<1>3. tries[t] = 0
  BY <1>2 DEF DInv, StagedAt
<1>4. clean'[t] /\ s = "exec" => final[addr[t]].exec
  <2>1. clean[t] /\ s = "exec" => OnItsWay(t)
    BY <1>2 DEF DInv, CleanAt, Idle
  <2>2. QED
    BY <1>1, <1>2, <2>1, OwnIsWhole DEF OnItsWay, IsWhole
<1>5. s \in Stage /\ stage[t] \notin Idle \cup {"command"} /\ s # "command" /\ s # "none"
      /\ s # "inspect" /\ (s = "upload" => tries[t] <= 1)
  BY <1>2, <1>3 DEF Stage, Idle
<1>6. QED
  BY <1>1, <1>2, <1>4, <1>5, QuietStep

LEMMA VerifyDInv ==
    ASSUME SInv, DInv, NEW t \in Tasks, Verify(t)
    PROVE  DInv'
<1>1. PICK s \in {"exec", "upload", "failed"} :
          /\ stage' = [stage EXCEPT ![t] = s]
          /\ s = "exec" <=> final[addr[t]].what = Own(t)
          /\ s = "upload" => tries[t] = 1
  BY DEF Verify, Goes, Verified
<1>2. /\ stage[t] = "verify" /\ UNCHANGED <<sshVars, tries, cmd, left, final, tmp, mixed>>
      /\ ran' = ran /\ clean' = clean
  BY DEF Verify
<1>3. clean'[t] => final[addr[t]].what = Own(t) /\ final[addr[t]].exec
  <2>1. clean[t] => OnItsWay(t)
    BY <1>2 DEF DInv, CleanAt, Idle
  <2>2. QED
    BY <1>2, <2>1 DEF OnItsWay
<1>4. s \in Stage /\ stage[t] \notin Idle \cup {"command"} /\ s # "command" /\ s # "none"
      /\ s # "inspect" /\ (s = "upload" => tries[t] <= 1)
  BY <1>1, <1>2 DEF Stage, Idle
<1>5. QED
  BY <1>1, <1>2, <1>3, <1>4, QuietStep

\* What the host executes is what it has at the path, and that is not half an agent.
LEMMA ExecDInv ==
    ASSUME SInv, DInv, NEW t \in Tasks, Exec(t)
    PROVE  DInv'
<1> DEFINE f == final[addr[t]]
<1>1. PICK s \in {"running", "failed"} :
          /\ stage' = [stage EXCEPT ![t] = s]
          /\ clean' = clean \/ clean' = [clean EXCEPT ![t] = FALSE]
          /\ clean'[t] /\ s = "failed" => ~(f.exec /\ IsWhole(f))
  BY DEF Exec, Goes, DInv, DeployTypeOK
<1>2. /\ stage[t] = "exec" /\ UNCHANGED <<sshVars, tries, cmd, left, final, tmp, mixed>>
      /\ ran' = [ran EXCEPT ![t] = IF f.exec THEN f.what ELSE None]
  BY DEF Exec
<1>3. PICK b : b = IF f.exec THEN f.what ELSE None
  OBVIOUS
<1>4. addr[t] \in Hosts
  BY <1>2, DeployHasHost
<1>5. b \in Bytes /\ (b = "part" => addr[t] \in mixed)
  <2>1. f \in File
    BY <1>4 DEF DInv, DeployTypeOK
  <2>2. f.what # "part" \/ addr[t] \in mixed
    BY <1>4 DEF DInv, HostSoundAt
  <2>3. f.what \in Bytes /\ None \in Bytes /\ None # "part"
    BY <2>1, DeployConstants DEF File, Bytes
  <2>4. QED
    BY <1>3, <2>2, <2>3
<1>6. clean'[t] => s = "running"
  <2>1. clean'[t] => clean[t]
    BY <1>1 DEF DInv, DeployTypeOK
  <2>2. clean[t] => OnItsWay(t)
    BY <1>2 DEF DInv, CleanAt, Idle
  <2>3. clean'[t] => f.exec /\ f.what = Own(t)
    BY <1>2, <2>1, <2>2 DEF OnItsWay
  <2>4. QED
    BY <1>1, <2>3, OwnIsWhole DEF IsWhole
<1>7. s \in Stage /\ stage[t] \notin Idle \cup {"command"} /\ s # "command" /\ s # "none"
      /\ s # "inspect" /\ s # "upload"
  BY <1>2 DEF Stage, Idle
<1>8. ran' = [ran EXCEPT ![t] = b]
  BY <1>2, <1>3
<1> HIDE DEF f
<1>9. QED
  BY <1>1, <1>2, <1>5, <1>6, <1>7, <1>8, QuietStep

\* A deploy begins, and what it undoes of the claims of others it says itself.
LEMMA DetectDInv ==
    ASSUME SInv, DInv, NEW t \in Tasks, Detect(t)
    PROVE  DInv'
<1>1. PICK s \in {"inspect", "failed"} :
          /\ stage' = [stage EXCEPT ![t] = s]
          /\ clean' = [u \in Tasks |->
                          IF u = t THEN s = "inspect" /\ ~Busy(t, addr[t])
                                        /\ (IsWhole(final[addr[t]]) => final[addr[t]].exec)
                          ELSE clean[u] /\ addr[u] # addr[t]]
  BY DEF Detect, Goes
<1>2. /\ stage[t] = "none" /\ pc[t] = "up"
      /\ tries' = [tries EXCEPT ![t] = 0] /\ ran' = [ran EXCEPT ![t] = None]
      /\ UNCHANGED <<sshVars, cmd, left, final, tmp, mixed>>
  BY DEF Detect
<1>3. DeployTypeOK /\ StagedAt(t) /\ addr[t] \in Hosts /\ procOf' = procOf
      /\ UNCHANGED <<addr, pc>>
  BY <1>2 DEF DInv, SInv, Addressed, sshVars, procOf
<1>4. /\ clean'[t] => /\ s = "inspect" /\ ~Busy(t, addr[t])
                      /\ (IsWhole(final[addr[t]]) => final[addr[t]].exec)
      /\ \A u \in Tasks \ {t} : clean'[u] => clean[u] /\ addr[u] # addr[t]
  BY <1>1
<1>5. /\ stage'[t] = s /\ tries'[t] = 0 /\ ran'[t] = None
      /\ \A u \in Tasks \ {t} :
            stage'[u] = stage[u] /\ tries'[u] = tries[u] /\ ran'[u] = ran[u]
  BY <1>1, <1>2, <1>3 DEF DeployTypeOK
<1>6. DeployTypeOK'
  <2>1. clean' \in [Tasks -> BOOLEAN]
    <3>1. \A u \in Tasks : clean[u] \in BOOLEAN
      BY <1>3 DEF DeployTypeOK
    <3>2. \A u \in Tasks : clean'[u] \in BOOLEAN
      BY <1>1, <3>1
    <3>3. QED
      BY <1>1, <3>2
  <2>2. stage' \in [Tasks -> Stage]
    BY <1>1, <1>3 DEF DeployTypeOK, Stage
  <2>3. ran' \in [Tasks -> Bytes] /\ tries' \in [Tasks -> 0 .. 2]
    BY <1>2, <1>3 DEF DeployTypeOK, Bytes
  <2>4. QED
    BY <1>2, <1>3, <2>1, <2>2, <2>3 DEF DeployTypeOK
<1>7. Apart(t, addr[t])
  BY <1>2, <1>3, <1>4, <1>5 DEF Apart, Touched
<1>8. cmd[t] = NoCommand
  BY <1>2, <1>3 DEF StagedAt, NoCommand
<1>9. StagedAt(t)'
  BY <1>2, <1>3, <1>5, <1>8, DeployConstants DEF StagedAt, NoCommand
<1>10. CleanAt(t)'
  <2>1. SUFFICES ASSUME clean'[t]
                 PROVE  stage'[t] # "failed" /\ ~Busy(t, addr[t])' /\ OnItsWay(t)'
    BY DEF CleanAt
  <2>2. ~Busy(t, addr[t])'
    BY <1>2, <1>3, <1>4, <1>5, <2>1 DEF Busy
  <2>3. OnItsWay(t)'
    BY <1>2, <1>3, <1>4, <1>5, <1>8, <2>1 DEF OnItsWay, NoCommand, IsWhole
  <2>4. QED
    BY <1>4, <1>5, <2>1, <2>2, <2>3
<1>11. HostSoundAt(addr[t])'
  BY <1>2, <1>3, FilesAlone
<1>12. ASSUME NEW u \in Tasks \ {t}, clean'[u], stage[u] \notin Idle
       PROVE  addr[u] \in Hosts \ {addr[t]}
  BY <1>4, <1>12, DeployHasHost DEF Idle
<1>13. QED
  BY <1>3, <1>6, <1>7, <1>9, <1>10, <1>11, <1>12, DeployStep

\* The connections: who is dialled, by a task that is not deploying, and the rest.
LEMMA ProcsStay ==
    ASSUME SInv, \/ EditConfig
                 \/ \E h \in Hosts : Rekey(h)
                 \/ \E a \in DOMAIN HostList : ForgetReads(a)
                 \/ \E t \in Tasks : Dial(t)
                 \/ UNCHANGED scenario
    PROVE  procOf' = procOf
<1>1. scenario \in Scenario
  BY DEF SInv, SshTypeOK
<1>2. CASE EditConfig
  BY <1>1, <1>2 DEF EditConfig, Scenario, procOf
<1>3. CASE \E h \in Hosts : Rekey(h)
  BY <1>1, <1>3 DEF Rekey, Scenario, procOf
<1>4. CASE \E a \in DOMAIN HostList : ForgetReads(a)
  BY <1>1, <1>4 DEF ForgetReads, Scenario, procOf
<1>5. CASE \E t \in Tasks : Dial(t)
  BY <1>1, <1>5 DEF Dial, Scenario, procOf
<1>6. QED
  BY <1>2, <1>3, <1>4, <1>5 DEF procOf

\* The state of the deploys is nobody else's.
LEMMA AsideStep ==
    ASSUME SInv, DInv, procOf' = procOf, UNCHANGED deployVars, NEW t \in Tasks,
           \A u \in Tasks \ {t} : addr'[u] = addr[u] /\ pc'[u] = pc[u],
           stage[t] # "none" => addr'[t] = addr[t] /\ pc'[t] = pc[t]
    PROVE  DInv'
<1>1. UNCHANGED <<stage, tries, cmd, left, final, tmp, ran, mixed, clean>>
  BY DEF deployVars
<1>2. DeployTypeOK' /\ StagedAt(t) /\ CleanAt(t)
  BY <1>1 DEF DInv, DeployTypeOK
<1>3. Apart(t, NoHost)
  BY <1>1 DEF Apart, Touched, Idle
<1>4. stage[t] = "none" => cmd[t] = NoCommand /\ ran[t] = None
  BY <1>2 DEF StagedAt, NoCommand
<1>5. StagedAt(t)'
  BY <1>1, <1>2, <1>4, DeployConstants DEF StagedAt, NoCommand
<1>6. CleanAt(t)'
  <2>1. SUFFICES ASSUME clean[t], stage[t] \notin Idle
                 PROVE  ~Busy(t, addr[t])' /\ OnItsWay(t)'
    BY <1>1, <1>2 DEF CleanAt
  <2>2. addr'[t] = addr[t]
    BY <2>1 DEF Idle
  <2>3. QED
    BY <1>1, <1>2, <2>1, <2>2 DEF CleanAt, Busy, OnItsWay, Own
<1>7. \A u \in Tasks \ {t} : stage[u] \notin Idle => addr[u] \in Hosts \ {NoHost}
  BY DeployHasHost, SshConstants DEF Idle
<1>8. QED
  BY <1>2, <1>3, <1>5, <1>6, <1>7, SshConstants, DeployStep

LEMMA SshStepDInv ==
    ASSUME SInv, DInv, NEW t \in Tasks, SshStep(t), UNCHANGED deployVars
    PROVE  DInv'
<1>1. pc[t] # "up"
  BY DEF SshStep, Dial, Check, Trust, Authenticate
<1>2. stage[t] = "none"
  BY <1>1 DEF DInv, StagedAt
<1>3. procOf' = procOf
  BY ProcsStay DEF SshStep, Check, Trust, Authenticate, At
<1>4. \A u \in Tasks \ {t} : addr'[u] = addr[u] /\ pc'[u] = pc[u]
  BY DEF SInv, SshTypeOK, SshStep, Dial, Check, Trust, Authenticate, At
<1>5. QED
  BY <1>2, <1>3, <1>4, AsideStep

\* What changes neither a session nor a deploy.
LEMMA WorldDInv ==
    ASSUME SInv, DInv, procOf' = procOf, UNCHANGED <<addr, pc>>, UNCHANGED deployVars
    PROVE  DInv'
<1>1. CASE Tasks # {}
  <2>1. PICK t \in Tasks : TRUE
    BY <1>1
  <2>2. QED
    BY AsideStep
<1>2. CASE Tasks = {}
  <2>1. DeployTypeOK'
    BY DEF deployVars, DInv, DeployTypeOK
  <2>2. \A h \in Hosts : HostSoundAt(h)'
    BY FilesAlone DEF deployVars
  <2>3. QED
    BY <1>2, <2>1, <2>2 DEF DInv
<1>3. QED
  BY <1>1, <1>2

\* A session ends: its deploy is forgotten.
LEMMA ForgottenStep ==
    ASSUME DInv, NEW t \in Tasks, Forgotten(t)
    PROVE  /\ stage'[t] = "none" /\ tries'[t] = 0 /\ ran'[t] = None /\ ~clean'[t]
           /\ \A u \in Tasks \ {t} : /\ stage'[u] = stage[u] /\ tries'[u] = tries[u]
                                     /\ ran'[u] = ran[u] /\ clean'[u] = clean[u]
           /\ stage' \in [Tasks -> Stage] /\ tries' \in [Tasks -> 0 .. 2]
           /\ ran' \in [Tasks -> Bytes] /\ clean' \in [Tasks -> BOOLEAN]
<1>1. DeployTypeOK
  BY DEF DInv
<1>2. stage' = [stage EXCEPT ![t] = "none"] /\ tries' = [tries EXCEPT ![t] = 0]
      /\ ran' = [ran EXCEPT ![t] = None] /\ clean' = [clean EXCEPT ![t] = FALSE]
  BY DEF Forgotten, Goes
<1>3. "none" \in Stage /\ None \in Bytes /\ 0 \in 0 .. 2
  BY DEF Stage, Bytes
<1>4. QED
  BY <1>1, <1>2, <1>3 DEF DeployTypeOK

LEMMA EndsDInv ==
    ASSUME SInv, DInv, NEW t \in Tasks, Ends(t)
    PROVE  DInv'
<1>1. /\ Forgotten(t) /\ stage[t] \in Idle /\ UNCHANGED <<cmd, left, final, tmp, mixed>>
      /\ pc' = [pc EXCEPT ![t] = "idle"] /\ UNCHANGED scenario
      /\ addr' = [addr EXCEPT ![t] = NoHost] \/ UNCHANGED addr
  BY DEF Ends, Hangup, At
<1>2. procOf' = procOf /\ DeployTypeOK /\ StagedAt(t)
  BY <1>1 DEF procOf, DInv
<1>3. \A u \in Tasks \ {t} : addr'[u] = addr[u] /\ pc'[u] = pc[u]
  BY <1>1 DEF SInv, SshTypeOK
<1>4. DeployTypeOK'
  BY <1>1, <1>2, ForgottenStep DEF DeployTypeOK
<1>5. Apart(t, NoHost)
  <2>1. stage'[t] \in Idle
    BY <1>1, ForgottenStep DEF Idle
  <2>2. QED
    BY <1>1, <1>2, <1>3, <2>1, ForgottenStep DEF Apart, Touched
<1>6. cmd[t] = NoCommand
  BY <1>1, <1>2 DEF StagedAt, NoCommand, Idle
<1>7. StagedAt(t)'
  BY <1>1, <1>2, <1>6, ForgottenStep, DeployConstants DEF StagedAt, NoCommand
<1>8. CleanAt(t)'
  BY <1>1, ForgottenStep DEF CleanAt
<1>9. \A u \in Tasks \ {t} : stage[u] \notin Idle => addr[u] \in Hosts \ {NoHost}
  BY DeployHasHost, SshConstants DEF Idle
<1>10. QED
  BY <1>4, <1>5, <1>7, <1>8, <1>9, SshConstants, DeployStep

-----------------------------------------------------------------------------
(* The host's files.                                                       *)

LEMMA TmpStep ==
    ASSUME DInv, NEW h \in Hosts, NEW p \in Procs, NEW f \in File,
           tmp' = [tmp EXCEPT ![h][p] = f]
    PROVE  /\ tmp' \in [Hosts -> [Procs -> File]]
           /\ tmp'[h][p] = f
           /\ \A q \in Procs \ {p} : tmp'[h][q] = tmp[h][q]
           /\ \A g \in Hosts \ {h} : tmp'[g] = tmp[g]
<1>1. tmp \in [Hosts -> [Procs -> File]]
  BY DEF DInv, DeployTypeOK
<1>2. PICK F : F = [tmp[h] EXCEPT ![p] = f]
  OBVIOUS
<1>3. F \in [Procs -> File] /\ F[p] = f /\ \A q \in Procs \ {p} : F[q] = tmp[h][q]
  BY <1>1, <1>2
<1>4. tmp' = [tmp EXCEPT ![h] = F]
  BY <1>2
<1>5. QED
  BY <1>1, <1>3, <1>4

LEMMA TmpWritten ==
    ASSUME DInv, NEW h \in Hosts, NEW p \in Procs, NEW b \in Bytes,
           tmp' = [tmp EXCEPT ![h][p].what = b]
    PROVE  /\ tmp' \in [Hosts -> [Procs -> File]]
           /\ tmp'[h][p].what = b
           /\ \A q \in Procs \ {p} : tmp'[h][q] = tmp[h][q]
           /\ \A g \in Hosts \ {h} : tmp'[g] = tmp[g]
<1>1. PICK f : f = [tmp[h][p] EXCEPT !.what = b]
  OBVIOUS
<1>2. tmp[h][p] \in File
  BY DEF DInv, DeployTypeOK
<1>3. f \in File /\ f.what = b
  BY <1>1, <1>2 DEF File
<1>4. tmp' = [tmp EXCEPT ![h][p] = f]
  BY <1>1
<1>5. f \in File /\ tmp' = [tmp EXCEPT ![h][p] = f] =>
        /\ tmp' \in [Hosts -> [Procs -> File]]
        /\ tmp'[h][p] = f
        /\ \A q \in Procs \ {p} : tmp'[h][q] = tmp[h][q]
        /\ \A g \in Hosts \ {h} : tmp'[g] = tmp[g]
  BY TmpStep
<1>6. QED
  BY <1>3, <1>4, <1>5

LEMMA FinalStep ==
    ASSUME DInv, NEW h \in Hosts, NEW f \in File, final' = [final EXCEPT ![h] = f]
    PROVE  /\ final' \in [Hosts -> File] /\ final'[h] = f
           /\ \A g \in Hosts \ {h} : final'[g] = final[g]
  BY DEF DInv, DeployTypeOK

LEMMA FinalWritten ==
    ASSUME DInv, NEW h \in Hosts, NEW b \in Bytes, final' = [final EXCEPT ![h].what = b]
    PROVE  /\ final' \in [Hosts -> File] /\ final'[h].what = b
           /\ \A g \in Hosts \ {h} : final'[g] = final[g]
<1>1. PICK f : f = [final[h] EXCEPT !.what = b]
  OBVIOUS
<1>2. final[h] \in File
  BY DEF DInv, DeployTypeOK
<1>3. f \in File /\ f.what = b
  BY <1>1, <1>2 DEF File
<1>4. final' = [final EXCEPT ![h] = f]
  BY <1>1
<1>5. QED
  BY <1>3, <1>4, FinalStep

LEMMA MadeExecutableStep ==
    ASSUME DInv, NEW h \in Hosts, MadeExecutable(h)
    PROVE  /\ final' \in [Hosts -> File] /\ UNCHANGED tmp
           /\ final'[h].what = final[h].what /\ final'[h].exec
           /\ \A g \in Hosts \ {h} : final'[g] = final[g]
<1>1. PICK f : f = [final[h] EXCEPT !.exec = TRUE]
  OBVIOUS
<1>2. final[h] \in File
  BY DEF DInv, DeployTypeOK
<1>3. f \in File /\ f.what = final[h].what /\ f.exec
  BY <1>1, <1>2 DEF File
<1>4. final' = [final EXCEPT ![h] = f] /\ UNCHANGED tmp
  BY <1>1 DEF MadeExecutable
<1>5. QED
  BY <1>3, <1>4, FinalStep

\* The last byte of a cat: only its own process's tmp, or the path, becomes whole.
LEMMA WrittenStep ==
    ASSUME DInv, NEW t \in Tasks, NEW c \in Command, c.host \in Hosts, Written(c, t)
    PROVE  /\ final' \in [Hosts -> File] /\ tmp' \in [Hosts -> [Procs -> File]]
           /\ \A g \in Hosts \ {c.host} : final'[g] = final[g] /\ tmp'[g] = tmp[g]
           /\ \A q \in Procs \ {procOf[t]} : tmp'[c.host][q] = tmp[c.host][q]
           /\ final'[c.host].what \in {final[c.host].what, Own(t)}
           /\ c.fresh /\ c.loc = "tmp" => /\ UNCHANGED final
                                          /\ tmp'[c.host][procOf[t]].what = Own(t)
<1>1. /\ final \in [Hosts -> File] /\ tmp \in [Hosts -> [Procs -> File]]
      /\ procOf[t] \in Procs /\ Own(t) \in Bytes
  BY OwnIsWhole DEF DInv, DeployTypeOK
<1>2. CASE c.fresh /\ c.loc = "tmp"
  <2>1. tmp' = [tmp EXCEPT ![c.host][procOf[t]].what = Own(t)] /\ UNCHANGED final
    BY <1>2 DEF Written, Suffix
  <2>2. PICK h \in Hosts, p \in Procs, b \in Bytes : h = c.host /\ p = procOf[t] /\ b = Own(t)
    BY <1>1
  <2>3. tmp' = [tmp EXCEPT ![h][p].what = b]
    BY <2>1, <2>2
  <2>4. /\ tmp' \in [Hosts -> [Procs -> File]]
        /\ tmp'[h][p].what = b
        /\ \A q \in Procs \ {p} : tmp'[h][q] = tmp[h][q]
        /\ \A g \in Hosts \ {h} : tmp'[g] = tmp[g]
    BY <2>3, TmpWritten
  <2>5. QED
    BY <1>1, <1>2, <2>1, <2>2, <2>4
<1>3. CASE c.fresh /\ c.loc = "final"
  <2>1. final' = [final EXCEPT ![c.host].what = Own(t)] /\ UNCHANGED tmp
    BY <1>3 DEF Written
  <2>2. QED
    BY <1>1, <1>3, <2>1, FinalWritten
<1>4. CASE ~(c.fresh /\ c.loc \in {"tmp", "final"})
  BY <1>1, <1>4 DEF Written
<1>5. QED
  BY <1>2, <1>3, <1>4

\* Where the writers stand after a rename or an unlink of process p's tmp.
LEMMA MovedStep ==
    ASSUME NEW C \in [Tasks -> Command], NEW h \in Hosts, NEW p, NEW to \in {"final", "gone"}
    PROVE  /\ Moved(C, h, p, "tmp", to) \in [Tasks -> Command]
           /\ \A u \in Tasks :
                 /\ Touched(C[u], Moved(C, h, p, "tmp", to)[u], h)
                 /\ (C[u].is = "cat" /\ C[u].host = h =>
                        C[u].loc = "gone" \/ (C[u].loc = "tmp" /\ procOf[u] # p)) =>
                       Moved(C, h, p, "tmp", to)[u] = C[u]
<1>1. PICK M : M = Moved(C, h, p, "tmp", to)
  OBVIOUS
<1>2. ASSUME NEW u \in Tasks
      PROVE  /\ M[u] \in Command /\ Touched(C[u], M[u], h)
             /\ (C[u].is = "cat" /\ C[u].host = h =>
                    C[u].loc = "gone" \/ (C[u].loc = "tmp" /\ procOf[u] # p)) => M[u] = C[u]
  <2>1. C[u] \in Command
    OBVIOUS
  <2>2. CASE M[u] = C[u]
    BY <2>1, <2>2 DEF Touched
  <2>3. CASE M[u] # C[u]
    <3>1. C[u].is = "cat" /\ C[u].host = h
      BY <1>1, <2>3 DEF Moved
    <3>2. PICK l \in {"gone", to} : M[u] = [C[u] EXCEPT !.loc = l]
      BY <1>1, <2>3 DEF Moved
    <3>3. M[u] \in Command /\ M[u].is = C[u].is /\ M[u].host = C[u].host
      BY <2>1, <3>2 DEF Command
    <3>4. ~(C[u].loc = "gone" \/ (C[u].loc = "tmp" /\ procOf[u] # p))
      BY <1>1, <2>3 DEF Moved, Suffix
    <3>5. QED
      BY <3>1, <3>3, <3>4 DEF Touched
  <2>4. QED
    BY <2>2, <2>3
<1>3. M \in [Tasks -> Command]
  BY <1>1, <1>2 DEF Moved
<1>4. QED
  BY <1>1, <1>2, <1>3

\* What the writers know of process p's tmp after another truncated it.
LEMMA TruncatedStep ==
    ASSUME NEW C \in [Tasks -> Command], NEW h \in Hosts, NEW p,
           \A u \in Tasks : C[u] = NoCommand \/ C[u].is # "none"
    PROVE  /\ Truncated(C, h, p) \in [Tasks -> Command]
           /\ \A u \in Tasks :
                 /\ Touched(C[u], Truncated(C, h, p)[u], h)
                 /\ Truncated(C, h, p)[u].is = C[u].is
                 /\ Truncated(C, h, p)[u].host = C[u].host
                 /\ procOf[u] # p => Truncated(C, h, p)[u] = C[u]
<1>1. PICK M : M = Truncated(C, h, p)
  OBVIOUS
<1>2. ASSUME NEW u \in Tasks
      PROVE  /\ M[u] \in Command /\ Touched(C[u], M[u], h)
             /\ M[u].is = C[u].is /\ M[u].host = C[u].host
             /\ procOf[u] # p => M[u] = C[u]
  <2>1. C[u] \in Command
    OBVIOUS
  <2>2. CASE M[u] = C[u]
    BY <2>1, <2>2 DEF Touched
  <2>3. CASE M[u] # C[u]
    <3>1. C[u].host = h /\ procOf[u] = p /\ M[u] = [C[u] EXCEPT !.fresh = FALSE]
      BY <1>1, <2>3 DEF Truncated, Suffix
    <3>2. M[u] \in Command /\ M[u].is = C[u].is /\ M[u].host = C[u].host
      BY <2>1, <3>1 DEF Command
    <3>3. C[u].is # "none"
      BY <3>1, SshConstants DEF NoCommand
    <3>4. QED
      BY <3>1, <3>2, <3>3 DEF Touched
  <2>4. QED
    BY <2>2, <2>3
<1>3. M \in [Tasks -> Command]
  BY <1>1, <1>2 DEF Truncated
<1>4. QED
  BY <1>1, <1>2, <1>3

-----------------------------------------------------------------------------
(* The commands of a deploy.                                               *)

\* A task with a command waits for it on the host it deploys to.
LEMMA AtCommand ==
    ASSUME SInv, DInv, NEW t \in Tasks, cmd[t].is # "none"
    PROVE  /\ stage[t] = "command" /\ addr[t] \in Hosts /\ cmd[t].host = addr[t]
           /\ procOf[t] \in Procs /\ cmd[t] \in Command /\ pc[t] = "up"
           /\ DeployTypeOK /\ StagedAt(t)
           /\ clean[t] => ~Busy(t, addr[t]) /\ OnItsWay(t)
<1>1. StagedAt(t) /\ DeployTypeOK /\ CleanAt(t)
  BY DEF DInv
<1>2. stage[t] = "command" /\ cmd[t].host = addr[t] /\ pc[t] = "up"
  BY <1>1 DEF StagedAt, NoCommand
<1>3. addr[t] \in Hosts
  BY <1>2, DeployHasHost
<1>4. QED
  BY <1>1, <1>2, <1>3 DEF DeployTypeOK, CleanAt, Idle

\* A step of the command of t's own deploy, whose next state is what follows.
LEMMA CommandStep ==
    ASSUME SInv, DInv, NEW t \in Tasks, NEW h \in Hosts, addr[t] = h,
           stage[t] \notin Idle, UNCHANGED <<sshVars, ran>>,
           NEW s \in Stage, s # "none", s # "inspect", s # "upload",
           stage' = [stage EXCEPT ![t] = s],
           DeployTypeOK', mixed \subseteq mixed',
           cmd'[t] = NoCommand \/ (cmd'[t].is # "none" /\ cmd'[t].host = h),
           cmd'[t].is # "none" <=> s = "command",
           Touched(left[t], left'[t], h),
           \A u \in Tasks \ {t} :
              /\ tries'[u] = tries[u] /\ clean'[u] = clean[u]
              /\ Touched(cmd[u], cmd'[u], h) /\ Touched(left[u], left'[u], h),
           \A g \in Hosts \ {h} : final'[g] = final[g] /\ tmp'[g] = tmp[g],
           clean'[t] => s # "failed" /\ clean[t],
           clean'[t] => OnItsWay(t)',
           h \notin mixed' => HostSoundAt(h)'
    PROVE  DInv'
<1>1. DeployTypeOK /\ StagedAt(t) /\ CleanAt(t) /\ procOf' = procOf /\ UNCHANGED <<addr, pc>>
  BY DEF DInv, sshVars, procOf
<1>2. stage'[t] = s /\ \A u \in Tasks \ {t} : stage'[u] = stage[u]
  BY <1>1 DEF DeployTypeOK
<1>3. left'[t] = left[t] \/ left'[t].host = h
  BY DEF Touched
<1>4. cmd'[t].host \in {h, NoHost}
  BY DEF NoCommand
<1>5. Apart(t, h)
  BY <1>1, <1>2, <1>3, <1>4 DEF Apart
<1>6. left'[t] = NoCommand \/ (left'[t].is # "none" /\ left'[t].host \in Hosts)
  BY <1>1 DEF StagedAt, Touched
<1>7. StagedAt(t)'
  BY <1>1, <1>2, <1>6 DEF StagedAt, Idle
<1>8. CleanAt(t)'
  <2>1. SUFFICES ASSUME clean'[t]
                 PROVE  s # "failed" /\ ~Busy(t, addr[t])' /\ OnItsWay(t)'
    BY <1>2 DEF CleanAt
  <2>2. ~Busy(t, addr[t])
    BY <1>1, <2>1 DEF CleanAt
  <2>3. \A u \in Tasks : left'[u].host = left[u].host
    BY DEF Touched
  <2>4. ~Busy(t, addr[t])'
    BY <1>1, <1>2, <2>2, <2>3 DEF Busy
  <2>5. QED
    BY <2>1, <2>4
<1>9. HostSoundAt(h)'
  BY DEF HostSoundAt
<1>10. QED
  BY <1>5, <1>7, <1>8, <1>9, WorkStep

\* A new upload overlaps another of its process, which is recorded, or is the only one.
LEMMA OpenTmpDInv ==
    ASSUME SInv, DInv, NEW t \in Tasks, OpenTmp(t)
    PROVE  DInv'
<1>1. PICK h, p : h = addr[t] /\ p = procOf[t]
  OBVIOUS
<1>2. PICK c : c = [is |-> "cat", host |-> h, loc |-> "tmp", fresh |-> TRUE]
  OBVIOUS
<1>3. PICK f : f = [what |-> "part", exec |-> FALSE]
  OBVIOUS
<1>4. PICK C, L : C = Truncated(cmd, h, p) /\ L = Truncated(left, h, p)
  OBVIOUS
<1>5. /\ stage[t] = "upload" /\ stage' = [stage EXCEPT ![t] = "command"]
      /\ tries' = [tries EXCEPT ![t] = @ + 1]
      /\ tmp' = [tmp EXCEPT ![h][p] = f]
      /\ cmd' = [C EXCEPT ![t] = c] /\ left' = L
      /\ UNCHANGED <<sshVars, final, ran, clean>>
  BY <1>1, <1>2, <1>3, <1>4 DEF OpenTmp, Goes, Suffix
<1>6. /\ mixed \subseteq mixed' /\ mixed' \subseteq mixed \cup {h}
      /\ h \notin mixed' =>
            \A u \in Tasks : procOf[u] = p =>
                (u # t => ~Uploads(cmd[u], h)) /\ ~Uploads(left[u], h)
  BY <1>1 DEF OpenTmp, Uploads
<1>7. DeployTypeOK /\ StagedAt(t) /\ CleanAt(t) /\ h \in Hosts /\ p \in Procs
      /\ procOf' = procOf
  BY <1>1, <1>5, DeployHasHost DEF DInv, DeployTypeOK, sshVars, procOf
<1>8. \A u \in Tasks : /\ cmd[u] = NoCommand \/ cmd[u].is # "none"
                       /\ left[u] = NoCommand \/ left[u].is # "none"
  BY DEF DInv, StagedAt
<1>9. /\ C \in [Tasks -> Command]
      /\ \A u \in Tasks : /\ Touched(cmd[u], C[u], h) /\ C[u].is = cmd[u].is
                          /\ C[u].host = cmd[u].host /\ (procOf[u] # p => C[u] = cmd[u])
  <2>1. cmd \in [Tasks -> Command] /\ \A u \in Tasks : cmd[u] = NoCommand \/ cmd[u].is # "none"
    BY <1>7, <1>8 DEF DeployTypeOK
  <2>2. QED
    BY <1>4, <1>7, <2>1, TruncatedStep
<1>10. /\ L \in [Tasks -> Command]
       /\ \A u \in Tasks : /\ Touched(left[u], L[u], h) /\ L[u].is = left[u].is
                           /\ L[u].host = left[u].host /\ (procOf[u] # p => L[u] = left[u])
  <2>1. left \in [Tasks -> Command] /\ \A u \in Tasks : left[u] = NoCommand \/ left[u].is # "none"
    BY <1>7, <1>8 DEF DeployTypeOK
  <2>2. QED
    BY <1>4, <1>7, <2>1, TruncatedStep
<1>11. c \in Command /\ f \in File
  BY <1>2, <1>3, <1>7 DEF Command, File, Bytes
<1>12. /\ tmp' \in [Hosts -> [Procs -> File]] /\ tmp'[h][p] = f
       /\ \A q \in Procs \ {p} : tmp'[h][q] = tmp[h][q]
       /\ \A g \in Hosts \ {h} : tmp'[g] = tmp[g]
  BY <1>5, <1>7, <1>11, TmpStep, ZenonT(60)
<1>13. /\ cmd' \in [Tasks -> Command] /\ cmd'[t] = c
       /\ \A u \in Tasks \ {t} : cmd'[u] = C[u]
  BY <1>5, <1>9, <1>11
<1>14. tries' \in [Tasks -> 0 .. 2] /\ \A u \in Tasks \ {t} : tries'[u] = tries[u]
  <2>1. tries \in [Tasks -> 0 .. 2] /\ tries[t] \in 0 .. 2 /\ tries[t] <= 1
    BY <1>5, <1>7 DEF StagedAt, DeployTypeOK
  <2>2. tries[t] + 1 \in 0 .. 2
    BY <2>1
  <2>3. QED
    BY <1>5, <2>1, <2>2
<1>15. stage' \in [Tasks -> Stage]
  BY <1>5, <1>7 DEF DeployTypeOK, Stage
<1>16. DeployTypeOK'
  BY <1>5, <1>6, <1>7, <1>10, <1>12, <1>13, <1>14, <1>15 DEF DeployTypeOK
<1>17. HostSoundAt(h)'
  <2>1. SUFFICES ASSUME h \notin mixed'
                 PROVE  /\ final'[h].what # "part"
                        /\ OneUpload(h)'
                        /\ \A u \in Tasks : Sound(cmd[u], u, h)' /\ Sound(left[u], u, h)'
    BY DEF HostSoundAt
  <2>2. /\ final[h].what # "part" /\ OneUpload(h)
        /\ \A u \in Tasks : Sound(cmd[u], u, h) /\ Sound(left[u], u, h)
    BY <1>6, <1>7, <2>1 DEF DInv, HostSoundAt
  <2>3. ASSUME NEW u \in Tasks
        PROVE  /\ u # t => (Uploads(cmd'[u], h) <=> Uploads(cmd[u], h))
               /\ Uploads(left'[u], h) <=> Uploads(left[u], h)
    BY <1>5, <1>9, <1>10, <1>13 DEF Uploads
  <2>4. OneUpload(h)'
    <3>1. SUFFICES ASSUME NEW u \in Tasks, NEW v \in Tasks, procOf[u] = procOf[v]
                   PROVE  /\ Uploads(cmd'[u], h) /\ Uploads(cmd'[v], h) => u = v
                          /\ Uploads(left'[u], h) /\ Uploads(left'[v], h) => u = v
                          /\ ~(Uploads(cmd'[u], h) /\ Uploads(left'[v], h))
      BY <1>7 DEF OneUpload, Uploads
    <3>2. CASE procOf[u] = p
      BY <1>1, <1>6, <2>1, <2>3, <3>1, <3>2
    <3>3. CASE procOf[u] # p
      BY <1>1, <2>2, <2>3, <3>1, <3>3 DEF OneUpload
    <3>4. QED
      BY <3>2, <3>3
  <2>5. ASSUME NEW u \in Tasks, procOf[u] # p
        PROVE  Sound(cmd[u], u, h)' /\ Sound(left[u], u, h)'
    <3>1. cmd'[u] = cmd[u] /\ left'[u] = left[u] /\ procOf[u] \in Procs
      BY <1>1, <1>5, <1>7, <1>9, <1>10, <1>13, <2>5 DEF DeployTypeOK
    <3>2. tmp'[h][procOf[u]] = tmp[h][procOf[u]]
      BY <1>12, <2>5, <3>1
    <3>3. QED
      BY <1>7, <2>2, <3>1, <3>2 DEF Sound
  <2>6. ASSUME NEW u \in Tasks, procOf[u] = p
        PROVE  Sound(cmd[u], u, h)' /\ Sound(left[u], u, h)'
    <3>1. ~Uploads(left'[u], h) /\ (u # t => ~Uploads(cmd'[u], h))
      BY <1>6, <2>1, <2>3, <2>6
    <3>2. Sound(left[u], u, h)' /\ (u # t => Sound(cmd[u], u, h)')
      BY <3>1 DEF Sound, Uploads
    <3>3. Sound(cmd[t], t, h)'
      BY <1>2, <1>13 DEF Sound
    <3>4. QED
      BY <3>2, <3>3
  <2>7. QED
    BY <1>5, <2>2, <2>4, <2>5, <2>6
<1>18. OnItsWay(t)'
  <2>1. stage'[t] = "command"
    BY <1>5, <1>7 DEF DeployTypeOK
  <2>2. QED
    BY <1>2, <1>13, <2>1 DEF OnItsWay
<1>19. /\ stage[t] \notin Idle /\ "command" \in Stage
       /\ cmd'[t].is # "none" /\ cmd'[t].host = h
  BY <1>2, <1>5, <1>13 DEF Idle, Stage
<1>20. \A u \in Tasks \ {t} : Touched(cmd[u], cmd'[u], h)
  BY <1>9, <1>13
<1>21. \A u \in Tasks : Touched(left[u], left'[u], h)
  BY <1>5, <1>10
<1>22. QED
  BY <1>1, <1>5, <1>6, <1>7, <1>12, <1>14, <1>16, <1>17, <1>18, <1>19, <1>20, <1>21,
     CommandStep

\* The only upload of a process on a host that is not mixed.
LEMMA UploadsAlone ==
    ASSUME DInv, NEW h \in Hosts, h \notin mixed, NEW t \in Tasks, NEW u \in Tasks
    PROVE  /\ final[h].what # "part"
           /\ Sound(cmd[u], u, h) /\ Sound(left[u], u, h)
           /\ Uploads(cmd[t], h) =>
                 /\ Uploads(cmd[u], h) /\ u # t => procOf[u] # procOf[t]
                 /\ Uploads(left[u], h) => procOf[u] # procOf[t]
           /\ Uploads(left[t], h) =>
                 /\ Uploads(left[u], h) /\ u # t => procOf[u] # procOf[t]
                 /\ Uploads(cmd[u], h) => procOf[u] # procOf[t]
  BY DEF DInv, HostSoundAt, OneUpload

\* A host stays sound when a step of process p's only upload starts none, and
\* writes to no other process's tmp.
LEMMA SoundAfter ==
    ASSUME DInv, NEW h \in Hosts, NEW p \in Procs, procOf' = procOf, mixed \subseteq mixed',
           final'[h].what # "part",
           \A q \in Procs \ {p} : tmp'[h][q] = tmp[h][q],
           \A u \in Tasks :
               /\ procOf[u] # p /\ Uploads(cmd'[u], h) => cmd'[u] = cmd[u]
               /\ procOf[u] # p /\ Uploads(left'[u], h) => left'[u] = left[u]
               /\ procOf[u] = p => Sound(cmd[u], u, h)' /\ Sound(left[u], u, h)',
           \A u, v \in Tasks : procOf[u] = p /\ procOf[v] = p =>
               /\ Uploads(cmd'[u], h) /\ Uploads(cmd'[v], h) => u = v
               /\ Uploads(left'[u], h) /\ Uploads(left'[v], h) => u = v
               /\ ~(Uploads(cmd'[u], h) /\ Uploads(left'[v], h))
    PROVE  HostSoundAt(h)'
<1> SUFFICES ASSUME h \notin mixed'
             PROVE  /\ final'[h].what # "part"
                    /\ OneUpload(h)'
                    /\ \A u \in Tasks : Sound(cmd[u], u, h)' /\ Sound(left[u], u, h)'
  BY DEF HostSoundAt
<1>1. /\ OneUpload(h)
      /\ \A u \in Tasks : Sound(cmd[u], u, h) /\ Sound(left[u], u, h)
  BY DEF DInv, HostSoundAt
<1>2. \A u \in Tasks : procOf[u] \in Procs
  BY DEF DInv, DeployTypeOK
<1>3. ASSUME NEW u \in Tasks, procOf[u] # p
      PROVE  Sound(cmd[u], u, h)' /\ Sound(left[u], u, h)'
  <2>1. tmp'[h][procOf[u]] = tmp[h][procOf[u]]
    BY <1>2, <1>3
  <2>2. Sound(cmd[u], u, h)'
    BY <1>1, <1>3, <2>1 DEF Sound, Uploads
  <2>3. Sound(left[u], u, h)'
    BY <1>1, <1>3, <2>1 DEF Sound, Uploads
  <2>4. QED
    BY <2>2, <2>3
<1>4. OneUpload(h)'
  <2>1. SUFFICES ASSUME NEW u \in Tasks, NEW v \in Tasks, procOf[u] = procOf[v]
                 PROVE  /\ Uploads(cmd'[u], h) /\ Uploads(cmd'[v], h) => u = v
                        /\ Uploads(left'[u], h) /\ Uploads(left'[v], h) => u = v
                        /\ ~(Uploads(cmd'[u], h) /\ Uploads(left'[v], h))
    BY DEF OneUpload, Uploads
  <2>2. CASE procOf[u] = p
    BY <2>1, <2>2
  <2>3. CASE procOf[u] # p
    <3>1. ASSUME NEW w \in Tasks, procOf[w] # p
          PROVE  /\ Uploads(cmd'[w], h) => Uploads(cmd[w], h)
                 /\ Uploads(left'[w], h) => Uploads(left[w], h)
      BY <3>1
    <3>2. QED
      BY <1>1, <2>1, <2>3, <3>1 DEF OneUpload
  <2>4. QED
    BY <2>2, <2>3
<1>5. QED
  BY <1>3, <1>4

\* The file of a cat is whole when it ends: nobody truncated it meanwhile.
LEMMA CatEndsDInv ==
    ASSUME SInv, DInv, NEW t \in Tasks, CatEnds(t)
    PROVE  DInv'
<1>1. PICK h, p : h = addr[t] /\ p = procOf[t]
  OBVIOUS
<1>2. PICK c : c = [is |-> "mv", host |-> h, loc |-> "none", fresh |-> FALSE]
  OBVIOUS
<1>3. /\ cmd[t].is = "cat" /\ Written(cmd[t], t) /\ cmd' = [cmd EXCEPT ![t] = c]
      /\ UNCHANGED <<sshVars, stage, tries, left, ran, mixed, clean>>
  BY <1>1, <1>2 DEF CatEnds, Waits
<1>4. /\ stage[t] = "command" /\ h \in Hosts /\ cmd[t].host = h /\ p \in Procs
      /\ cmd[t] \in Command /\ DeployTypeOK /\ (clean[t] => OnItsWay(t))
  BY <1>1, <1>3, AtCommand
<1>5. procOf' = procOf /\ c \in Command
  BY <1>2, <1>3, <1>4 DEF sshVars, procOf, Command
<1>6. /\ final' \in [Hosts -> File] /\ tmp' \in [Hosts -> [Procs -> File]]
      /\ \A g \in Hosts \ {h} : final'[g] = final[g] /\ tmp'[g] = tmp[g]
      /\ \A q \in Procs \ {p} : tmp'[h][q] = tmp[h][q]
      /\ final'[h].what \in {final[h].what, Own(t)}
      /\ cmd[t].fresh /\ cmd[t].loc = "tmp" => tmp'[h][p].what = Own(t)
  BY <1>1, <1>3, <1>4, WrittenStep
<1>7. cmd' \in [Tasks -> Command] /\ cmd'[t] = c /\ \A u \in Tasks \ {t} : cmd'[u] = cmd[u]
  BY <1>3, <1>4, <1>5 DEF DeployTypeOK
<1>8. DeployTypeOK'
  BY <1>3, <1>4, <1>5, <1>6, <1>7 DEF DeployTypeOK
<1>9. ASSUME h \notin mixed PROVE HostSoundAt(h)'
  <2>1. Uploads(cmd[t], h) /\ Uploads(cmd'[t], h)
    BY <1>2, <1>3, <1>4, <1>7 DEF Uploads
  <2>2. final'[h].what # "part"
    BY <1>4, <1>6, <1>9, OwnIsWhole, UploadsAlone
  <2>3. tmp'[h][p].what # "part"
    <3>1. CASE cmd[t].fresh /\ cmd[t].loc = "tmp"
      BY <1>4, <1>6, <3>1, OwnIsWhole
    <3>2. CASE cmd[t].loc = "gone" /\ tmp[h][p].what # "part"
      BY <1>3, <3>2 DEF Written
    <3>3. QED
      BY <1>1, <1>3, <1>4, <1>9, <3>1, <3>2, UploadsAlone DEF Sound
  <2>4. ASSUME NEW u \in Tasks, procOf[u] = p
        PROVE  /\ ~Uploads(left'[u], h) /\ (u # t => ~Uploads(cmd'[u], h))
               /\ Sound(cmd[u], u, h)' /\ Sound(left[u], u, h)'
    <3>1. ~Uploads(left'[u], h) /\ (u # t => ~Uploads(cmd'[u], h))
      BY <1>1, <1>3, <1>4, <1>7, <1>9, <2>1, <2>4, UploadsAlone
    <3>2. Sound(left[u], u, h)' /\ (u # t => Sound(cmd[u], u, h)')
      BY <3>1 DEF Sound, Uploads
    <3>3. Sound(cmd[t], t, h)'
      BY <1>1, <1>2, <1>5, <1>7, <2>3 DEF Sound
    <3>4. QED
      BY <3>1, <3>2, <3>3
  <2>5. \A u \in Tasks : /\ procOf[u] # p => cmd'[u] = cmd[u]
                         /\ left'[u] = left[u]
    BY <1>1, <1>3, <1>7
  <2>6. QED
    BY <1>3, <1>4, <1>5, <1>6, <2>2, <2>4, <2>5, SoundAfter
<1>10. ASSUME clean'[t] PROVE OnItsWay(t)'
  <2>1. tmp'[h][p].what = Own(t)
    BY <1>3, <1>4, <1>6, <1>10 DEF OnItsWay
  <2>2. addr'[t] = h /\ procOf'[t] = p /\ Own(t)' = Own(t) /\ stage'[t] = "command"
    BY <1>1, <1>3, <1>4, <1>5 DEF sshVars, Own
  <2>3. QED
    BY <1>2, <1>7, <2>1, <2>2 DEF OnItsWay
<1>11. /\ stage[t] \notin Idle /\ "command" \in Stage /\ stage' = [stage EXCEPT ![t] = "command"]
       /\ cmd'[t].is # "none" /\ cmd'[t].host = h
  BY <1>2, <1>3, <1>4, <1>7 DEF Idle, Stage, DeployTypeOK
<1>12. \A u \in Tasks : /\ Touched(left[u], left'[u], h)
                        /\ u # t => Touched(cmd[u], cmd'[u], h)
  BY <1>3, <1>7 DEF Touched
<1>13. /\ addr[t] = h /\ UNCHANGED <<sshVars, ran>> /\ mixed' = mixed
       /\ clean'[t] => clean[t]
       /\ \A u \in Tasks \ {t} : tries'[u] = tries[u] /\ clean'[u] = clean[u]
       /\ \A g \in Hosts \ {h} : final'[g] = final[g] /\ tmp'[g] = tmp[g]
  BY <1>1, <1>3, <1>6
<1>14. h \notin mixed' => HostSoundAt(h)'
  BY <1>9, <1>13
<1>15. QED
  BY <1>4, <1>8, <1>10, <1>11, <1>12, <1>13, <1>14, CommandStep, ZenonT(60)

\* Who writes to another process's tmp does so after a rename or an unlink too.
LEMMA MovedUploads ==
    ASSUME DInv, NEW h \in Hosts, h \notin mixed, NEW p, NEW to \in {"final", "gone"},
           NEW u \in Tasks, procOf[u] # p
    PROVE  /\ Uploads(Moved(cmd, h, p, "tmp", to)[u], h) =>
                 Moved(cmd, h, p, "tmp", to)[u] = cmd[u]
           /\ Uploads(Moved(left, h, p, "tmp", to)[u], h) =>
                 Moved(left, h, p, "tmp", to)[u] = left[u]
<1>1. Sound(cmd[u], u, h) /\ Sound(left[u], u, h)
  BY UploadsAlone
<1>2. cmd \in [Tasks -> Command] /\ left \in [Tasks -> Command]
  BY DEF DInv, DeployTypeOK
<1>3. ASSUME NEW C \in [Tasks -> Command], Sound(C[u], u, h)
      PROVE  Moved(C, h, p, "tmp", to)[u] = C[u]
  BY <1>3, MovedStep DEF Sound
<1>4. QED
  BY <1>1, <1>2, <1>3

\* An rm finds its process's tmp, if it is there; who writes to it goes on writing to a
\* file without a name.
LEMMA RemovedStep ==
    ASSUME DInv, NEW h \in Hosts, NEW p \in Procs, Removed(h, p)
    PROVE  /\ final' = final /\ tmp' \in [Hosts -> [Procs -> File]] /\ tmp'[h][p] = NoFile
           /\ \A q \in Procs \ {p} : tmp'[h][q] = tmp[h][q]
           /\ \A g \in Hosts \ {h} : tmp'[g] = tmp[g]
<1>1. PICK f \in File : f = NoFile
  BY DEF NoFile, File, Bytes
<1>2. tmp' = [tmp EXCEPT ![h][p] = f] /\ final' = final
  BY <1>1 DEF Removed
<1>3. DeployTypeOK
  BY DEF DInv
<1>4. /\ tmp' \in [Hosts -> [Procs -> File]] /\ tmp'[h][p] = f
      /\ \A q \in Procs \ {p} : tmp'[h][q] = tmp[h][q]
      /\ \A g \in Hosts \ {h} : tmp'[g] = tmp[g]
  BY <1>2, <1>3, TmpStep, ZenonT(60)
<1>5. QED
  BY <1>1, <1>2, <1>4

LEMMA MovedGone ==
    ASSUME NEW C \in [Tasks -> Command], NEW h \in Hosts, NEW u \in Tasks,
           C[u].is = "cat", C[u].host = h, C[u].loc \in {"tmp", "gone"}
    PROVE  Moved(C, h, procOf[u], "tmp", "gone")[u].loc = "gone"
<1>1. C[u] \in Command
  OBVIOUS
<1>2. CASE C[u].loc = "gone"
  BY <1>2 DEF Moved
<1>3. CASE C[u].loc = "tmp"
  <2>1. Moved(C, h, procOf[u], "tmp", "gone")[u] = [C[u] EXCEPT !.loc = "gone"]
    BY <1>3 DEF Moved, Suffix
  <2>2. QED
    BY <1>1, <2>1 DEF Command
<1>4. QED
  BY <1>2, <1>3

\* A host stays sound when a process's tmp is removed: what is being written to it comes
\* to nothing, and an mv that was to rename it will fail.
LEMMA RemovedSound ==
    ASSUME DInv, NEW h \in Hosts, h \notin mixed, NEW p \in Procs, Removed(h, p),
           procOf' = procOf, mixed' = mixed,
           NEW C, C = Moved(cmd, h, p, "tmp", "gone"),
           NEW L, L = Moved(left, h, p, "tmp", "gone"),
           \A u \in Tasks : /\ cmd'[u] = C[u] \/ cmd'[u] = NoCommand
                            /\ left'[u] = L[u] \/ left'[u] = NoCommand
    PROVE  HostSoundAt(h)'
<1>1. cmd \in [Tasks -> Command] /\ left \in [Tasks -> Command]
  BY DEF DInv, DeployTypeOK
<1>2. \A u \in Tasks : Touched(cmd[u], C[u], h) /\ Touched(left[u], L[u], h)
  BY <1>1, MovedStep
<1>3. \A u \in Tasks : /\ Uploads(cmd'[u], h) => cmd'[u] = C[u] /\ Uploads(cmd[u], h)
                       /\ Uploads(left'[u], h) => left'[u] = L[u] /\ Uploads(left[u], h)
  BY <1>2 DEF Uploads, Touched, NoCommand
<1>4. /\ final' = final /\ tmp'[h][p] = NoFile
      /\ \A q \in Procs \ {p} : tmp'[h][q] = tmp[h][q]
  BY RemovedStep
<1>5. final'[h].what # "part" /\ NoFile.what # "part"
  BY <1>4, DeployConstants DEF DInv, HostSoundAt, NoFile
<1>6. ASSUME NEW u \in Tasks, procOf[u] # p
      PROVE  /\ Uploads(cmd'[u], h) => cmd'[u] = cmd[u]
             /\ Uploads(left'[u], h) => left'[u] = left[u]
  BY <1>3, <1>6, MovedUploads
<1>7. ASSUME NEW u \in Tasks, procOf[u] = p
      PROVE  Sound(cmd[u], u, h)' /\ Sound(left[u], u, h)'
  <2>1. Sound(cmd[u], u, h) /\ Sound(left[u], u, h)
    BY UploadsAlone
  <2>2. ASSUME Uploads(cmd'[u], h), cmd'[u].is = "cat"
        PROVE  cmd'[u].loc = "gone"
    <3>1. cmd'[u] = C[u] /\ cmd[u].is = "cat" /\ cmd[u].host = h
      BY <1>2, <1>3, <2>2 DEF Uploads, Touched
    <3>2. cmd[u].loc \in {"tmp", "gone"}
      BY <2>1, <3>1 DEF Sound
    <3>3. QED
      BY <1>1, <1>7, <3>1, <3>2, MovedGone
  <2>3. ASSUME Uploads(left'[u], h), left'[u].is = "cat"
        PROVE  left'[u].loc = "gone"
    <3>1. left'[u] = L[u] /\ left[u].is = "cat" /\ left[u].host = h
      BY <1>2, <1>3, <2>3 DEF Uploads, Touched
    <3>2. left[u].loc \in {"tmp", "gone"}
      BY <2>1, <3>1 DEF Sound
    <3>3. QED
      BY <1>1, <1>7, <3>1, <3>2, MovedGone
  <2>4. tmp'[h][procOf'[u]].what # "part"
    BY <1>4, <1>5, <1>7
  <2>5. QED
    BY <2>2, <2>3, <2>4 DEF Sound, Uploads
<1>8. OneUpload(h)
  BY DEF DInv, HostSoundAt
<1>9. \A u, v \in Tasks : procOf[u] = p /\ procOf[v] = p =>
         /\ Uploads(cmd'[u], h) /\ Uploads(cmd'[v], h) => u = v
         /\ Uploads(left'[u], h) /\ Uploads(left'[v], h) => u = v
         /\ ~(Uploads(cmd'[u], h) /\ Uploads(left'[v], h))
  BY <1>3, <1>8 DEF OneUpload
<1>10. QED
  BY <1>4, <1>5, <1>6, <1>7, <1>9, SoundAfter

\* A cat that fails is followed by an rm, and spoils the deploy.
LEMMA CatFailsDInv ==
    ASSUME SInv, DInv, NEW t \in Tasks, CatFails(t)
    PROVE  DInv'
<1>1. PICK h, p : h = addr[t] /\ p = procOf[t]
  OBVIOUS
<1>2. PICK c : c = [is |-> "rm", host |-> h, loc |-> "none", fresh |-> FALSE]
  OBVIOUS
<1>3. /\ cmd[t].is = "cat" /\ cmd' = [cmd EXCEPT ![t] = c]
      /\ clean' = [clean EXCEPT ![t] = FALSE]
      /\ UNCHANGED <<sshVars, stage, tries, final, tmp, left, ran, mixed>>
  BY <1>1, <1>2 DEF CatFails, Waits
<1>4. /\ stage[t] = "command" /\ h \in Hosts /\ cmd[t].host = h /\ p \in Procs /\ DeployTypeOK
  BY <1>1, <1>3, AtCommand
<1>5. procOf' = procOf /\ c \in Command
  BY <1>2, <1>3, <1>4 DEF sshVars, procOf, Command
<1>6. /\ cmd' \in [Tasks -> Command] /\ cmd'[t] = c
      /\ \A u \in Tasks \ {t} : cmd'[u] = cmd[u]
  BY <1>3, <1>4, <1>5 DEF DeployTypeOK
<1>7. /\ clean' \in [Tasks -> BOOLEAN] /\ ~clean'[t]
      /\ \A u \in Tasks \ {t} : clean'[u] = clean[u]
  BY <1>3, <1>4 DEF DeployTypeOK
<1>8. DeployTypeOK'
  BY <1>3, <1>4, <1>5, <1>6, <1>7 DEF DeployTypeOK
<1>9. ASSUME h \notin mixed PROVE HostSoundAt(h)'
  <2>1. \A u \in Tasks :
          /\ final[h].what # "part" /\ Sound(cmd[u], u, h) /\ Sound(left[u], u, h)
    BY <1>4, <1>9, UploadsAlone
  <2>2. \A u \in Tasks : Uploads(cmd'[u], h) => cmd'[u] = cmd[u]
    BY <1>2, <1>6 DEF Uploads
  <2>3. OneUpload(h)
    BY <1>4, <1>9 DEF DInv, HostSoundAt
  <2>4. OneUpload(h)'
    BY <1>3, <1>5, <2>2, <2>3 DEF OneUpload
  <2>5. \A u \in Tasks : Sound(cmd[u], u, h)' /\ Sound(left[u], u, h)'
    BY <1>3, <1>5, <2>1, <2>2 DEF Sound, Uploads
  <2>6. QED
    BY <1>3, <2>1, <2>4, <2>5 DEF HostSoundAt
<1>10. /\ stage[t] \notin Idle /\ "command" \in Stage /\ stage' = [stage EXCEPT ![t] = "command"]
       /\ cmd'[t].is # "none" /\ cmd'[t].host = h
  BY <1>2, <1>3, <1>4, <1>6 DEF Idle, Stage, DeployTypeOK
<1>11. \A u \in Tasks : /\ Touched(left[u], left'[u], h)
                        /\ u # t => Touched(cmd[u], cmd'[u], h)
  BY <1>3, <1>6 DEF Touched
<1>12. /\ addr[t] = h /\ UNCHANGED <<sshVars, ran>> /\ mixed' = mixed
       /\ \A u \in Tasks \ {t} : tries'[u] = tries[u] /\ clean'[u] = clean[u]
       /\ \A g \in Hosts \ {h} : final'[g] = final[g] /\ tmp'[g] = tmp[g]
  BY <1>1, <1>3, <1>7
<1>13. h \notin mixed' => HostSoundAt(h)'
  BY <1>9, <1>12
<1>14. QED
  BY <1>4, <1>7, <1>8, <1>10, <1>11, <1>12, <1>13, CommandStep, ZenonT(60)

\* The rm ends, or not in time; so does the deploy, which was spoilt by then.
LEMMA RemoveDInv ==
    ASSUME SInv, DInv, NEW t \in Tasks, Remove(t)
    PROVE  DInv'
<1>1. PICK h, p : h = addr[t] /\ p = procOf[t]
  OBVIOUS
<1>2. PICK C, L : C = Moved(cmd, h, p, "tmp", "gone") /\ L = Moved(left, h, p, "tmp", "gone")
  OBVIOUS
<1>3. /\ cmd[t].is = "rm" /\ stage' = [stage EXCEPT ![t] = "failed"]
      /\ UNCHANGED <<sshVars, tries, ran, mixed, clean>>
      /\ \/ /\ Removed(h, p)
            /\ cmd' = [C EXCEPT ![t] = NoCommand] /\ left' = L
         \/ cmd' = [cmd EXCEPT ![t] = NoCommand] /\ UNCHANGED <<final, tmp, left>>
  BY <1>1, <1>2 DEF Remove, Goes, Waits, Suffix
<1>4. /\ stage[t] = "command" /\ h \in Hosts /\ cmd[t].host = h /\ p \in Procs /\ DeployTypeOK
      /\ addr[t] = h
  BY <1>1, <1>3, AtCommand
<1>5. ~clean[t]
  BY <1>3, <1>4 DEF DInv, CleanAt, OnItsWay, Idle
<1>6. procOf' = procOf /\ NoCommand \in Command /\ NoCommand.is = "none"
  BY <1>3 DEF sshVars, procOf, NoCommand, Command
<1>7. /\ C \in [Tasks -> Command] /\ L \in [Tasks -> Command]
      /\ \A u \in Tasks : Touched(cmd[u], C[u], h) /\ Touched(left[u], L[u], h)
  BY <1>2, <1>4, MovedStep DEF DeployTypeOK
<1>8. CASE Removed(h, p) /\ cmd' = [C EXCEPT ![t] = NoCommand] /\ left' = L
  <2>1. /\ cmd' \in [Tasks -> Command] /\ cmd'[t] = NoCommand
        /\ \A u \in Tasks \ {t} : cmd'[u] = C[u]
    BY <1>6, <1>7, <1>8
  <2>2. /\ final' = final /\ tmp' \in [Hosts -> [Procs -> File]]
        /\ \A g \in Hosts \ {h} : final'[g] = final[g] /\ tmp'[g] = tmp[g]
    BY <1>4, <1>8, RemovedStep
  <2>3. DeployTypeOK'
    BY <1>3, <1>4, <1>6, <1>7, <1>8, <2>1, <2>2 DEF DeployTypeOK, Stage
  <2>4. h \notin mixed' => HostSoundAt(h)'
    BY <1>2, <1>3, <1>4, <1>6, <1>8, <2>1, RemovedSound
  <2>5. \A u \in Tasks : /\ Touched(left[u], left'[u], h)
                         /\ u # t => Touched(cmd[u], cmd'[u], h)
    BY <1>7, <1>8, <2>1
  <2>6. stage[t] \notin Idle /\ "failed" \in Stage /\ mixed' = mixed /\ ~clean'[t]
        /\ UNCHANGED <<sshVars, ran>>
        /\ \A u \in Tasks \ {t} : tries'[u] = tries[u] /\ clean'[u] = clean[u]
    BY <1>3, <1>4, <1>5 DEF Idle, Stage
  <2>7. QED
    BY <1>3, <1>4, <1>6, <2>1, <2>2, <2>3, <2>4, <2>5, <2>6, CommandStep, ZenonT(60)
<1>9. CASE cmd' = [cmd EXCEPT ![t] = NoCommand] /\ UNCHANGED <<final, tmp, left>>
  <2>1. /\ cmd' \in [Tasks -> Command] /\ cmd'[t] = NoCommand
        /\ \A u \in Tasks \ {t} : cmd'[u] = cmd[u]
    BY <1>4, <1>6, <1>9 DEF DeployTypeOK
  <2>2. DeployTypeOK'
    BY <1>3, <1>4, <1>6, <1>9, <2>1 DEF DeployTypeOK, Stage
  <2>3. ASSUME h \notin mixed PROVE HostSoundAt(h)'
    <3>1. \A u \in Tasks :
            /\ final[h].what # "part" /\ Sound(cmd[u], u, h) /\ Sound(left[u], u, h)
      BY <1>4, <2>3, UploadsAlone
    <3>2. \A u \in Tasks : Uploads(cmd'[u], h) => cmd'[u] = cmd[u]
      BY <1>6, <2>1 DEF Uploads
    <3>3. OneUpload(h)
      BY <1>4, <2>3 DEF DInv, HostSoundAt
    <3>4. OneUpload(h)'
      BY <1>6, <1>9, <3>2, <3>3 DEF OneUpload
    <3>5. \A u \in Tasks : Sound(cmd[u], u, h)' /\ Sound(left[u], u, h)'
      BY <1>6, <1>9, <3>1, <3>2 DEF Sound, Uploads
    <3>6. QED
      BY <1>9, <3>1, <3>4, <3>5 DEF HostSoundAt
  <2>4. \A u \in Tasks : /\ Touched(left[u], left'[u], h)
                         /\ u # t => Touched(cmd[u], cmd'[u], h)
    BY <1>9, <2>1 DEF Touched
  <2>5. /\ stage[t] \notin Idle /\ "failed" \in Stage /\ mixed' = mixed /\ ~clean'[t]
        /\ UNCHANGED <<sshVars, ran>>
        /\ \A u \in Tasks \ {t} : tries'[u] = tries[u] /\ clean'[u] = clean[u]
        /\ \A g \in Hosts \ {h} : final'[g] = final[g] /\ tmp'[g] = tmp[g]
    BY <1>3, <1>4, <1>5, <1>9 DEF Idle, Stage
  <2>6. h \notin mixed' => HostSoundAt(h)'
    BY <2>3, <2>5
  <2>7. QED
    BY <1>3, <1>4, <1>6, <2>1, <2>2, <2>4, <2>5, <2>6, CommandStep, ZenonT(60)
<1>10. QED
  BY <1>3, <1>8, <1>9

\* A rename that finds nothing fails the deploy, which was disturbed then.
LEMMA MoveFailsDInv ==
    ASSUME SInv, DInv, NEW t \in Tasks, Move(t), tmp[addr[t]][procOf[t]] = NoFile
    PROVE  DInv'
<1>1. PICK h, p : h = addr[t] /\ p = procOf[t]
  OBVIOUS
<1>2. /\ cmd[t].is = "mv" /\ stage' = [stage EXCEPT ![t] = "failed"]
      /\ cmd' = [cmd EXCEPT ![t] = NoCommand]
      /\ UNCHANGED <<sshVars, tries, final, tmp, left, ran, mixed, clean>>
  BY DEF Move, Goes, Waits, Suffix
<1>3. /\ stage[t] = "command" /\ h \in Hosts /\ cmd[t].host = h /\ p \in Procs /\ DeployTypeOK
      /\ (clean[t] => OnItsWay(t))
  BY <1>1, <1>2, AtCommand
<1>4. procOf' = procOf /\ NoCommand \in Command
  BY <1>2 DEF sshVars, procOf, NoCommand, Command
<1>5. ~clean[t]
  BY <1>2, <1>3, OwnIsWhole DEF OnItsWay, NoFile
<1>6. /\ cmd' \in [Tasks -> Command] /\ cmd'[t] = NoCommand
      /\ \A u \in Tasks \ {t} : cmd'[u] = cmd[u]
  BY <1>2, <1>3, <1>4 DEF DeployTypeOK
<1>7. DeployTypeOK'
  BY <1>2, <1>3, <1>4, <1>6 DEF DeployTypeOK, Stage
<1>8. ASSUME h \notin mixed PROVE HostSoundAt(h)'
  <2>1. Uploads(cmd[t], h) /\ final[h].what # "part"
    BY <1>2, <1>3, <1>8, UploadsAlone DEF Uploads
  <2>2. ASSUME NEW u \in Tasks, procOf[u] = p
        PROVE  /\ ~Uploads(left'[u], h) /\ ~Uploads(cmd'[u], h)
               /\ Sound(cmd[u], u, h)' /\ Sound(left[u], u, h)'
    <3>1. ~Uploads(left[u], h) /\ (u # t => ~Uploads(cmd[u], h))
      BY <1>1, <1>3, <1>8, <2>1, <2>2, UploadsAlone
    <3>2. ~Uploads(cmd'[t], h)
      BY <1>6 DEF Uploads, NoCommand
    <3>3. ~Uploads(left'[u], h) /\ ~Uploads(cmd'[u], h)
      BY <1>2, <1>6, <3>1, <3>2
    <3>4. QED
      BY <3>3 DEF Sound, Uploads
  <2>3. \A u \in Tasks : (procOf[u] # p => cmd'[u] = cmd[u]) /\ left'[u] = left[u]
    BY <1>1, <1>2, <1>6
  <2>4. QED
    BY <1>2, <1>3, <1>4, <2>1, <2>2, <2>3, SoundAfter
<1>9. /\ stage[t] \notin Idle /\ "failed" \in Stage
      /\ cmd'[t] = NoCommand /\ cmd'[t].is = "none"
  BY <1>3, <1>6 DEF Idle, Stage, NoCommand
<1>10. \A u \in Tasks : /\ Touched(left[u], left'[u], h)
                        /\ u # t => Touched(cmd[u], cmd'[u], h)
  BY <1>2, <1>6 DEF Touched
<1>11. /\ addr[t] = h /\ UNCHANGED <<sshVars, ran>> /\ mixed' = mixed /\ ~clean'[t]
       /\ \A u \in Tasks \ {t} : tries'[u] = tries[u] /\ clean'[u] = clean[u]
       /\ \A g \in Hosts \ {h} : final'[g] = final[g] /\ tmp'[g] = tmp[g]
  BY <1>1, <1>2, <1>5
<1>12. h \notin mixed' => HostSoundAt(h)'
  BY <1>8, <1>11
<1>13. QED
  BY <1>2, <1>3, <1>7, <1>9, <1>10, <1>11, <1>12, CommandStep, ZenonT(60)

LEMMA ChmodDInv ==
    ASSUME SInv, DInv, NEW t \in Tasks, Chmod(t)
    PROVE  DInv'
<1>1. PICK h, p : h = addr[t] /\ p = procOf[t]
  OBVIOUS
<1>2. /\ cmd[t].is = "chmod" /\ stage' = [stage EXCEPT ![t] = "verify"]
      /\ MadeExecutable(h) /\ cmd' = [cmd EXCEPT ![t] = NoCommand]
      /\ UNCHANGED <<sshVars, tries, left, ran, mixed, clean>>
  BY <1>1 DEF Chmod, Goes, Waits
<1>3. /\ stage[t] = "command" /\ h \in Hosts /\ cmd[t].host = h /\ p \in Procs /\ DeployTypeOK
      /\ (clean[t] => OnItsWay(t))
  BY <1>1, <1>2, AtCommand
<1>4. procOf' = procOf /\ NoCommand \in Command
  BY <1>2 DEF sshVars, procOf, NoCommand, Command
<1>5. /\ final' \in [Hosts -> File] /\ UNCHANGED tmp
      /\ final'[h].what = final[h].what /\ final'[h].exec
      /\ \A g \in Hosts \ {h} : final'[g] = final[g]
  BY <1>2, <1>3, MadeExecutableStep
<1>6. /\ cmd' \in [Tasks -> Command] /\ cmd'[t] = NoCommand
      /\ \A u \in Tasks \ {t} : cmd'[u] = cmd[u]
  BY <1>2, <1>3, <1>4 DEF DeployTypeOK
<1>7. DeployTypeOK'
  BY <1>2, <1>3, <1>4, <1>5, <1>6 DEF DeployTypeOK, Stage
<1>8. ASSUME h \notin mixed PROVE HostSoundAt(h)'
  <2>1. \A u \in Tasks :
          /\ final[h].what # "part" /\ Sound(cmd[u], u, h) /\ Sound(left[u], u, h)
    BY <1>3, <1>8, UploadsAlone
  <2>2. \A u \in Tasks : Uploads(cmd'[u], h) => cmd'[u] = cmd[u]
    BY <1>6 DEF Uploads, NoCommand
  <2>3. OneUpload(h)
    BY <1>3, <1>8 DEF DInv, HostSoundAt
  <2>4. OneUpload(h)'
    BY <1>2, <1>4, <2>2, <2>3 DEF OneUpload
  <2>5. \A u \in Tasks : Sound(cmd[u], u, h)' /\ Sound(left[u], u, h)'
    BY <1>2, <1>4, <1>5, <2>1, <2>2 DEF Sound, Uploads
  <2>6. QED
    BY <1>5, <2>1, <2>4, <2>5 DEF HostSoundAt
<1>9. ASSUME clean'[t] PROVE OnItsWay(t)'
  <2>1. final'[h].what = Own(t)
    BY <1>1, <1>2, <1>3, <1>5, <1>9 DEF OnItsWay
  <2>2. addr'[t] = h /\ Own(t)' = Own(t) /\ stage'[t] = "verify"
    BY <1>1, <1>2, <1>3, <1>4 DEF sshVars, Own, DeployTypeOK
  <2>3. QED
    BY <1>5, <1>6, <2>1, <2>2 DEF OnItsWay, NoCommand
<1>10. /\ stage[t] \notin Idle /\ "verify" \in Stage
       /\ cmd'[t] = NoCommand /\ cmd'[t].is = "none"
  BY <1>3, <1>6 DEF Idle, Stage, NoCommand
<1>11. \A u \in Tasks : /\ Touched(left[u], left'[u], h)
                        /\ u # t => Touched(cmd[u], cmd'[u], h)
  BY <1>2, <1>6 DEF Touched
<1>12. /\ addr[t] = h /\ UNCHANGED <<sshVars, ran>> /\ mixed' = mixed
       /\ clean'[t] => clean[t]
       /\ \A u \in Tasks \ {t} : tries'[u] = tries[u] /\ clean'[u] = clean[u]
       /\ \A g \in Hosts \ {h} : final'[g] = final[g] /\ tmp'[g] = tmp[g]
  BY <1>1, <1>2, <1>5
<1>13. h \notin mixed' => HostSoundAt(h)'
  BY <1>8, <1>12
<1>14. QED
  BY <1>2, <1>3, <1>7, <1>9, <1>10, <1>11, <1>12, <1>13, CommandStep, ZenonT(60)

LEMMA RenamedStep ==
    ASSUME DInv, NEW h \in Hosts, NEW p \in Procs, Renamed(h, p)
    PROVE  /\ final' \in [Hosts -> File] /\ tmp' \in [Hosts -> [Procs -> File]]
           /\ final'[h] = tmp[h][p]
           /\ tmp'[h][p] = NoFile
           /\ \A q \in Procs \ {p} : tmp'[h][q] = tmp[h][q]
           /\ \A g \in Hosts \ {h} : final'[g] = final[g] /\ tmp'[g] = tmp[g]
<1>1. PICK e, f : e = NoFile /\ f = tmp[h][p]
  OBVIOUS
<1>2. e \in File /\ f \in File
  BY <1>1 DEF NoFile, File, Bytes, DInv, DeployTypeOK
<1>3. final' = [final EXCEPT ![h] = f] /\ tmp' = [tmp EXCEPT ![h][p] = e]
  BY <1>1 DEF Renamed
<1>4. /\ final' \in [Hosts -> File] /\ final'[h] = f
      /\ \A g \in Hosts \ {h} : final'[g] = final[g]
  BY <1>2, <1>3, FinalStep
<1>5. /\ tmp' \in [Hosts -> [Procs -> File]] /\ tmp'[h][p] = e
      /\ \A q \in Procs \ {p} : tmp'[h][q] = tmp[h][q]
      /\ \A g \in Hosts \ {h} : tmp'[g] = tmp[g]
  BY <1>2, <1>3, TmpStep, ZenonT(60)
<1>6. QED
  BY <1>1, <1>4, <1>5

\* The path gets a file that was written to its end.
LEMMA MoveDInv ==
    ASSUME SInv, DInv, NEW t \in Tasks, Move(t), tmp[addr[t]][procOf[t]] # NoFile
    PROVE  DInv'
<1>1. PICK h, p : h = addr[t] /\ p = procOf[t]
  OBVIOUS
<1>2. PICK C, L : C = Moved(cmd, h, p, "tmp", "final") /\ L = Moved(left, h, p, "tmp", "final")
  OBVIOUS
<1>3. /\ cmd[t].is = "mv" /\ Renamed(h, p)
      /\ cmd' = [C EXCEPT ![t].is = "chmod"] /\ left' = L
      /\ UNCHANGED <<sshVars, stage, tries, ran, mixed, clean>>
  BY <1>1, <1>2 DEF Move, Suffix
<1>4. /\ stage[t] = "command" /\ h \in Hosts /\ cmd[t].host = h /\ p \in Procs
      /\ cmd[t] \in Command /\ DeployTypeOK /\ (clean[t] => OnItsWay(t))
  BY <1>1, <1>3, AtCommand
<1>5. procOf' = procOf
  BY <1>3 DEF sshVars, procOf
<1>6. /\ C \in [Tasks -> Command] /\ C[t] = cmd[t]
      /\ \A u \in Tasks : Touched(cmd[u], C[u], h)
  BY <1>2, <1>3, <1>4, MovedStep DEF DeployTypeOK
<1>7. L \in [Tasks -> Command] /\ \A u \in Tasks : Touched(left[u], L[u], h)
  BY <1>2, <1>4, MovedStep DEF DeployTypeOK
<1>8. /\ final' \in [Hosts -> File] /\ tmp' \in [Hosts -> [Procs -> File]]
      /\ final'[h] = tmp[h][p]
      /\ tmp'[h][p] = NoFile
      /\ \A q \in Procs \ {p} : tmp'[h][q] = tmp[h][q]
      /\ \A g \in Hosts \ {h} : final'[g] = final[g] /\ tmp'[g] = tmp[g]
  BY <1>3, <1>4, RenamedStep
<1>9. /\ cmd' \in [Tasks -> Command] /\ cmd'[t].is = "chmod" /\ cmd'[t].host = h
      /\ \A u \in Tasks \ {t} : cmd'[u] = C[u]
  <2>1. PICK c : c = [cmd[t] EXCEPT !.is = "chmod"]
    OBVIOUS
  <2>2. c \in Command /\ c.is = "chmod" /\ c.host = h
    BY <1>4, <2>1 DEF Command
  <2>3. cmd' = [C EXCEPT ![t] = c]
    BY <1>3, <1>6, <2>1
  <2>4. QED
    BY <1>6, <2>2, <2>3
<1>10. DeployTypeOK'
  BY <1>3, <1>4, <1>5, <1>7, <1>8, <1>9 DEF DeployTypeOK
<1>11. ASSUME h \notin mixed PROVE HostSoundAt(h)'
  <2>1. Uploads(cmd[t], h)
    BY <1>3, <1>4 DEF Uploads
  <2>2. final'[h].what # "part"
    BY <1>1, <1>3, <1>4, <1>8, <1>11, UploadsAlone DEF Sound
  <2>3. ASSUME NEW u \in Tasks, procOf[u] = p
        PROVE  /\ ~Uploads(left'[u], h) /\ ~Uploads(cmd'[u], h)
               /\ Sound(cmd[u], u, h)' /\ Sound(left[u], u, h)'
    <3>1. ~Uploads(left[u], h) /\ (u # t => ~Uploads(cmd[u], h))
      BY <1>1, <1>4, <1>11, <2>1, <2>3, UploadsAlone
    <3>2. ~Uploads(left'[u], h)
      BY <1>3, <1>7, <3>1 DEF Touched, Uploads
    <3>3. u # t => ~Uploads(cmd'[u], h)
      BY <1>6, <1>9, <3>1 DEF Touched, Uploads
    <3>4. ~Uploads(cmd'[t], h)
      BY <1>9 DEF Uploads
    <3>5. QED
      BY <3>2, <3>3, <3>4 DEF Sound, Uploads
  <2>4. \A u \in Tasks : /\ procOf[u] # p /\ Uploads(cmd'[u], h) => cmd'[u] = cmd[u]
                         /\ procOf[u] # p /\ Uploads(left'[u], h) => left'[u] = left[u]
    BY <1>1, <1>2, <1>3, <1>4, <1>9, <1>11, MovedUploads
  <2>5. \A u, v \in Tasks : procOf[u] = p /\ procOf[v] = p =>
           ~Uploads(cmd'[u], h) /\ ~Uploads(left'[u], h) /\ ~Uploads(left'[v], h)
    BY <2>3
  <2>6. h \in Hosts /\ p \in Procs /\ mixed \subseteq mixed'
        /\ \A q \in Procs \ {p} : tmp'[h][q] = tmp[h][q]
    BY <1>3, <1>4, <1>8
  <2>7. QED
    BY <1>5, <2>2, <2>3, <2>4, <2>5, <2>6, SoundAfter
<1>12. ASSUME clean'[t] PROVE OnItsWay(t)'
  <2>1. final'[h].what = Own(t)
    BY <1>1, <1>3, <1>4, <1>8, <1>12 DEF OnItsWay
  <2>2. addr'[t] = h /\ Own(t)' = Own(t) /\ stage'[t] = "command"
    BY <1>1, <1>3, <1>4, <1>5 DEF sshVars, Own
  <2>3. QED
    BY <1>9, <2>1, <2>2 DEF OnItsWay
<1>13. /\ stage[t] \notin Idle /\ "command" \in Stage /\ stage' = [stage EXCEPT ![t] = "command"]
       /\ cmd'[t].is # "none" /\ cmd'[t].host = h
  BY <1>3, <1>4, <1>9 DEF Idle, Stage, DeployTypeOK
<1>14. \A u \in Tasks : /\ Touched(left[u], left'[u], h)
                        /\ u # t => Touched(cmd[u], cmd'[u], h)
  BY <1>3, <1>6, <1>7, <1>9
<1>15. /\ addr[t] = h /\ UNCHANGED <<sshVars, ran>> /\ mixed' = mixed
       /\ clean'[t] => clean[t]
       /\ \A u \in Tasks \ {t} : tries'[u] = tries[u] /\ clean'[u] = clean[u]
       /\ \A g \in Hosts \ {h} : final'[g] = final[g] /\ tmp'[g] = tmp[g]
  BY <1>1, <1>3, <1>8
<1>16. h \notin mixed' => HostSoundAt(h)'
  BY <1>11, <1>15
<1>17. QED
  BY <1>4, <1>10, <1>12, <1>13, <1>14, <1>15, <1>16, CommandStep, ZenonT(60)

-----------------------------------------------------------------------------
(* Giving up, and the commands left behind.                                *)

\* The command of a deploy that is given up is killed, or goes on as one left behind.
LEMMA GivesUpDInv ==
    ASSUME SInv, DInv, NEW t \in Tasks, GivesUp(t)
    PROVE  DInv'
<1>1. PICK h : h = addr[t]
  OBVIOUS
<1>2. /\ stage[t] \notin Idle /\ cmd' = [cmd EXCEPT ![t] = NoCommand]
      /\ UNCHANGED <<final, tmp, mixed>>
  BY DEF GivesUp, Waits
<1>3. DeployTypeOK /\ StagedAt(t) /\ h \in Hosts /\ UNCHANGED scenario
  BY <1>1, <1>2, DeployHasHost DEF DInv, Idle, GivesUp, Hangup, At, sshVars
<1>4. procOf' = procOf /\ NoCommand \in Command /\ NoCommand.is = "none"
  BY <1>3 DEF procOf, NoCommand, Command
<1>5. /\ stage'[t] \in {"none", "failed"} /\ ~clean'[t]
      /\ stage'[t] = "none" => ran'[t] = None
      /\ stage'[t] = "failed" => ran'[t] = ran[t] /\ addr'[t] = addr[t] /\ pc'[t] = pc[t]
      /\ \A u \in Tasks \ {t} : /\ addr'[u] = addr[u] /\ pc'[u] = pc[u]
                                /\ stage'[u] = stage[u] /\ tries'[u] = tries[u]
                                /\ ran'[u] = ran[u] /\ clean'[u] = clean[u]
      /\ stage' \in [Tasks -> Stage] /\ tries' \in [Tasks -> 0 .. 2]
      /\ ran' \in [Tasks -> Bytes] /\ clean' \in [Tasks -> BOOLEAN]
  <2>1. CASE Hangup(t) /\ Forgotten(t)
    <3>1. \A u \in Tasks \ {t} : addr'[u] = addr[u] /\ pc'[u] = pc[u]
      BY <2>1 DEF SInv, SshTypeOK, Hangup, At
    <3>2. QED
      BY <2>1, <3>1, ForgottenStep
  <2>2. CASE Goes(t, "failed") /\ clean' = [clean EXCEPT ![t] = FALSE]
             /\ UNCHANGED <<sshVars, tries, ran>>
    BY <1>3, <2>2 DEF Goes, DeployTypeOK, Stage, sshVars
  <2>3. QED
    BY <2>1, <2>2 DEF GivesUp
<1>6. /\ cmd' \in [Tasks -> Command] /\ cmd'[t] = NoCommand
      /\ \A u \in Tasks \ {t} : cmd'[u] = cmd[u]
  BY <1>2, <1>3, <1>4 DEF DeployTypeOK
<1>7. /\ left' \in [Tasks -> Command]
      /\ \A u \in Tasks \ {t} : left'[u] = left[u]
      /\ \/ left'[t] = left[t]
         \/ left'[t] = cmd[t] /\ cmd[t].is # "none" /\ left[t].is = "none"
  BY <1>3 DEF GivesUp, DeployTypeOK
<1>8. cmd[t].is # "none" => cmd[t].host = h
  BY <1>1, <1>3 DEF StagedAt, NoCommand
<1>9. DeployTypeOK'
  BY <1>2, <1>3, <1>4, <1>5, <1>6, <1>7 DEF DeployTypeOK
<1>10. Apart(t, h)
  <2>1. stage'[t] \in Idle /\ cmd'[t].host = NoHost
    BY <1>5, <1>6 DEF Idle, NoCommand
  <2>2. left'[t] = left[t] \/ left'[t].host = h
    BY <1>7, <1>8
  <2>3. QED
    BY <1>2, <1>4, <1>5, <1>6, <1>7, <2>1, <2>2 DEF Apart, Touched
<1>11. StagedAt(t)'
  <2>1. left'[t] = NoCommand \/ (left'[t].is # "none" /\ left'[t].host \in Hosts)
    BY <1>3, <1>7, <1>8 DEF StagedAt
  <2>2. /\ stage'[t] # "none" => pc'[t] = "up"
        /\ ran'[t] = "part" => addr'[t] \in mixed'
    BY <1>2, <1>3, <1>5, DeployConstants DEF StagedAt, Idle
  <2>3. QED
    BY <1>4, <1>5, <1>6, <2>1, <2>2 DEF StagedAt
<1>12. CleanAt(t)'
  BY <1>5 DEF CleanAt
<1>13. HostSoundAt(h)'
  <2>1. SUFFICES ASSUME h \notin mixed
                 PROVE  /\ final[h].what # "part" /\ OneUpload(h)'
                        /\ \A u \in Tasks : Sound(cmd[u], u, h)' /\ Sound(left[u], u, h)'
    BY <1>2 DEF HostSoundAt
  <2>2. final[h].what # "part" /\ OneUpload(h)
    BY <1>3, <2>1 DEF DInv, HostSoundAt
  <2>3. \A u \in Tasks : Sound(cmd[u], u, h) /\ Sound(left[u], u, h)
    BY <1>3, <2>1 DEF DInv, HostSoundAt
  <2>4. ~Uploads(cmd'[t], h)
    BY <1>4, <1>6 DEF Uploads
  <2>5. Uploads(left'[t], h) => \/ left'[t] = left[t]
                                \/ Uploads(cmd[t], h) /\ ~Uploads(left[t], h)
    BY <1>7 DEF Uploads
  <2>6. OneUpload(h)'
    <3>1. SUFFICES ASSUME NEW u \in Tasks, NEW v \in Tasks, procOf[u] = procOf[v]
                   PROVE  /\ Uploads(cmd'[u], h) /\ Uploads(cmd'[v], h) => u = v
                          /\ Uploads(left'[u], h) /\ Uploads(left'[v], h) => u = v
                          /\ ~(Uploads(cmd'[u], h) /\ Uploads(left'[v], h))
      BY <1>4 DEF OneUpload, Uploads
    <3>2. Uploads(cmd'[u], h) => u # t /\ Uploads(cmd[u], h)
      BY <1>6, <2>4
    <3>3. Uploads(cmd'[v], h) => v # t /\ Uploads(cmd[v], h)
      BY <1>6, <2>4
    <3>4. Uploads(left'[u], h) => Uploads(left[u], h) \/ (u = t /\ Uploads(cmd[t], h))
      BY <1>7, <2>5
    <3>5. Uploads(left'[v], h) => Uploads(left[v], h) \/ (v = t /\ Uploads(cmd[t], h))
      BY <1>7, <2>5
    <3>6. QED
      BY <2>2, <3>1, <3>2, <3>3, <3>4, <3>5 DEF OneUpload
  <2>7. ASSUME NEW u \in Tasks PROVE Sound(cmd[u], u, h)' /\ Sound(left[u], u, h)'
    <3>1. Sound(cmd[u], u, h)'
      BY <1>2, <1>4, <1>6, <2>3 DEF Sound
    <3>2. Sound(left[u], u, h)'
      BY <1>2, <1>4, <1>7, <2>3 DEF Sound
    <3>3. QED
      BY <3>1, <3>2
  <2>8. QED
    BY <2>2, <2>6, <2>7
<1>14. QED
  BY <1>1, <1>2, <1>3, <1>9, <1>10, <1>11, <1>12, <1>13, WorkStep

\* A step of a command that t left running on host h.
LEMMA LeftStep ==
    ASSUME SInv, DInv, NEW t \in Tasks, NEW h \in Hosts, left[t].host = h,
           UNCHANGED <<sshVars, stage, tries, ran, mixed, clean>>, DeployTypeOK',
           left'[t] = NoCommand \/ (left'[t].is # "none" /\ left'[t].host = h),
           \A u \in Tasks : Touched(cmd[u], cmd'[u], h),
           \A u \in Tasks \ {t} : Touched(left[u], left'[u], h),
           \A g \in Hosts \ {h} : final'[g] = final[g] /\ tmp'[g] = tmp[g],
           h \notin mixed => HostSoundAt(h)'
    PROVE  DInv'
<1>1. DeployTypeOK /\ StagedAt(t) /\ CleanAt(t) /\ procOf' = procOf /\ UNCHANGED <<addr, pc>>
  BY DEF DInv, sshVars, procOf
<1>2. left'[t].host \in {h, NoHost} /\ NoCommand.is = "none" /\ NoCommand.host = NoHost
  BY DEF NoCommand
<1>3. \A u \in Tasks : cmd'[u] = cmd[u] \/ cmd'[u].host = h
  BY DEF Touched
<1>4. Apart(t, h)
  <2>1. cmd'[t] = cmd[t] \/ cmd'[t].host \in {h, NoHost}
    BY <1>3
  <2>2. QED
    BY <1>1, <1>2, <2>1 DEF Apart
<1>5. StagedAt(t)'
  <2>1. cmd'[t] = NoCommand \/ (cmd'[t].is # "none" /\ cmd'[t].host = addr[t])
    BY <1>1, <1>2 DEF StagedAt, Touched
  <2>2. cmd'[t].is = cmd[t].is
    BY DEF Touched
  <2>3. left'[t] = NoCommand \/ (left'[t].is # "none" /\ left'[t].host \in Hosts)
    OBVIOUS
  <2>4. QED
    BY <1>1, <2>1, <2>2, <2>3 DEF StagedAt
<1>6. CleanAt(t)'
  <2>1. SUFFICES ASSUME clean[t], stage[t] \notin Idle
                 PROVE  ~Busy(t, addr[t])' /\ OnItsWay(t)'
    BY <1>1 DEF CleanAt
  <2>2. ~Busy(t, addr[t]) /\ OnItsWay(t) /\ addr[t] \in Hosts
    BY <1>1, <2>1, DeployHasHost DEF CleanAt, Idle
  <2>3. addr[t] # h /\ addr[t] # NoHost
    BY <2>2, SshConstants DEF Busy
  <2>4. ASSUME NEW u \in Tasks PROVE left'[u].host # addr[t]
    BY <1>2, <2>2, <2>3 DEF Busy, Touched
  <2>5. ~Busy(t, addr[t])'
    BY <1>1, <2>2, <2>4 DEF Busy
  <2>6. cmd'[t] = cmd[t]
    <3>1. cmd[t] = NoCommand \/ cmd[t].host = addr[t]
      BY <1>1 DEF StagedAt
    <3>2. QED
      BY <1>2, <2>3, <3>1 DEF Touched
  <2>7. OnItsWay(t)'
    BY <1>1, <2>2, <2>3, <2>6 DEF OnItsWay, Own, IsWhole
  <2>8. QED
    BY <2>5, <2>7
<1>7. HostSoundAt(h)'
  BY DEF HostSoundAt
<1>8. QED
  BY <1>4, <1>5, <1>6, <1>7, WorkStep

\* What is left of a command that is done, or killed.
LEMMA LeftDoneStep ==
    ASSUME DInv, NEW t \in Tasks, left' = LeftDone(t)
    PROVE  /\ left' \in [Tasks -> Command] /\ left'[t] = NoCommand
           /\ \A u \in Tasks \ {t} : left'[u] = left[u]
  BY DEF LeftDone, DInv, DeployTypeOK, NoCommand, Command

\* It ends without a rename: no new upload, and no half of a file at the path.
LEMMA LeftEnds ==
    ASSUME SInv, DInv, NEW t \in Tasks, NEW h \in Hosts, left[t].host = h,
           UNCHANGED <<sshVars, stage, tries, ran, mixed, clean, cmd>>,
           left' = LeftDone(t),
           final' \in [Hosts -> File], tmp' \in [Hosts -> [Procs -> File]],
           \A g \in Hosts \ {h} : final'[g] = final[g] /\ tmp'[g] = tmp[g],
           h \notin mixed => /\ final'[h].what # "part"
                             /\ \/ UNCHANGED tmp
                                \/ /\ Uploads(left[t], h)
                                   /\ \A q \in Procs \ {procOf[t]} : tmp'[h][q] = tmp[h][q]
    PROVE  DInv'
<1>1. DeployTypeOK /\ StagedAt(t) /\ CleanAt(t) /\ procOf' = procOf
      /\ \A u \in Tasks : procOf[u] \in Procs
  BY DEF DInv, DeployTypeOK, sshVars, procOf
<1>2. /\ left' \in [Tasks -> Command] /\ left'[t] = NoCommand
      /\ \A u \in Tasks \ {t} : left'[u] = left[u]
  BY LeftDoneStep
<1>3. DeployTypeOK'
  BY <1>1, <1>2 DEF DeployTypeOK
<1>4. ASSUME h \notin mixed PROVE HostSoundAt(h)'
  <2>1. \A u \in Tasks : Uploads(left'[u], h) => left'[u] = left[u] /\ u # t
    BY <1>2 DEF Uploads, NoCommand
  <2>2. OneUpload(h) /\ \A u \in Tasks : Sound(cmd[u], u, h) /\ Sound(left[u], u, h)
    BY <1>4 DEF DInv, HostSoundAt
  <2>3. OneUpload(h)'
    BY <1>1, <2>1, <2>2 DEF OneUpload
  <2>4. ASSUME NEW u \in Tasks PROVE Sound(cmd[u], u, h)' /\ Sound(left[u], u, h)'
    <3>1. CASE UNCHANGED tmp
      BY <1>1, <2>1, <2>2, <3>1 DEF Sound, Uploads
    <3>2. CASE /\ Uploads(left[t], h)
               /\ \A q \in Procs \ {procOf[t]} : tmp'[h][q] = tmp[h][q]
      <4>1. CASE procOf[u] = procOf[t]
        <5>1. ~Uploads(cmd'[u], h) /\ ~Uploads(left'[u], h)
          BY <1>4, <2>1, <3>2, <4>1, UploadsAlone
        <5>2. QED
          BY <5>1 DEF Sound, Uploads
      <4>2. CASE procOf[u] # procOf[t]
        <5>1. tmp'[h][procOf[u]] = tmp[h][procOf[u]]
          BY <1>1, <3>2, <4>2
        <5>2. QED
          BY <1>1, <2>1, <2>2, <5>1 DEF Sound, Uploads
      <4>3. QED
        BY <4>1, <4>2
    <3>3. QED
      BY <1>4, <3>1, <3>2
  <2>5. QED
    BY <1>4, <2>3, <2>4 DEF HostSoundAt
<1>5. \A u \in Tasks : Touched(cmd[u], cmd'[u], h)
                       /\ (u # t => Touched(left[u], left'[u], h))
  BY <1>2 DEF Touched
<1>6. QED
  BY <1>2, <1>3, <1>4, <1>5, LeftStep

\* An mv left behind renames what its own cat wrote.
LEMMA LeftMoves ==
    ASSUME SInv, DInv, NEW t \in Tasks, NEW h \in Hosts, NEW p \in Procs,
           h = left[t].host, p = procOf[t], left[t].is = "mv", Renamed(h, p),
           left' = [Moved(left, h, p, "tmp", "final") EXCEPT ![t].is = "chmod"],
           cmd' = Moved(cmd, h, p, "tmp", "final"),
           UNCHANGED <<sshVars, stage, tries, ran, mixed, clean>>
    PROVE  DInv'
<1>1. PICK C, L : C = Moved(cmd, h, p, "tmp", "final") /\ L = Moved(left, h, p, "tmp", "final")
  OBVIOUS
<1>2. DeployTypeOK /\ left[t] \in Command /\ procOf' = procOf
  BY DEF DInv, DeployTypeOK, sshVars, procOf
<1>3. C \in [Tasks -> Command] /\ \A u \in Tasks : Touched(cmd[u], C[u], h)
  BY <1>1, <1>2, MovedStep DEF DeployTypeOK
<1>4. /\ L \in [Tasks -> Command] /\ L[t] = left[t]
      /\ \A u \in Tasks : Touched(left[u], L[u], h)
  BY <1>1, <1>2, MovedStep DEF DeployTypeOK
<1>5. /\ final' \in [Hosts -> File] /\ tmp' \in [Hosts -> [Procs -> File]]
      /\ final'[h] = tmp[h][p]
      /\ tmp'[h][p] = NoFile
      /\ \A q \in Procs \ {p} : tmp'[h][q] = tmp[h][q]
      /\ \A g \in Hosts \ {h} : final'[g] = final[g] /\ tmp'[g] = tmp[g]
  BY RenamedStep
<1>6. /\ left' \in [Tasks -> Command] /\ left'[t].is = "chmod" /\ left'[t].host = h
      /\ \A u \in Tasks \ {t} : left'[u] = L[u]
  <2>1. PICK c : c = [left[t] EXCEPT !.is = "chmod"]
    OBVIOUS
  <2>2. c \in Command /\ c.is = "chmod" /\ c.host = h
    BY <1>2, <2>1 DEF Command
  <2>3. left' = [L EXCEPT ![t] = c]
    BY <1>1, <1>4, <2>1
  <2>4. QED
    BY <1>4, <2>2, <2>3
<1>7. DeployTypeOK'
  BY <1>1, <1>2, <1>3, <1>5, <1>6 DEF DeployTypeOK
<1>8. ASSUME h \notin mixed PROVE HostSoundAt(h)'
  <2>1. Uploads(left[t], h)
    BY DEF Uploads
  <2>2. final'[h].what # "part"
    BY <1>5, <1>8, UploadsAlone DEF Sound
  <2>3. ASSUME NEW u \in Tasks, procOf[u] = p
        PROVE  /\ ~Uploads(left'[u], h) /\ ~Uploads(cmd'[u], h)
               /\ Sound(cmd[u], u, h)' /\ Sound(left[u], u, h)'
    <3>1. ~Uploads(cmd[u], h) /\ (u # t => ~Uploads(left[u], h))
      BY <1>8, <2>1, <2>3, UploadsAlone
    <3>2. ~Uploads(cmd'[u], h)
      BY <1>1, <1>3, <3>1 DEF Touched, Uploads
    <3>3. u # t => ~Uploads(left'[u], h)
      BY <1>4, <1>6, <3>1 DEF Touched, Uploads
    <3>4. ~Uploads(left'[t], h)
      BY <1>6 DEF Uploads
    <3>5. QED
      BY <3>2, <3>3, <3>4 DEF Sound, Uploads
  <2>4. \A u \in Tasks : /\ procOf[u] # p /\ Uploads(cmd'[u], h) => cmd'[u] = cmd[u]
                         /\ procOf[u] # p /\ Uploads(left'[u], h) => left'[u] = left[u]
    BY <1>1, <1>6, <1>8, MovedUploads
  <2>5. \A u, v \in Tasks : procOf[u] = p /\ procOf[v] = p =>
           ~Uploads(cmd'[u], h) /\ ~Uploads(left'[u], h) /\ ~Uploads(left'[v], h)
    BY <2>3
  <2>6. mixed \subseteq mixed' /\ \A q \in Procs \ {p} : tmp'[h][q] = tmp[h][q]
    BY <1>5
  <2>7. QED
    BY <1>2, <2>2, <2>3, <2>4, <2>5, <2>6, SoundAfter
<1>9. \A u \in Tasks : Touched(cmd[u], cmd'[u], h)
                       /\ (u # t => Touched(left[u], left'[u], h))
  BY <1>1, <1>3, <1>4, <1>6
<1>10. left'[t].is # "none" /\ left'[t].host = h
  BY <1>6
<1>11. \A g \in Hosts \ {h} : final'[g] = final[g] /\ tmp'[g] = tmp[g]
  BY <1>5
<1>12. QED
  BY <1>7, <1>8, <1>9, <1>10, <1>11, LeftStep

\* An rm left behind takes the tmp of whichever upload of its process has it open now.
LEMMA LeftRemoves ==
    ASSUME SInv, DInv, NEW t \in Tasks, NEW h \in Hosts, NEW p \in Procs,
           h = left[t].host, p = procOf[t], Removed(h, p),
           left' = [Moved(left, h, p, "tmp", "gone") EXCEPT ![t] = NoCommand],
           cmd' = Moved(cmd, h, p, "tmp", "gone"),
           UNCHANGED <<sshVars, stage, tries, ran, mixed, clean>>
    PROVE  DInv'
<1>1. PICK C, L : C = Moved(cmd, h, p, "tmp", "gone") /\ L = Moved(left, h, p, "tmp", "gone")
  OBVIOUS
<1>2. DeployTypeOK /\ procOf' = procOf /\ NoCommand \in Command
  BY DEF DInv, sshVars, procOf, NoCommand, Command
<1>3. /\ C \in [Tasks -> Command] /\ L \in [Tasks -> Command]
      /\ \A u \in Tasks : Touched(cmd[u], C[u], h) /\ Touched(left[u], L[u], h)
  BY <1>1, <1>2, MovedStep DEF DeployTypeOK
<1>4. /\ left' \in [Tasks -> Command] /\ left'[t] = NoCommand
      /\ \A u \in Tasks \ {t} : left'[u] = L[u]
  BY <1>1, <1>2, <1>3
<1>5. /\ final' = final /\ tmp' \in [Hosts -> [Procs -> File]]
      /\ \A g \in Hosts \ {h} : final'[g] = final[g] /\ tmp'[g] = tmp[g]
  BY RemovedStep
<1>6. DeployTypeOK'
  BY <1>1, <1>2, <1>3, <1>4, <1>5 DEF DeployTypeOK
<1>7. h \notin mixed => HostSoundAt(h)'
  BY <1>1, <1>2, <1>4, RemovedSound
<1>8. \A u \in Tasks : Touched(cmd[u], cmd'[u], h)
                       /\ (u # t => Touched(left[u], left'[u], h))
  BY <1>1, <1>3, <1>4
<1>9. QED
  BY <1>4, <1>5, <1>6, <1>7, <1>8, LeftStep

LEMMA LeftRunsDInv ==
    ASSUME SInv, DInv, NEW t \in Tasks, LeftRuns(t)
    PROVE  DInv'
<1>1. PICK h, p : h = left[t].host /\ p = procOf[t]
  OBVIOUS
<1>2. DeployTypeOK /\ StagedAt(t) /\ left[t] \in Command /\ p \in Procs /\ left[t].is # "none"
  BY <1>1 DEF DInv, DeployTypeOK, LeftRuns
<1>3. h \in Hosts
  BY <1>1, <1>2 DEF StagedAt, NoCommand
<1>4. UNCHANGED <<sshVars, stage, tries, ran, mixed, clean>>
  BY DEF LeftRuns
<1>5. h \notin mixed => final[h].what # "part"
  BY <1>3, UploadsAlone
<1>6. CASE left' = LeftDone(t) /\ UNCHANGED <<final, tmp, cmd>>
  BY <1>1, <1>2, <1>3, <1>4, <1>5, <1>6, LeftEnds DEF DeployTypeOK
<1>7. CASE left[t].is = "cat" /\ Written(left[t], t) /\ left' = LeftDone(t) /\ UNCHANGED cmd
  <2>1. /\ final' \in [Hosts -> File] /\ tmp' \in [Hosts -> [Procs -> File]]
        /\ \A g \in Hosts \ {h} : final'[g] = final[g] /\ tmp'[g] = tmp[g]
        /\ \A q \in Procs \ {p} : tmp'[h][q] = tmp[h][q]
        /\ final'[h].what \in {final[h].what, Own(t)}
    BY <1>1, <1>2, <1>3, <1>7, WrittenStep
  <2>2. h \notin mixed => final'[h].what # "part"
    BY <1>5, <2>1, OwnIsWhole
  <2>3. Uploads(left[t], h)
    BY <1>1, <1>7 DEF Uploads
  <2>4. UNCHANGED <<sshVars, stage, tries, ran, mixed, clean, cmd>>
    BY <1>4, <1>7
  <2>5. \A q \in Procs \ {procOf[t]} : tmp'[h][q] = tmp[h][q]
    BY <1>1, <2>1
  <2>6. \A g \in Hosts \ {h} : final'[g] = final[g] /\ tmp'[g] = tmp[g]
    BY <2>1
  <2>7. QED
    BY <1>1, <1>3, <1>7, <2>1, <2>2, <2>3, <2>4, <2>5, <2>6, LeftEnds
<1>8. CASE /\ left[t].is = "mv" /\ Renamed(h, p)
           /\ left' = [Moved(left, h, p, "tmp", "final") EXCEPT ![t].is = "chmod"]
           /\ cmd' = Moved(cmd, h, p, "tmp", "final")
  BY <1>1, <1>2, <1>3, <1>4, <1>8, LeftMoves
<1>9. CASE left[t].is = "chmod" /\ MadeExecutable(h) /\ left' = LeftDone(t) /\ UNCHANGED cmd
  <2>1. /\ final' \in [Hosts -> File] /\ UNCHANGED tmp
        /\ final'[h].what = final[h].what
        /\ \A g \in Hosts \ {h} : final'[g] = final[g]
    BY <1>3, <1>9, MadeExecutableStep
  <2>2. UNCHANGED <<sshVars, stage, tries, ran, mixed, clean, cmd>> /\ left' = LeftDone(t)
    BY <1>4, <1>9
  <2>3. tmp' \in [Hosts -> [Procs -> File]]
    BY <1>2, <2>1 DEF DeployTypeOK
  <2>4. QED
    BY <1>1, <1>3, <1>5, <2>1, <2>2, <2>3, LeftEnds
<1>10. CASE /\ left[t].is = "rm" /\ Removed(h, p)
            /\ left' = [Moved(left, h, p, "tmp", "gone") EXCEPT ![t] = NoCommand]
            /\ cmd' = Moved(cmd, h, p, "tmp", "gone")
  BY <1>1, <1>2, <1>3, <1>4, <1>10, LeftRemoves
<1>11. QED
  BY <1>1, <1>6, <1>7, <1>8, <1>9, <1>10 DEF LeftRuns, Suffix

-----------------------------------------------------------------------------
(* The theorems about deploys.                                             *)

\* Every step preserves the invariant of the deploys.
LEMMA NextDInv == SInv /\ DInv /\ [Next]_vars => DInv'
<1> SUFFICES ASSUME SInv, DInv, [Next]_vars PROVE DInv'
  OBVIOUS
<1>1. CASE UNCHANGED vars
  BY <1>1, WorldDInv DEF vars, sshVars, procOf
<1>2. ASSUME NEW t \in Tasks, SshStep(t), UNCHANGED deployVars PROVE DInv'
  BY <1>2, SshStepDInv
<1>3. CASE SshEnvironment /\ UNCHANGED deployVars
  <2>1. procOf' = procOf
    BY <1>3, ProcsStay DEF SshEnvironment, ForgetTruncates, ForgetWrites
  <2>2. UNCHANGED <<addr, pc>>
    BY <1>3 DEF SshEnvironment, EditConfig, Rekey, ForgetReads, ForgetTruncates,
       ForgetWrites, Cli
  <2>3. QED
    BY <1>3, <2>1, <2>2, WorldDInv
<1>4. ASSUME NEW t \in Tasks,
             \/ Ends(t) \/ Detect(t) \/ Inspect(t) \/ OpenTmp(t) \/ CatEnds(t) \/ CatFails(t)
             \/ Remove(t) \/ Move(t) \/ Chmod(t) \/ Verify(t) \/ Exec(t) \/ GivesUp(t) \/ LeftRuns(t)
      PROVE  DInv'
  BY <1>4, EndsDInv, DetectDInv, InspectDInv, OpenTmpDInv, CatEndsDInv, CatFailsDInv,
     RemoveDInv, MoveDInv, MoveFailsDInv, ChmodDInv, VerifyDInv, ExecDInv, GivesUpDInv, LeftRunsDInv
<1>5. QED
  BY <1>1, <1>2, <1>3, <1>4 DEF Next, Connecting

LEMMA DeployInvariant == Spec => [](SInv /\ DInv)
<1>1. Init => SInv /\ DInv
  BY InitSInv, InitDInv
<1>2. SInv /\ DInv /\ [Next]_vars => (SInv /\ DInv)'
  BY NextSInv, NextDInv
<1>3. QED
  BY <1>1, <1>2, PTL DEF Spec

\* The host never executes half an agent, however deploys of one controller or
\* of several, aborted deploys and the commands they leave on the host
\* interleave, unless two uploads of one process to it overlapped
\* (upload_binary, spawn_agent_channel).
THEOREM HalfAnAgentNeverRuns == Spec => []DeployInv
<1>1. SInv /\ DInv => DeployInv
  <2>1. SInv /\ DInv => TypeOK
    BY DEF SInv, DInv, DeployTypeOK, TypeOK
  <2>2. DInv => WholeAgentRuns
    BY DEF DInv, StagedAt, WholeAgentRuns
  <2>3. QED
    BY <2>1, <2>2 DEF DeployInv
<1>2. QED
  BY <1>1, DeployInvariant, PTL

\* A deploy that nothing disturbs succeeds, whatever earlier attempts left on
\* the host (inspect_remote_agent, upload_binary, compute_remote_hash).
THEOREM LeftoversHeal == Spec => []HealsOnNextDeploy
<1>1. DInv => HealsOnNextDeploy
  BY DEF DInv, CleanAt, HealsOnNextDeploy
<1>2. QED
  BY <1>1, DeployInvariant, PTL
=============================================================================

---------------------------- MODULE SshConnect ----------------------------
(***************************************************************************)
(* tepegoz-ssh: who a connection goes to and whether its host key is       *)
(* believed.  HostList::discover picks the host list, connect_host dials   *)
(* and authenticates, TofuHandler::check_server_key reads the known_hosts  *)
(* file during the key exchange and appends to it on a first contact, and  *)
(* `tepegoz doctor --ssh-forget` rewrites that file from another process.  *)
(*                                                                         *)
(* Nothing locks the file: a check, an append and the two halves of a      *)
(* rewrite are steps of their own.  The file is the set of its lines;      *)
(* their order, comments and hashed entries are left out, and so are key   *)
(* algorithms: two keys of a host are two values of one algorithm.         *)
(***************************************************************************)
EXTENDS Integers, Sequences

CONSTANTS Tasks,        \* callers of connect_host
          AliasOf,      \* the alias each of them dials
          Hosts,        \* (hostname, port) pairs
          NoHost,       \* not a host: nothing dialled yet
          Keys,         \* host keys
          SshConfig,    \* ~/.ssh/config: the tokens of its Host lines, concrete or patterns
          Resolve,      \* the host it resolves an alias to
          Toml,         \* config.toml [ssh.hosts]: its entries, once the user writes it
          Broken,       \* a config.toml that does not parse
          Scenarios     \* bounds: what each behaviour may hold, see Scenario

\* Dials of each task, edits of config.toml, changes of a host's key and runs of
\* doctor --ssh-forget that are still to come; TEPEGOZ_SSH_HOSTS; which tasks
\* are Fleet supervisors, which keep the entry their subscription listed and
\* deploy an agent once connected; and the process each task runs in.
Scenario == [dials : [Tasks -> Nat], edits : Nat, rekeys : Nat, forgets : Nat,
             env : SUBSET DOMAIN Resolve, deployers : SUBSET Tasks,
             procOf : [Tasks -> Nat]]

ASSUME SshConstants ==
    /\ NoHost \notin Hosts /\ Keys # {}
    /\ Resolve \in [DOMAIN Resolve -> Hosts]
    /\ \A e \in SshConfig : e.concrete => e.token \in DOMAIN Resolve
    /\ Broken # Toml
    /\ \A i \in DOMAIN Toml : Toml[i].host \in Hosts
    /\ Scenarios \subseteq Scenario

VARIABLES
    toml,       \* the entries of config.toml, or Broken
    serverKey,  \* the key each host presents
    known,      \* the lines of the known_hosts file
    cli,        \* doctor --ssh-forget: where it stands, what it read, its host
    pc,         \* where each task stands
    addr,       \* the host it dials
    key,        \* the key that host presented
    scenario,   \* what is still to come
    view,       \* history: how each task's check saw the file, see Check and Trust
    settled,    \* history: keys persisted for a host since it was last forgotten
    dropped     \* history: hosts whose line a rewrite lost unasked

sshVars == <<toml, serverKey, known, cli, pc, addr, key, scenario, view, settled, dropped>>

Line == [host : Hosts, key : Keys]
\* "refused" is every SshError of connect_host.
Place == {"idle", "check", "trust", "auth", "up", "refused"}
AnyKey == CHOOSE k \in Keys : TRUE

SshInit ==
    /\ scenario \in Scenarios
    /\ toml = <<>>
    /\ \E k \in Keys : serverKey = [h \in Hosts |-> k]
    /\ known = {}
    /\ cli = [at |-> "done", seen |-> {}, host |-> NoHost]
    /\ pc = [t \in Tasks |-> "idle"]
    /\ addr = [t \in Tasks |-> NoHost]
    /\ key = [t \in Tasks |-> AnyKey]
    /\ view = [t \in Tasks |-> "whole"]
    /\ settled = [h \in Hosts |-> {}]
    /\ dropped = {}

-----------------------------------------------------------------------------
(* Discovery: the first source that lists hosts wins; nothing is merged.   *)

\* parse_tepegoz_config, looked up with get: the first entry of an alias counts.
FromToml ==
    LET firsts == {i \in DOMAIN toml : \A j \in 1 .. i - 1 : toml[j].alias # toml[i].alias}
    IN  [a \in {toml[i].alias : i \in firsts} |->
            toml[CHOOSE i \in firsts : toml[i].alias = a].host]

\* parse_all_ssh_config: every alias named on a Host line; patterns name none.
Concrete == {e.token : e \in {l \in SshConfig : l.concrete}}

\* HostList::discover.  A config.toml that does not parse is an error, not a
\* reason to go on to the next source.
HostList ==
    IF toml = Broken THEN [a \in {} |-> NoHost]
    ELSE IF toml # <<>> THEN FromToml
    ELSE LET aliases == IF scenario.env # {} THEN scenario.env ELSE Concrete
         IN [a \in aliases |-> Resolve[a]]

EditConfig ==
    /\ scenario.edits > 0 /\ scenario' = [scenario EXCEPT !.edits = @ - 1]
    /\ \E f \in {<<>>, Toml, Broken} \ {toml} : toml' = f
    /\ UNCHANGED <<serverKey, known, cli, pc, addr, key, view, settled, dropped>>

\* The host is reinstalled, or somebody else answers at its address.
Rekey(h) ==
    /\ scenario.rekeys > 0 /\ scenario' = [scenario EXCEPT !.rekeys = @ - 1]
    /\ \E k \in Keys \ {serverKey[h]} : serverKey' = [serverKey EXCEPT ![h] = k]
    /\ UNCHANGED <<toml, known, cli, pc, addr, key, view, settled, dropped>>

-----------------------------------------------------------------------------
(* connect_host.                                                           *)

At(t, place) ==
    /\ pc' = [pc EXCEPT ![t] = place]
    /\ UNCHANGED <<toml, serverKey, cli, scenario>>

\* Whom a task dials: a supervisor the host of the entry it was started with,
\* a remote pane whatever its alias stands for now.
Dialled(t) ==
    IF addr[t] # NoHost THEN {addr[t]}
    ELSE {HostList[a] : a \in {AliasOf[t]} \cap DOMAIN HostList}

\* The host is looked up and dialled; the key exchange brings its key.
Dial(t) ==
    /\ pc[t] = "idle" /\ scenario.dials[t] > 0
    /\ scenario' = [scenario EXCEPT !.dials[t] = @ - 1]
    /\ \/ \E h \in Dialled(t) :
             /\ addr' = [addr EXCEPT ![t] = h]
             /\ key' = [key EXCEPT ![t] = serverKey[h]]
             /\ \E p \in {"check", "refused"} : pc' = [pc EXCEPT ![t] = p]
       \/ /\ Dialled(t) = {}
          /\ pc' = [pc EXCEPT ![t] = "refused"]
          /\ UNCHANGED <<addr, key>>
    /\ UNCHANGED <<toml, serverKey, known, cli, view, settled, dropped>>

KeysOf(h) == {l.key : l \in {m \in known : m.host = h}}

\* Mutant: a key that disagrees with the stored one is learned like a new one.
Verdict_LearnsAnother(h, k) ==
    IF k \in KeysOf(h) THEN {"trusted"} ELSE {"unknown"}

\* KnownHostsStore::check.  Lines that disagree with each other may be read either way.
Verdict(h, k) ==
    CASE KeysOf(h) = {}   -> {"unknown"}
      [] KeysOf(h) = {k}  -> {"trusted"}
      [] k \notin KeysOf(h) -> {"mismatch"}
      [] OTHER            -> {"trusted", "mismatch"}

\* check_server_key reads the file ...
Check(t) ==
    /\ pc[t] = "check"
    /\ \E v \in Verdict(addr[t], key[t]) :
          At(t, CASE v = "trusted" -> "auth" [] v = "unknown" -> "trust"
                  [] v = "mismatch" -> "refused")
    /\ view' = [view EXCEPT ![t] = IF cli.at = "truncated" THEN "truncated" ELSE "whole"]
    /\ UNCHANGED <<known, addr, key, settled, dropped>>

\* ... and, for a host it does not know, appends the key before going on.  It
\* overtakes the others that have read the file for that host and not appended yet.
Trust(t) ==
    /\ pc[t] = "trust"
    /\ \/ /\ At(t, "auth")
          /\ known' = known \cup {[host |-> addr[t], key |-> key[t]]}
          /\ settled' = [settled EXCEPT ![addr[t]] = @ \cup {key[t]}]
          /\ view' = [u \in Tasks |->
                         IF u # t /\ pc[u] = "trust" /\ addr[u] = addr[t]
                         THEN "overtaken" ELSE view[u]]
       \/ At(t, "refused") /\ UNCHANGED <<known, view, settled>>
    /\ UNCHANGED <<addr, key, dropped>>

\* The agent's identities, then the IdentityFiles; the first that is accepted ends it.
Authenticate(t) ==
    /\ pc[t] = "auth"
    /\ \E p \in {"up", "refused"} : At(t, p)
    /\ view' = [view EXCEPT ![t] = "whole"]
    /\ UNCHANGED <<known, addr, key, settled, dropped>>

\* The attempt, or the session, is over; the caller may come back.  A supervisor
\* does so with the entry it has, or as a new subscription's.
Hangup(t) ==
    /\ pc[t] \in {"refused", "up"}
    /\ At(t, "idle")
    /\ \/ addr' = [addr EXCEPT ![t] = NoHost]
       \/ t \in scenario.deployers /\ UNCHANGED addr
    /\ key' = [key EXCEPT ![t] = AnyKey]
    /\ view' = [view EXCEPT ![t] = "whole"]
    /\ UNCHANGED <<known, settled, dropped>>

-----------------------------------------------------------------------------
(* doctor --ssh-forget: KnownHostsStore::forget.                           *)

Cli(at, seen, h) ==
    /\ cli' = [at |-> at, seen |-> seen, host |-> h]
    /\ UNCHANGED <<toml, serverKey, pc, addr, key, view>>

\* Mutant: the port is left out of the comparison, and all hosts share a name.
Kept_AnyPort(seen, h) == {}

Kept(seen, h) == {l \in seen : l.host # h}

ForgetReads(a) ==
    /\ cli.at = "done"
    /\ KeysOf(HostList[a]) # {}
    /\ scenario.forgets > 0 /\ scenario' = [scenario EXCEPT !.forgets = @ - 1]
    /\ Cli("read", known, HostList[a])
    /\ UNCHANGED <<known, settled, dropped>>

\* Hosts whose persisted line the rewrite leaves out without having read it.
Lost ==
    {h \in Hosts : \E k \in settled'[h] :
        /\ [host |-> h, key |-> k] \notin known'
        /\ h # cli.host => [host |-> h, key |-> k] \notin cli.seen}

\* std::fs::write empties the file ...
ForgetTruncates ==
    /\ cli.at = "read"
    /\ known' = {}
    /\ settled' = [settled EXCEPT ![cli.host] = {}]
    /\ dropped' = dropped \cup Lost
    /\ Cli("truncated", cli.seen, cli.host)
    /\ UNCHANGED scenario

\* ... and writes from its start, over whatever was appended meanwhile.
ForgetWrites ==
    /\ cli.at = "truncated"
    /\ known' = IF Kept(cli.seen, cli.host) = {} THEN known ELSE Kept(cli.seen, cli.host)
    /\ settled' = settled
    /\ dropped' = dropped \cup Lost
    /\ Cli("done", {}, NoHost)
    /\ UNCHANGED scenario

SshStep(t) == Dial(t) \/ Check(t) \/ Trust(t) \/ Authenticate(t)

SshEnvironment ==
    \/ EditConfig
    \/ \E h \in Hosts : Rekey(h)
    \/ \E a \in DOMAIN HostList : ForgetReads(a)
    \/ ForgetTruncates \/ ForgetWrites

-----------------------------------------------------------------------------

SshTypeOK ==
    /\ toml \in {<<>>, Toml, Broken}
    /\ serverKey \in [Hosts -> Keys]
    /\ known \subseteq Line
    /\ cli \in [at : {"done", "read", "truncated"}, seen : SUBSET Line,
                host : Hosts \cup {NoHost}]
    /\ pc \in [Tasks -> Place]
    /\ addr \in [Tasks -> Hosts \cup {NoHost}]
    /\ key \in [Tasks -> Keys]
    /\ scenario \in Scenario
    /\ view \in [Tasks -> {"whole", "truncated", "overtaken"}]
    /\ settled \in [Hosts -> SUBSET Keys]
    /\ dropped \subseteq Hosts

\* A key once persisted stays in the file until its host is forgotten: the
\* rewrite of one host's lines takes no other host's, except a line that is
\* appended after the rewrite read the file and before it wrote it back.
TrustIsKept ==
    \A h \in Hosts \ dropped : \A k \in settled[h] :
        \/ [host |-> h, key |-> k] \in known
        \/ cli.at = "truncated" /\ [host |-> h, key |-> k] \in cli.seen

\* check_server_key accepts the key: the check finds it, or Trust has appended it.
Believes(t) == pc[t] \in {"check", "trust"} /\ pc'[t] = "auth"
Persisted(t) == settled[addr[t]] = {} \/ key[t] \in settled[addr[t]]

\* What known_hosts.rs says of a changed key: "on Mismatch we reject and surface".
MismatchIsRejected == [][\A t \in Tasks : Believes(t) => Persisted(t)]_sshVars

\* A host whose key was persisted is believed only with that key until the user
\* forgets it, but in three windows in which the check does not see the line.
\* Two are forget's: while the file is truncated, and for a line it lost.  In the
\* third no forget takes part: another task persists a key for the host between
\* this task's check, which found none, and its append.
KeyChangeIsAsked ==
    [][\A t \in Tasks :
          Believes(t) => \/ Persisted(t)
                         \/ addr[t] \in dropped
                         \/ view'[t] = "truncated"
                         \/ view[t] = "overtaken"]_sshVars
=============================================================================

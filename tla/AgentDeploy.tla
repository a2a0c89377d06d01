---------------------------- MODULE AgentDeploy ----------------------------
(***************************************************************************)
(* tepegoz-ssh, deploy.rs: what a Fleet supervisor does with a session it  *)
(* has just authenticated.  It compares the agent binary in the host's     *)
(* cache with its own, uploads its own when they differ (cat > tmp, then   *)
(* mv && chmod), verifies the hash, once more on a mismatch, then executes *)
(* the file and shakes hands with it.                                      *)
(*                                                                         *)
(* Every one of those is a shell command on the host.  The caller may stop *)
(* waiting for one - a timeout, an abort, a lost connection - while the    *)
(* host goes on running it, so a command outlives its deploy.  A writer    *)
(* keeps its file when the path is renamed or unlinked: loc follows where  *)
(* the file that a cat has open is to be found now.                        *)
(***************************************************************************)
EXTENDS SshConnect

CONSTANTS Procs,       \* controller processes, for their pids
          Binary,      \* the agent each process embeds
          None         \* no binary

ASSUME DeployConstants ==
    /\ \A s \in Scenarios : s.procOf \in [Tasks -> Procs]
    /\ None # "part"
    /\ None \notin {Binary[p] : p \in Procs} /\ "part" \notin {Binary[p] : p \in Procs}

VARIABLES
    stage,   \* where each deploy stands
    tries,   \* uploads it has made
    cmd,     \* the remote command it waits for
    left,    \* the remote command it left running
    final,   \* agent-v<N> of each host
    tmp,     \* agent-v<N>.tmp.<pid>
    ran,     \* what the host executed for it last
    mixed,   \* history: hosts where two uploads of one process overlapped
    clean    \* history: nothing got in the way of this deploy

deployVars == <<stage, tries, cmd, left, final, tmp, ran, mixed, clean>>
vars == <<sshVars, deployVars>>

Stage == {"none", "inspect", "upload", "command", "verify", "exec", "running", "failed"}
Idle == {"none", "running", "failed"}
Bytes == {None, "part"} \cup {Binary[p] : p \in Procs}
File == [what : Bytes, exec : BOOLEAN]
NoFile == [what |-> None, exec |-> FALSE]

\* fresh: no other cat has truncated the file since this one opened it.
Command == [is : {"none", "cat", "rm", "mv", "chmod"}, host : Hosts \cup {NoHost},
            loc : {"none", "tmp", "final", "gone"}, fresh : BOOLEAN]
NoCommand == [is |-> "none", host |-> NoHost, loc |-> "none", fresh |-> FALSE]

procOf == scenario.procOf
Deployers == scenario.deployers
Own(t) == Binary[procOf[t]]
\* .tmp.<pid>
Suffix(t) == procOf[t]

IsWhole(f) == f.what \notin {None, "part"}

Init ==
    /\ SshInit
    /\ stage = [t \in Tasks |-> "none"] /\ tries = [t \in Tasks |-> 0]
    /\ cmd = [t \in Tasks |-> NoCommand] /\ left = [t \in Tasks |-> NoCommand]
    /\ final = [h \in Hosts |-> NoFile]
    /\ tmp = [h \in Hosts |-> [p \in Procs |-> NoFile]]
    /\ ran = [t \in Tasks |-> None]
    /\ mixed = {} /\ clean = [t \in Tasks |-> FALSE]

-----------------------------------------------------------------------------
(* The host's files.                                                       *)

\* Where the writers of the host's files stand after path `from` of process
\* p became `to`; "gone" is a file that no path names any more.
Moved(C, h, p, from, to) ==
    [t \in Tasks |->
        IF C[t].is # "cat" \/ C[t].host # h THEN C[t]
        ELSE IF C[t].loc = to /\ to = "final" THEN [C[t] EXCEPT !.loc = "gone"]
        ELSE IF C[t].loc = from /\ (from = "tmp" => Suffix(t) = p) THEN [C[t] EXCEPT !.loc = to]
        ELSE C[t]]

\* Writers of process p on tmp lose the file's newest truncation to another.
Truncated(C, h, p) ==
    [t \in Tasks |->
        IF C[t].host = h /\ C[t].loc = "tmp" /\ Suffix(t) = p
        THEN [C[t] EXCEPT !.fresh = FALSE] ELSE C[t]]

\* A cat has written its last byte: its file is whole, unless truncated since.
Written(c, t) ==
    \/ /\ c.fresh /\ c.loc = "tmp"
       /\ tmp' = [tmp EXCEPT ![c.host][Suffix(t)].what = Own(t)]
       /\ UNCHANGED final
    \/ /\ c.fresh /\ c.loc = "final"
       /\ final' = [final EXCEPT ![c.host].what = Own(t)]
       /\ UNCHANGED tmp
    \/ ~(c.fresh /\ c.loc \in {"tmp", "final"}) /\ UNCHANGED <<final, tmp>>

\* mv tmp final.
Renamed(h, p) ==
    /\ final' = [final EXCEPT ![h] = tmp[h][p]]
    /\ tmp' = [tmp EXCEPT ![h][p] = NoFile]

\* rm -f tmp.
Removed(h, p) ==
    /\ tmp' = [tmp EXCEPT ![h][p] = NoFile]
    /\ UNCHANGED final

MadeExecutable(h) ==
    /\ final' = [final EXCEPT ![h].exec = TRUE]
    /\ UNCHANGED tmp

-----------------------------------------------------------------------------
(* One deploy.                                                             *)

Goes(t, s) == stage' = [stage EXCEPT ![t] = s]
Waits(t, c) == cmd' = [cmd EXCEPT ![t] = c]

\* Another deploy, or what one left behind, is at work on host h.
Busy(t, h) ==
    \/ \E u \in Tasks \ {t} :
          addr[u] = h /\ stage[u] \notin Idle
    \/ \E u \in Tasks : left[u].host = h

\* detect_target and resolve_remote_home; a host that answers neither is refused.
Detect(t) ==
    /\ t \in Deployers /\ pc[t] = "up" /\ stage[t] = "none"
    /\ \E s \in {"inspect", "failed"} :
          /\ Goes(t, s)
          /\ clean' = [u \in Tasks |->
                          IF u = t THEN s = "inspect" /\ ~Busy(t, addr[t])
                                        /\ (IsWhole(final[addr[t]]) => final[addr[t]].exec)
                          ELSE clean[u] /\ addr[u] # addr[t]]
    /\ tries' = [tries EXCEPT ![t] = 0]
    /\ ran' = [ran EXCEPT ![t] = None]
    /\ UNCHANGED <<sshVars, cmd, left, final, tmp, mixed>>

\* Mutant: a file at the path is taken for the agent.
Cached_IfPresent(t) == final[addr[t]].what # None

\* inspect_remote_agent.
Cached(t) == final[addr[t]].what = Own(t)

Inspect(t) ==
    /\ stage[t] = "inspect"
    /\ Goes(t, IF Cached(t) THEN "exec" ELSE "upload")
    /\ UNCHANGED <<sshVars, tries, cmd, left, final, tmp, ran, mixed, clean>>

\* upload_binary: mkdir -p, and the shell opens tmp for cat.
OpenTmp(t) ==
    LET h == addr[t]  p == Suffix(t) IN
    /\ stage[t] = "upload"
    /\ Goes(t, "command")
    /\ tries' = [tries EXCEPT ![t] = @ + 1]
    /\ tmp' = [tmp EXCEPT ![h][p] = [what |-> "part", exec |-> FALSE]]
    /\ cmd' = [Truncated(cmd, h, p) EXCEPT ![t] =
                  [is |-> "cat", host |-> h, loc |-> "tmp", fresh |-> TRUE]]
    /\ left' = Truncated(left, h, p)
    /\ mixed' = IF \E u \in Tasks :
                      /\ procOf[u] = procOf[t]
                      /\ \/ u # t /\ cmd[u].host = h /\ cmd[u].is \in {"cat", "mv"}
                         \/ left[u].host = h /\ left[u].is \in {"cat", "mv"}
                THEN mixed \cup {h} ELSE mixed
    /\ UNCHANGED <<sshVars, final, ran, clean>>

\* cat exits 0 and the rename is issued.
CatEnds(t) ==
    /\ cmd[t].is = "cat"
    /\ Written(cmd[t], t)
    /\ Waits(t, [is |-> "mv", host |-> addr[t], loc |-> "none", fresh |-> FALSE])
    /\ UNCHANGED <<sshVars, stage, tries, left, ran, mixed, clean>>

\* Mutant: the exit status of cat is not looked at.
CatFails_GoesOn(t) ==
    /\ cmd[t].is = "cat"
    /\ Waits(t, [is |-> "mv", host |-> addr[t], loc |-> "none", fresh |-> FALSE])
    /\ clean' = [clean EXCEPT ![t] = FALSE]
    /\ UNCHANGED <<sshVars, stage, tries, final, tmp, left, ran, mixed>>

\* cat exits otherwise (a full disk): rm -f tmp is issued ...
CatFails(t) ==
    /\ cmd[t].is = "cat"
    /\ Waits(t, [is |-> "rm", host |-> addr[t], loc |-> "none", fresh |-> FALSE])
    /\ clean' = [clean EXCEPT ![t] = FALSE]
    /\ UNCHANGED <<sshVars, stage, tries, final, tmp, left, ran, mixed>>

\* ... and the deploy fails, whatever becomes of the rm.
Remove(t) ==
    LET h == addr[t]  p == Suffix(t) IN
    /\ cmd[t].is = "rm"
    /\ Goes(t, "failed")
    /\ \/ /\ Removed(h, p)
          /\ cmd' = [Moved(cmd, h, p, "tmp", "gone") EXCEPT ![t] = NoCommand]
          /\ left' = Moved(left, h, p, "tmp", "gone")
       \/ Waits(t, NoCommand) /\ UNCHANGED <<final, tmp, left>>
    /\ UNCHANGED <<sshVars, tries, ran, mixed, clean>>

Move(t) ==
    LET h == addr[t]  p == Suffix(t) IN
    /\ cmd[t].is = "mv"
    /\ \/ /\ tmp[h][p] # NoFile
          /\ Renamed(h, p)
          /\ cmd' = [Moved(cmd, h, p, "tmp", "final") EXCEPT ![t].is = "chmod"]
          /\ left' = Moved(left, h, p, "tmp", "final")
          /\ UNCHANGED stage
       \/ /\ tmp[h][p] = NoFile
          /\ Goes(t, "failed") /\ Waits(t, NoCommand)
          /\ UNCHANGED <<final, tmp, left>>
    /\ UNCHANGED <<sshVars, tries, ran, mixed, clean>>

Chmod(t) ==
    /\ cmd[t].is = "chmod"
    /\ MadeExecutable(addr[t])
    /\ Goes(t, "verify") /\ Waits(t, NoCommand)
    /\ UNCHANGED <<sshVars, tries, left, ran, mixed, clean>>

Verified(t) == final[addr[t]].what = Own(t)

\* compute_remote_hash: a mismatch uploads once more, a second one is the end.
Verify(t) ==
    /\ stage[t] = "verify"
    /\ Goes(t, IF Verified(t) THEN "exec" ELSE IF tries[t] = 1 THEN "upload" ELSE "failed")
    /\ UNCHANGED <<sshVars, tries, cmd, left, final, tmp, ran, mixed, clean>>

\* spawn_agent_channel and handshake_agent.  The host refuses a file that is
\* not executable; only a whole agent answers; one that does may still fail to.
Exec(t) ==
    LET f == final[addr[t]] IN
    /\ stage[t] = "exec"
    /\ ran' = [ran EXCEPT ![t] = IF f.exec THEN f.what ELSE None]
    /\ \/ f.exec /\ IsWhole(f) /\ Goes(t, "running") /\ UNCHANGED clean
       \/ ~(f.exec /\ IsWhole(f)) /\ Goes(t, "failed") /\ UNCHANGED clean
       \/ /\ f.exec /\ IsWhole(f) /\ Goes(t, "failed")
          /\ clean' = [clean EXCEPT ![t] = FALSE]
    /\ UNCHANGED <<sshVars, tries, cmd, left, final, tmp, mixed>>

-----------------------------------------------------------------------------
(* Giving up, and what is left on the host.                                *)

Forgotten(t) ==
    /\ Goes(t, "none")
    /\ tries' = [tries EXCEPT ![t] = 0]
    /\ ran' = [ran EXCEPT ![t] = None]
    /\ clean' = [clean EXCEPT ![t] = FALSE]

\* The caller drops a session on which no deploy is under way.
Ends(t) ==
    /\ stage[t] \in Idle
    /\ Hangup(t) /\ Forgotten(t)
    /\ UNCHANGED <<cmd, left, final, tmp, mixed>>

\* run_exec times out, which fails the deploy, or the supervisor is aborted or
\* loses its session: the command is killed, or it is left to run.
GivesUp(t) ==
    /\ stage[t] \notin Idle
    /\ \/ Hangup(t) /\ Forgotten(t)
       \/ /\ Goes(t, "failed") /\ clean' = [clean EXCEPT ![t] = FALSE]
          /\ UNCHANGED <<sshVars, tries, ran>>
    /\ Waits(t, NoCommand)
    /\ \/ UNCHANGED left
       \/ /\ cmd[t].is # "none" /\ left[t].is = "none"
          /\ left' = [left EXCEPT ![t] = cmd[t]]
    /\ UNCHANGED <<final, tmp, mixed>>

LeftDone(t) == [left EXCEPT ![t] = NoCommand]

\* A command left behind does its work, or the host kills it.
LeftRuns(t) ==
    LET h == left[t].host  p == Suffix(t) IN
    /\ \/ left[t].is # "none" /\ left' = LeftDone(t) /\ UNCHANGED <<final, tmp, cmd>>
       \/ left[t].is = "cat" /\ Written(left[t], t) /\ left' = LeftDone(t) /\ UNCHANGED cmd
       \/ /\ left[t].is = "mv" /\ tmp[h][p] # NoFile
          /\ Renamed(h, p)
          /\ left' = [Moved(left, h, p, "tmp", "final") EXCEPT ![t].is = "chmod"]
          /\ cmd' = Moved(cmd, h, p, "tmp", "final")
       \/ /\ left[t].is = "rm"
          /\ Removed(h, p)
          /\ left' = [Moved(left, h, p, "tmp", "gone") EXCEPT ![t] = NoCommand]
          /\ cmd' = Moved(cmd, h, p, "tmp", "gone")
       \/ left[t].is = "chmod" /\ MadeExecutable(h) /\ left' = LeftDone(t) /\ UNCHANGED cmd
    /\ UNCHANGED <<sshVars, stage, tries, ran, mixed, clean>>

Connecting == \E t \in Tasks : SshStep(t)

Next ==
    \/ (Connecting \/ SshEnvironment) /\ UNCHANGED deployVars
    \/ \E t \in Tasks :
          \/ Ends(t) \/ Detect(t) \/ Inspect(t) \/ OpenTmp(t) \/ CatEnds(t) \/ CatFails(t)
          \/ Remove(t) \/ Move(t) \/ Chmod(t) \/ Verify(t) \/ Exec(t)
          \/ GivesUp(t) \/ LeftRuns(t)

Spec == Init /\ [][Next]_vars

-----------------------------------------------------------------------------

TypeOK ==
    /\ SshTypeOK
    /\ stage \in [Tasks -> Stage] /\ tries \in [Tasks -> 0..2]
    /\ cmd \in [Tasks -> Command] /\ left \in [Tasks -> Command]
    /\ final \in [Hosts -> File]
    /\ tmp \in [Hosts -> [Procs -> File]]
    /\ ran \in [Tasks -> Bytes]
    /\ mixed \subseteq Hosts /\ clean \in [Tasks -> BOOLEAN]

\* However deploys of different controllers, aborted deploys and the commands
\* they leave behind interleave, the host never executes a half-written agent,
\* as long as no two uploads of one process to it overlapped.
WholeAgentRuns ==
    \A t \in Tasks : ran[t] = "part" => addr[t] \in mixed

\* The types, and what the host executes.
DeployInv == TypeOK /\ WholeAgentRuns

\* Whatever earlier attempts left on the host - a partial file, a stale agent,
\* an abandoned tmp - a deploy that nothing disturbs succeeds.  One leftover
\* is not healed: the right binary renamed but never made executable.
HealsOnNextDeploy ==
    \A t \in Tasks : stage[t] = "failed" => ~clean[t]
=============================================================================

----------------------------- MODULE DaemonLink -----------------------------
(***************************************************************************)
(* The daemon's socket and what runs over it: starting, stopping and       *)
(* crashing daemons that share one path (tepegoz-core, daemon.rs), the     *)
(* frames of the wire (tepegoz-proto, codec.rs), the handshake and the     *)
(* command loop of a session (client.rs), and the TUI's end of it (lib.rs  *)
(* and session.rs of tepegoz-tui).                                         *)
(*                                                                         *)
(* A frame is its length prefix and its body, which may arrive apart; each *)
(* is a part [n, k], frame n and part 1 or 2.  What commands do is left to *)
(* the other modules: here they are pings and a status subscription.       *)
(***************************************************************************)
EXTENDS Integers, Sequences, FiniteSets, SequencesExt

CONSTANTS Daemons,     \* daemon processes started on the path, each once
          Clients,     \* clients, each with one connection
          MaxSent,     \* frames a client sends, Hello included
          MaxWritten   \* frames the daemon writes to a client, bounding the ticks

None == "none"

ASSUME DaemonLinkConstants ==
    MaxSent \in Nat \ {0} /\ MaxWritten \in Nat /\ None \notin Daemons

Hellos == {"ok", "badVersion", "notHello"}

VARIABLES
    file,     \* the socket at the path: who bound it, or None
    phase,    \* where each daemon is
    raced,    \* history: it started or stopped while another did
    alone,    \* history: no other daemon ran while it started
    link,     \* the daemon a client is connected to, or None
    client,   \* [st, hello, sent, buf, heard]: the client's side
    session,  \* [st, status, buf, out, wrote, cut, cause]: the daemon's side
    up, down  \* parts under way to the daemon and to the client

daemonVars == <<file, phase, raced, alone>>
vars == <<daemonVars, link, client, session, up, down>>

NoSession == [st |-> "none", status |-> FALSE, buf |-> <<>>, out |-> <<>>,
              wrote |-> <<>>, cut |-> FALSE, cause |-> None]

Init ==
    /\ file = None
    /\ phase = [d \in Daemons |-> "off"]
    /\ raced = [d \in Daemons |-> FALSE] /\ alone = [d \in Daemons |-> FALSE]
    /\ link = [c \in Clients |-> None]
    /\ client \in [Clients -> {[st |-> "off", hello |-> h, sent |-> <<>>, buf |-> <<>>,
                                heard |-> <<>>] : h \in Hellos}]
    /\ session = [c \in Clients |-> NoSession]
    /\ up = [c \in Clients |-> <<>>] /\ down = [c \in Clients |-> <<>>]

-----------------------------------------------------------------------------
(* Daemons: run_daemon_with_resolver.                                      *)

Starting == {"probing", "evicting", "binding", "securing"}
Changing == Starting \cup {"closing"}
Listening == {"securing", "serving"}
Running == Changing \cup {"serving", "draining"}

Moves(d, from, to) == phase[d] = from /\ phase' = [phase EXCEPT ![d] = to]

\* Starting or stopping next to another daemon that does; or, for one that lost the
\* path in this way before, next to one that has it.
Races(d) ==
    LET others == {e \in Daemons \ {d} :
                      phase[e] \in Changing \/ (raced[d] /\ phase[e] = "serving")}
    IN  raced' = [e \in Daemons |-> raced[e] \/ e \in others \/ (e = d /\ others # {})]

\* prepare_socket_parent and the first look of evict_stale_socket.
Begin(d) ==
    /\ Moves(d, "off", IF file = None THEN "binding" ELSE "probing")
    /\ Races(d)
    /\ alone' = [e \in Daemons |->
                    IF e = d THEN \A o \in Daemons \ {d} : phase[o] \notin Running
                    ELSE alone[e] /\ phase[e] \notin Starting]
    /\ UNCHANGED <<file, link, client, session, up, down>>

\* Mutant: an answer is taken for a stale socket, too.
Probe_IgnoresAnswer(d) ==
    /\ Moves(d, "probing", "evicting")
    /\ UNCHANGED <<file, raced, alone, link, client, session, up, down>>

\* The connect of evict_stale_socket: another daemon that answers is respected.
Probe(d) ==
    /\ Moves(d, "probing", IF file # None /\ phase[file] \in Listening
                           THEN "failed" ELSE "evicting")
    /\ UNCHANGED <<file, raced, alone, link, client, session, up, down>>

\* Mutant: the stale socket stays where it is.
Evict_Leaves(d) ==
    /\ Moves(d, "evicting", "binding")
    /\ UNCHANGED <<file, raced, alone, link, client, session, up, down>>

\* Its remove_file, of whatever is there by now.
Evict(d) ==
    /\ Moves(d, "evicting", IF file = None THEN "failed" ELSE "binding")
    /\ file' = None
    /\ UNCHANGED <<raced, alone, link, client, session, up, down>>

Bind(d) ==
    /\ Moves(d, "binding", IF file = None THEN "securing" ELSE "failed")
    /\ file' = IF file = None THEN d ELSE file
    /\ UNCHANGED <<raced, alone, link, client, session, up, down>>

\* The process ends and its connections with it.  What the writers had put on the
\* socket is still delivered.
Gone(d) ==
    session' = [c \in Clients |->
                  IF link[c] = d /\ session[c].st \notin {"none", "closed"}
                  THEN [session[c] EXCEPT !.st = "closed", !.out = <<>>,
                                          !.cause = IF session[c].cause = None THEN "daemon"
                                                    ELSE session[c].cause]
                  ELSE session[c]]

\* set_socket_perms, by path.  Its failure drops the listener with its backlog.
Secure(d) ==
    /\ Moves(d, "securing", IF file = None THEN "failed" ELSE "serving")
    /\ IF file = None THEN Gone(d) ELSE UNCHANGED session
    /\ UNCHANGED <<file, raced, alone, link, client, up, down>>

\* ctrl-c: the loop is left and the listener dropped, with what it had not accepted.
Stop(d) ==
    /\ Moves(d, "serving", "closing")
    /\ Races(d)
    /\ session' = [c \in Clients |->
                     IF link[c] = d /\ session[c].st = "queued"
                     THEN [session[c] EXCEPT !.st = "closed", !.cause = "daemon"]
                     ELSE session[c]]
    /\ UNCHANGED <<file, alone, link, client, up, down>>

\* The remove_file of the shutdown.
Unlink(d) ==
    /\ Moves(d, "closing", "draining")
    /\ file' = None
    /\ UNCHANGED <<raced, alone, link, client, session, up, down>>

\* After the clients have finished, or a second.
Exit(d) ==
    /\ Moves(d, "draining", "exited") /\ Gone(d)
    /\ UNCHANGED <<file, raced, alone, link, client, up, down>>

\* Killed, by anything but SIGINT in the loop: the socket file stays.
Crash(d) ==
    /\ phase[d] \in Running
    /\ phase' = [phase EXCEPT ![d] = "exited"] /\ Gone(d)
    /\ UNCHANGED <<file, raced, alone, link, client, up, down>>

-----------------------------------------------------------------------------
(* The client's side: connect, handshake, and the reader task.             *)

Parts(n, what) == <<[n |-> n, k |-> 1, what |-> what], [n |-> n, k |-> 2, what |-> what]>>
Online == {"greeting", "open"}

\* resolve_socket_path's look at the file, the connect, and Hello.
Connect(c) ==
    /\ client[c].st = "off" /\ file # None /\ phase[file] \in Listening
    /\ link' = [link EXCEPT ![c] = file]
    /\ client' = [client EXCEPT ![c].st = "greeting", ![c].sent = <<client[c].hello>>]
    /\ session' = [session EXCEPT ![c].st = "queued"]
    /\ up' = [up EXCEPT ![c] = Parts(1, client[c].hello)]
    /\ UNCHANGED <<daemonVars, down>>

Send(c) ==
    /\ client[c].st = "open" /\ Len(client[c].sent) < MaxSent
    /\ \E what \in {"ping", "status"} :
          /\ client' = [client EXCEPT ![c].sent = Append(@, what)]
          /\ up' = [up EXCEPT ![c] = @ \o Parts(Len(client[c].sent) + 1, what)]
    /\ UNCHANGED <<daemonVars, link, session, down>>

\* Leaving aborts reader and writer; some of what was sent may not get out.
Leave(c) ==
    /\ client[c].st = "open"
    /\ client' = [client EXCEPT ![c].st = "left"]
    /\ \E n \in 0 .. Len(up[c]) : up' = [up EXCEPT ![c] = SubSeq(@, 1, n)]
    /\ UNCHANGED <<daemonVars, link, session, down>>

\* read_envelope, in handshake and then in the reader task.
ClientRead(c) ==
    /\ client[c].st \in Online /\ down[c] # <<>>
    /\ down' = [down EXCEPT ![c] = Tail(@)]
    /\ LET p == Head(down[c]) IN
       client' = IF p.k = 1 THEN [client EXCEPT ![c].buf = <<p>>]
                 ELSE [client EXCEPT ![c].buf = <<>>, ![c].heard = Append(@, p.what),
                         ![c].st = IF @ = "open" \/ p.what = "welcome" THEN "open"
                                   ELSE "refused"]
    /\ UNCHANGED <<daemonVars, link, session, up>>

\* The connection has ended: bail in the handshake, DaemonClosed in the event loop,
\* after everything that was in the inbox.
ClientEof(c) ==
    /\ client[c].st \in Online /\ down[c] = <<>> /\ session[c].st = "closed"
    /\ client' = [client EXCEPT ![c].st = IF @ = "open" THEN "daemonClosed" ELSE "eof"]
    /\ UNCHANGED <<daemonVars, link, session, up, down>>

-----------------------------------------------------------------------------
(* The daemon's side: handle_client and session.                           *)

Active == {"hello", "serving"}
Ended(s, why) == [s EXCEPT !.st = "ending", !.status = FALSE, !.cause = why]
Replied(s, what) == [s EXCEPT !.out = Append(@, what)]

Accept(c) ==
    /\ session[c].st = "queued" /\ phase[link[c]] = "serving"
    /\ session' = [session EXCEPT ![c].st = "hello"]
    /\ UNCHANGED <<daemonVars, link, client, up, down>>

\* The handshake, and then handle_command.
Handled(s, what) ==
    CASE s.st = "hello" /\ what = "ok" -> Replied([s EXCEPT !.st = "serving"], "welcome")
      [] s.st = "hello" /\ what = "badVersion" -> Ended(Replied(s, "refusal"), "refused")
      [] s.st = "hello" /\ what = "notHello" -> Ended(s, "notHello")
      [] s.st = "serving" /\ what = "ping" -> Replied(s, "pong")
      [] s.st = "serving" /\ what = "status" ->
            Replied([s EXCEPT !.status = TRUE], "snapshot")

\* read_envelope, a part at a time.  A part that is taken for something else makes
\* a length beyond MAX_FRAME_SIZE, a body that does not decode, or a body that is
\* still incomplete.
Read(c) ==
    /\ session[c].st \in Active /\ up[c] # <<>>
    /\ up' = [up EXCEPT ![c] = Tail(@)]
    /\ LET p == Head(up[c])
           s == session[c]
           prefix == s.buf = <<>> /\ p.k = 1
           body == s.buf # <<>> /\ s.buf[1].k = 1 /\ p.n = s.buf[1].n /\ p.k = 2
       IN  \/ /\ prefix
              /\ session' = [session EXCEPT ![c].buf = <<p>>]
           \/ /\ body
              /\ session' = [session EXCEPT ![c] = Handled([s EXCEPT !.buf = <<>>], p.what)]
           \/ /\ ~prefix /\ ~body
              /\ \/ session' = [session EXCEPT ![c] = Ended(s, "protocol")]
                 \/ session' = [session EXCEPT ![c].buf = IF @ = <<>> THEN <<p>> ELSE @]
    /\ UNCHANGED <<daemonVars, link, client, down>>

\* The client is gone and its last part was read.
ReadEof(c) ==
    /\ session[c].st \in Active /\ up[c] = <<>>
    /\ client[c].st \in {"left", "refused"}
    /\ session' = [session EXCEPT ![c] = Ended(@, "client")]
    /\ UNCHANGED <<daemonVars, link, client, up, down>>

\* The status ticker wins the select; the read under way is dropped with what it has.
Tick(c) ==
    /\ session[c].st = "serving" /\ session[c].status
    /\ Len(session[c].wrote) + Len(session[c].out) < MaxWritten
    /\ session' = [session EXCEPT ![c] =
                      Replied([session[c] EXCEPT
                                 !.buf = <<>>,
                                 !.cut = session[c].cut \/ session[c].buf # <<>>], "snapshot")]
    /\ UNCHANGED <<daemonVars, link, client, up, down>>

\* Mutant: the loop writes itself, and starts its read anew after that.
Write_InLoop(c) ==
    /\ session[c].st \in Active \cup {"ending"} /\ session[c].out # <<>>
    /\ LET what == Head(session[c].out) IN
       /\ session' = [session EXCEPT ![c].out = Tail(@), ![c].wrote = Append(@, what),
                                     ![c].buf = <<>>]
       /\ down' = [down EXCEPT ![c] = @ \o Parts(Len(session[c].wrote) + 1, what)]
    /\ UNCHANGED <<daemonVars, link, client, up>>

\* spawn_writer_task.  A client that is gone ends the writer.
Write(c) ==
    /\ session[c].st \in Active \cup {"ending"} /\ session[c].out # <<>>
    /\ LET what == Head(session[c].out) IN
       \/ /\ client[c].st \in Online
          /\ session' = [session EXCEPT ![c].out = Tail(@), ![c].wrote = Append(@, what)]
          /\ down' = [down EXCEPT ![c] = @ \o Parts(Len(session[c].wrote) + 1, what)]
       \/ /\ client[c].st \notin Online
          /\ session' = [session EXCEPT ![c].out = <<>>]
          /\ UNCHANGED down
    /\ UNCHANGED <<daemonVars, link, client, up>>

\* drop(event_tx), the writer has written it all, and handle_client returns.
Close(c) ==
    /\ session[c].st = "ending" /\ session[c].out = <<>>
    /\ session' = [session EXCEPT ![c].st = "closed"]
    /\ UNCHANGED <<daemonVars, link, client, up, down>>

-----------------------------------------------------------------------------
Next ==
    \/ \E d \in Daemons : \/ Begin(d) \/ Probe(d) \/ Evict(d) \/ Bind(d) \/ Secure(d)
                          \/ Stop(d) \/ Unlink(d) \/ Exit(d) \/ Crash(d)
    \/ \E c \in Clients : \/ Connect(c) \/ Send(c) \/ Leave(c) \/ ClientRead(c) \/ ClientEof(c)
                          \/ Accept(c) \/ Read(c) \/ ReadEof(c) \/ Tick(c) \/ Write(c) \/ Close(c)

Spec == Init /\ [][Next]_vars

-----------------------------------------------------------------------------
(* Properties.                                                             *)

TypeOK ==
    /\ file \in Daemons \cup {None}
    /\ phase \in [Daemons -> Running \cup {"off", "failed", "exited"}]
    /\ link \in [Clients -> Daemons \cup {None}]
    /\ \A c \in Clients :
          /\ client[c].st \in Online \cup {"off", "refused", "eof", "daemonClosed", "left"}
          /\ session[c].st \in Active \cup {"none", "queued", "ending", "closed"}

\* A daemon that serves is the one at the path, where clients find it, unless it
\* started or stopped while another one did: nothing locks the path between the
\* probe and the bind, nor between the drop of the listener and the unlink.
ServesItsPath == \A d \in Daemons : phase[d] = "serving" /\ ~raced[d] => file = d

\* Whatever a crash left at the path, a daemon that starts with no other one running
\* gets the path.
AloneStarts == \A d \in Daemons : alone[d] => phase[d] # "failed"

\* A client of another version reads the refusal and not merely the end of the
\* connection, as long as the daemon itself keeps running.
RefusalIsTold ==
    \A c \in Clients :
        client[c].hello = "badVersion" /\ client[c].st = "eof" =>
            phase[link[c]] \notin Listening \/ session[c].cause = "daemon"

\* A session whose client keeps to the protocol is only dropped as broken after a
\* status tick cut a read short.
ValidClientKept ==
    \A c \in Clients : session[c].cause = "protocol" => session[c].cut

\* The TUI hears all that was written to it, in order, before it reports that the
\* daemon closed the connection.
LastWordsHeard ==
    \A c \in Clients : /\ client[c].st = "daemonClosed" => client[c].heard = session[c].wrote
                       /\ IsPrefix(client[c].heard, session[c].wrote)

\* The types, and what two ends of a connection owe each other: a valid client is
\* served, a refused one told, and the last words are heard.
LinkInv == TypeOK /\ ValidClientKept /\ RefusalIsTold /\ LastWordsHeard
=============================================================================

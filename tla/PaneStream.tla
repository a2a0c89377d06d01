----------------------------- MODULE PaneStream -----------------------------
(***************************************************************************)
(* What a local pane (tepegoz-pty) and a remote pane (tepegoz-core,        *)
(* remote_pane.rs) have in common: the bounded scrollback, the tokio       *)
(* broadcast channel of PaneUpdates, the manager's map entry, and the      *)
(* daemon task (forward_pane / forward_remote_pane) that carries the pane  *)
(* to one client subscription.                                             *)
(*                                                                         *)
(* The bytes of the pane are numbered 0, 1, 2, ... in the order in which   *)
(* they were read; a chunk of output is the interval [from, to) of byte    *)
(* numbers.  The contents of a byte do not matter to anything here.        *)
(***************************************************************************)
EXTENDS Integers, Sequences

CONSTANTS Subs,       \* the subscriptions that clients open on this pane
          RingCap,    \* BROADCAST_CHANNEL_SIZE / REMOTE_BROADCAST_CAPACITY
          ScrollCap,  \* DEFAULT_RING_CAPACITY / REMOTE_SCROLLBACK_CAPACITY
          Codes,      \* exit codes a child can report
          NoCode      \* None

ASSUME PaneConstants ==
    /\ RingCap \in Nat \ {0}
    /\ ScrollCap \in Nat
    /\ NoCode \notin Codes

VARIABLES
    scroll,      \* Scrollback.chunks
    total,       \* Scrollback.total_bytes
    pos,         \* number of bytes appended to the scrollback so far
    sent,        \* every PaneUpdate sent on output_tx, oldest first
    alive,       \* Pane.alive
    exitCode,    \* Pane.exit_code
    registered,  \* the pane is in the manager's map
    pc,          \* where the forwarder of each subscription stands
    next,        \* the forwarder's broadcast receiver: next index of sent
    out          \* the events the forwarder put on the client's event_tx

streamVars == <<scroll, total, pos, sent, alive, exitCode, registered,
                pc, next, out>>

Code == Codes \cup {NoCode}
Chunk == [from : Nat, to : Nat]

\* A PaneUpdate.  Exit carries the byte number at which it entered the channel.
Update == [kind : {"bytes", "exit"}, from : Nat, to : Nat, code : Code]

\* An event of a subscription.  from and to are the bytes it accounts for: the
\* bytes it carries, or for "lagged" the bytes the subscriber will never see;
\* n is the dropped_bytes field of PaneLagged.
Event == [kind : {"snapshot", "output", "lagged", "exit"},
          from : Nat, to : Nat, n : Nat, code : Code]

BytesUpdate(c) == [kind |-> "bytes", from |-> c.from, to |-> c.to, code |-> NoCode]
ExitUpdate(at, code) == [kind |-> "exit", from |-> at, to |-> at, code |-> code]

DataEvent(kind, c) ==
    [kind |-> kind, from |-> c.from, to |-> c.to, n |-> 0, code |-> NoCode]
LaggedEvent(c, n) ==
    [kind |-> "lagged", from |-> c.from, to |-> c.to, n |-> n, code |-> NoCode]
ExitEvent(at, code) ==
    [kind |-> "exit", from |-> at, to |-> at, n |-> 0, code |-> code]

-----------------------------------------------------------------------------
(* Scrollback.                                                             *)

\* Intervals that follow each other without a gap or an overlap.
Gapless(q) == \A i \in 1 .. Len(q) - 1 : q[i].to = q[i + 1].from

\* The number of bytes in chunks that follow each other without a gap.
Span(chunks) ==
    IF chunks = <<>> THEN 0 ELSE chunks[Len(chunks)].to - chunks[1].from

\* Mutant: the capacity is enforced before the push.
ScrollAppend_EvictsFirst(c) ==
    /\ pos' = c.to
    /\ scroll' = IF c.from = c.to THEN scroll
                 ELSE Append(IF total > ScrollCap THEN Tail(scroll) ELSE scroll, c)
    /\ total' = Span(scroll')

\* Scrollback::append: an empty chunk is ignored; any other is pushed, and the
\* front is popped while total_bytes exceeds the capacity.  k is the number of
\* chunks the loop pops.
ScrollAppend(c) ==
    LET chunks == Append(scroll, c)
        left(k) == total + (c.to - c.from) - Span(SubSeq(chunks, 1, k))
    IN  /\ pos' = c.to
        /\ \/ c.from = c.to /\ UNCHANGED <<scroll, total>>
           \/ /\ c.from # c.to
              /\ \E k \in 0 .. Len(chunks) :
                    /\ \A j \in 0 .. k - 1 : left(j) > ScrollCap
                    /\ left(k) <= ScrollCap \/ k = Len(chunks)
                    /\ scroll' = SubSeq(chunks, k + 1, Len(chunks))
                    /\ total' = left(k)

\* Scrollback::snapshot: the bytes of the chunks, back to back.
Snapshot ==
    IF scroll = <<>> THEN [from |-> pos, to |-> pos]
    ELSE [from |-> scroll[1].from, to |-> scroll[Len(scroll)].to]

-----------------------------------------------------------------------------
(* The broadcast channel (tokio::sync::broadcast).                         *)

\* The byte number that the next PaneUpdate will start at.
SentTo == IF sent = <<>> THEN 0 ELSE sent[Len(sent)].to

\* The oldest index a receiver can still read.
Oldest == IF Len(sent) > RingCap THEN Len(sent) - RingCap + 1 ELSE 1

\* The byte number at which a receiver positioned at index i will read on.
ReadsAt(i) == IF i <= Len(sent) THEN sent[i].from ELSE SentTo

Send(u) == sent' = Append(sent, u)

-----------------------------------------------------------------------------
(* The forwarder of one subscription.                                      *)

ForwarderPc == {"idle", "spawned", "check", "stream", "done", "refused", "gone"}

\* handle_command, AttachPane: the manager's map decides.
AttachPane(s) ==
    /\ pc[s] = "idle"
    /\ pc' = [pc EXCEPT ![s] = IF registered THEN "spawned" ELSE "refused"]
    /\ UNCHANGED <<scroll, total, pos, sent, alive, exitCode, registered, next, out>>

\* Mutant: the receiver starts at the latest value, as a watch channel's does.
Subscribe_LatestValue(s) ==
    /\ pc[s] = "spawned"
    /\ out' = [out EXCEPT ![s] = Append(@, DataEvent("snapshot", Snapshot))]
    /\ next' = [next EXCEPT ![s] = IF sent = <<>> THEN 1 ELSE Len(sent)]
    /\ pc' = [pc EXCEPT ![s] = "check"]
    /\ UNCHANGED <<scroll, total, pos, sent, alive, exitCode, registered>>

\* Pane::subscribe under the scrollback lock, then the PaneSnapshot event.
Subscribe(s) ==
    /\ pc[s] = "spawned"
    /\ out' = [out EXCEPT ![s] = Append(@, DataEvent("snapshot", Snapshot))]
    /\ next' = [next EXCEPT ![s] = Len(sent) + 1]
    /\ pc' = [pc EXCEPT ![s] = "check"]
    /\ UNCHANGED <<scroll, total, pos, sent, alive, exitCode, registered>>

\* Byte number up to which the subscription has been accounted for.
At(s) == out[s][Len(out[s])].to

\* Mutant: the early exit lacks its return.
CheckAlive_FallsThrough(s) ==
    /\ pc[s] = "check"
    /\ pc' = [pc EXCEPT ![s] = "stream"]
    /\ out' = IF alive THEN out
              ELSE [out EXCEPT ![s] = Append(@, ExitEvent(At(s), exitCode))]
    /\ UNCHANGED <<scroll, total, pos, sent, alive, exitCode, registered, next>>

\* Mutant: the receive loop is entered without looking at alive.
CheckAlive_Missing(s) ==
    /\ pc[s] = "check"
    /\ pc' = [pc EXCEPT ![s] = "stream"]
    /\ UNCHANGED <<scroll, total, pos, sent, alive, exitCode, registered, next, out>>

\* if !pane.is_alive() { send exit; return }
CheckAlive(s) ==
    /\ pc[s] = "check"
    /\ IF alive
       THEN /\ pc' = [pc EXCEPT ![s] = "stream"]
            /\ UNCHANGED out
       ELSE /\ pc' = [pc EXCEPT ![s] = "done"]
            /\ out' = [out EXCEPT ![s] = Append(@, ExitEvent(At(s), exitCode))]
    /\ UNCHANGED <<scroll, total, pos, sent, alive, exitCode, registered, next>>

\* rx.recv() = Ok(Bytes(b))
RecvBytes(s) ==
    /\ pc[s] = "stream"
    /\ next[s] \in Oldest .. Len(sent)
    /\ sent[next[s]].kind = "bytes"
    /\ out' = [out EXCEPT ![s] = Append(@, DataEvent("output", sent[next[s]]))]
    /\ next' = [next EXCEPT ![s] = @ + 1]
    /\ UNCHANGED <<scroll, total, pos, sent, alive, exitCode, registered, pc>>

\* Mutant: the exit event is sent without the code.
RecvExit_DropsCode(s) ==
    /\ pc[s] = "stream"
    /\ next[s] \in Oldest .. Len(sent)
    /\ sent[next[s]].kind = "exit"
    /\ out' = [out EXCEPT ![s] = Append(@, ExitEvent(At(s), NoCode))]
    /\ next' = [next EXCEPT ![s] = @ + 1]
    /\ pc' = [pc EXCEPT ![s] = "done"]
    /\ UNCHANGED <<scroll, total, pos, sent, alive, exitCode, registered>>

\* rx.recv() = Ok(Exit { exit_code })
RecvExit(s) ==
    /\ pc[s] = "stream"
    /\ next[s] \in Oldest .. Len(sent)
    /\ sent[next[s]].kind = "exit"
    /\ out' = [out EXCEPT ![s] = Append(@, ExitEvent(At(s), sent[next[s]].code))]
    /\ next' = [next EXCEPT ![s] = @ + 1]
    /\ pc' = [pc EXCEPT ![s] = "done"]
    /\ UNCHANGED <<scroll, total, pos, sent, alive, exitCode, registered>>

\* rx.recv() = Err(Lagged(n)): the receiver was overrun and moves to the oldest
\* retained update; n counts the updates it lost.
RecvLagged(s) ==
    /\ pc[s] = "stream"
    /\ next[s] < Oldest
    /\ out' = [out EXCEPT ![s] =
                 Append(@, LaggedEvent([from |-> At(s), to |-> ReadsAt(Oldest)],
                                       Oldest - next[s]))]
    /\ next' = [next EXCEPT ![s] = Oldest]
    /\ UNCHANGED <<scroll, total, pos, sent, alive, exitCode, registered, pc>>

\* The subscription's abort handle: Unsubscribe, or the client went away.
AbortForwarder(s) ==
    /\ pc[s] \in {"spawned", "check", "stream", "done"}
    /\ pc' = [pc EXCEPT ![s] = "gone"]
    /\ UNCHANGED <<scroll, total, pos, sent, alive, exitCode, registered, next, out>>

Forward(s) == Subscribe(s) \/ CheckAlive(s) \/ RecvBytes(s) \/ RecvExit(s)
              \/ RecvLagged(s)

StreamInit ==
    /\ scroll = <<>> /\ total = 0 /\ pos = 0
    /\ sent = <<>>
    /\ alive = TRUE /\ exitCode = NoCode
    /\ registered = TRUE
    /\ pc = [s \in Subs |-> "idle"]
    /\ next = [s \in Subs |-> 1]
    /\ out = [s \in Subs |-> <<>>]

StreamTypeOK ==
    /\ scroll \in Seq(Chunk) /\ total \in Int /\ pos \in Nat
    /\ sent \in Seq(Update)
    /\ alive \in BOOLEAN /\ exitCode \in Code
    /\ registered \in BOOLEAN
    /\ pc \in [Subs -> ForwarderPc]
    /\ next \in [Subs -> Nat \ {0}]
    /\ out \in [Subs -> Seq(Event)]

-----------------------------------------------------------------------------
(* Properties of both kinds of pane.                                       *)

\* Scrollback holds a gapless run of whole chunks that ends with the newest
\* byte, its running byte count is that run's length, and the count never
\* exceeds the capacity (Scrollback::append's eviction loop).
ScrollbackIsTail ==
    /\ Gapless(scroll)
    /\ scroll # <<>> => scroll[Len(scroll)].to = pos
    /\ total = Span(scroll)
    /\ total <= ScrollCap

\* PaneExit is the last event of a subscription and comes at most once, and
\* every finished forwarder has sent it (both exit paths of forward_pane).
ExitIsLast ==
    \A s \in Subs :
        /\ \A i \in 1 .. Len(out[s]) - 1 : out[s][i].kind # "exit"
        /\ pc[s] = "done" =>
              out[s] # <<>> /\ out[s][Len(out[s])].kind = "exit"

Lagged(s) == \E i \in 1 .. Len(out[s]) : out[s][i].kind = "lagged"

\* Exit entered the channel before the update the subscription reads next.
PastExit(s) ==
    \E i \in 1 .. Len(sent) : sent[i].kind = "exit" /\ i < next[s]

\* A forwarder that entered its receive loop still has Exit ahead of it: only
\* being overrun can take it past Exit.  This is what the order "alive = false,
\* then send Exit" buys against "subscribe, then is_alive".
ExitNotMissed ==
    \A s \in Subs : pc[s] = "stream" /\ PastExit(s) => Lagged(s)

\* A PaneExit is sent only for a dead pane and carries the recorded code,
\* whichever of its two paths it took (exit_code is written before alive is
\* cleared, and both before Exit is sent).
ExitCodeAgrees ==
    \A s \in Subs : \A i \in 1 .. Len(out[s]) :
        out[s][i].kind = "exit" => ~alive /\ out[s][i].code = exitCode

\* The exit protocol of a pane, whichever of its two paths a forwarder takes:
\* one PaneExit, last, missed only by an overrun subscriber, with the code.
ExitProtocolKept == ExitIsLast /\ ExitNotMissed /\ ExitCodeAgrees

\* Pane::subscribe: "Bytes between the snapshot and the first received update
\* are impossible", and reader_loop's comment rules out bytes seen twice.  Each
\* event starts at the byte where the previous one stopped, so every byte from
\* the snapshot on is delivered exactly once or lies in a gap that a
\* PaneLagged announces.
StreamContiguous == \A s \in Subs : Gapless(out[s])

\* PaneUpdate::Exit: "The child has exited and no further bytes will arrive."
NoBytesAfterExit ==
    \A i \in 1 .. Len(sent) : sent[i].kind = "exit" => i = Len(sent)
=============================================================================

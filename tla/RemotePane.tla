------------------------------ MODULE RemotePane ------------------------------
(***************************************************************************)
(* tepegoz-core, remote_pane.rs: a pane whose shell runs behind an SSH     *)
(* channel.  One driver task owns the channel: it takes commands from its  *)
(* queue first (the select is biased) and channel messages otherwise.  It  *)
(* appends output to the scrollback under the lock but sends it on the     *)
(* broadcast channel after releasing the lock.                             *)
(***************************************************************************)
EXTENDS PaneStream

CONSTANTS DataSizes,  \* sizes of the data messages of the remote end
          MaxMsgs,    \* bound: messages the remote end sends in a behaviour
          MaxCmds     \* bound: commands the clients issue in a behaviour

ASSUME RemoteConstants == DataSizes \subseteq Nat /\ MaxMsgs \in Nat /\ MaxCmds \in Nat

VARIABLES
    cmds,     \* RemotePaneCmd queue (cmd_tx / cmd_rx)
    issued,   \* commands issued so far
    inbox,    \* channel messages the driver has not taken yet
    arrived,  \* messages received so far
    remote,   \* the channel at the remote end: "open", "eof", "closed"
    driver,   \* driver task: "select", "appended", "ended", "dead", "done"
    holding   \* the chunk appended and not yet sent

driverVars == <<cmds, issued, inbox, arrived, remote, driver, holding>>
remoteVars == <<streamVars, driverVars>>
exitVars == <<alive, exitCode>>
subVars == <<pc, next, out>>

Msg == [kind : {"data"}, size : DataSizes] \cup [kind : {"status"}, code : Codes]
       \cup [kind : {"eof", "close"}]
NoChunk == [from |-> 0, to |-> 0]

-----------------------------------------------------------------------------
(* The remote end of the channel (external).                               *)

Receive(m) ==
    /\ arrived < MaxMsgs
    /\ arrived' = arrived + 1
    /\ inbox' = Append(inbox, m)

\* Data and ExtendedData: both carry output of the remote shell.
RemoteData ==
    /\ remote = "open"
    /\ \E n \in DataSizes : Receive([kind |-> "data", size |-> n])
    /\ UNCHANGED <<streamVars, cmds, issued, remote, driver, holding>>

\* The exit status may come before or after Eof, never after Close.
RemoteStatus ==
    /\ remote # "closed"
    /\ \E code \in Codes : Receive([kind |-> "status", code |-> code])
    /\ UNCHANGED <<streamVars, cmds, issued, remote, driver, holding>>

RemoteEof ==
    /\ remote = "open"
    /\ remote' = "eof"
    /\ Receive([kind |-> "eof"])
    /\ UNCHANGED <<streamVars, cmds, issued, driver, holding>>

\* The remote end closes the channel, or the connection is lost (wait() = None).
RemoteClose ==
    /\ remote # "closed"
    /\ remote' = "closed"
    /\ inbox' = Append(inbox, [kind |-> "close"])
    /\ UNCHANGED <<streamVars, cmds, issued, arrived, driver, holding>>

-----------------------------------------------------------------------------
(* Commands of the pane's public interface.                                *)

\* send_input and resize: queued unless the driver is gone (then an error).
Command(k) ==
    /\ registered
    /\ issued < MaxCmds
    /\ issued' = issued + 1
    /\ cmds' = IF driver = "done" THEN cmds ELSE Append(cmds, k)
    /\ UNCHANGED <<streamVars, inbox, arrived, remote, driver, holding>>

\* RemotePaneManager::close, then RemotePane::shutdown.
CloseRemotePane ==
    /\ registered
    /\ registered' = FALSE
    /\ cmds' = IF driver = "done" THEN cmds ELSE Append(cmds, "close")
    /\ UNCHANGED <<scroll, total, pos, sent, exitVars, subVars,
                   issued, inbox, arrived, remote, driver, holding>>

-----------------------------------------------------------------------------
(* drive_channel.                                                          *)

TakeCmd ==
    /\ driver = "select"
    /\ cmds # <<>>
    /\ cmds' = Tail(cmds)
    /\ UNCHANGED <<streamVars, issued, inbox, arrived, remote, holding>>

\* Data or Resize goes out.  Only a failed write of Data ends the driver.
DriverForwards ==
    /\ TakeCmd
    /\ Head(cmds) \in {"data", "resize"}
    /\ driver' \in {"select"} \cup
          (IF Head(cmds) = "data" /\ remote = "closed" THEN {"ended"} ELSE {})

\* Mutant: Close is passed on and the remote end's answer is awaited.
DriverCloses_AwaitsRemote ==
    /\ TakeCmd
    /\ Head(cmds) = "close"
    /\ UNCHANGED driver

DriverCloses ==
    /\ TakeCmd
    /\ Head(cmds) = "close"
    /\ driver' = "ended"

\* channel.wait(): only when no command is queued.
TakeMsg(k) ==
    /\ driver = "select"
    /\ cmds = <<>>
    /\ inbox # <<>>
    /\ Head(inbox).kind = k
    /\ inbox' = Tail(inbox)
    /\ UNCHANGED <<registered, subVars, cmds, issued, arrived, remote>>

\* The scrollback lock is released between this step ...
DriverAppends ==
    /\ TakeMsg("data")
    /\ LET c == [from |-> pos, to |-> pos + Head(inbox).size]
       IN  ScrollAppend(c) /\ holding' = c
    /\ driver' = "appended"
    /\ UNCHANGED <<sent, exitVars>>

\* ... and this one.
DriverSends ==
    /\ driver = "appended"
    /\ Send(BytesUpdate(holding))
    /\ holding' = NoChunk
    /\ driver' = "select"
    /\ UNCHANGED <<scroll, total, pos, exitVars, registered, subVars,
                   cmds, issued, inbox, arrived, remote>>

DriverStatus ==
    /\ TakeMsg("status")
    /\ exitCode' = Head(inbox).code
    /\ UNCHANGED <<scroll, total, pos, sent, alive, driver, holding>>

DriverEnds ==
    /\ TakeMsg("eof") \/ TakeMsg("close")
    /\ driver' = "ended"
    /\ UNCHANGED <<scroll, total, pos, sent, exitVars, holding>>

DriverMarksDead ==
    /\ driver = "ended"
    /\ alive' = FALSE
    /\ driver' = "dead"
    /\ UNCHANGED <<scroll, total, pos, sent, exitCode, registered, subVars,
                   cmds, issued, inbox, arrived, remote, holding>>

DriverSendsExit ==
    /\ driver = "dead"
    /\ Send(ExitUpdate(SentTo, exitCode))
    /\ driver' = "done"
    /\ UNCHANGED <<scroll, total, pos, exitVars, registered, subVars,
                   cmds, issued, inbox, arrived, remote, holding>>

-----------------------------------------------------------------------------

RemoteInit ==
    /\ StreamInit
    /\ cmds = <<>> /\ issued = 0
    /\ inbox = <<>> /\ arrived = 0
    /\ remote = "open" /\ driver = "select" /\ holding = NoChunk

Driver == DriverForwards \/ DriverCloses \/ DriverAppends \/ DriverSends
          \/ DriverStatus \/ DriverEnds \/ DriverMarksDead \/ DriverSendsExit
RemoteClient(s) ==
    (AttachPane(s) \/ Forward(s) \/ AbortForwarder(s)) /\ UNCHANGED driverVars

RemoteNext ==
    \/ RemoteData \/ RemoteStatus \/ RemoteEof \/ RemoteClose
    \/ \E k \in {"data", "resize"} : Command(k)
    \/ CloseRemotePane
    \/ Driver
    \/ \E s \in Subs : RemoteClient(s)

\* tokio runs the tasks of the daemon; the remote end owes nothing.
RemoteFairness ==
    /\ WF_remoteVars(Driver)
    /\ \A s \in Subs : WF_remoteVars(Forward(s) /\ UNCHANGED driverVars)

RemoteSpec == RemoteInit /\ [][RemoteNext]_remoteVars /\ RemoteFairness

-----------------------------------------------------------------------------

RemoteTypeOK ==
    /\ StreamTypeOK
    /\ cmds \in Seq({"data", "resize", "close"}) /\ issued \in 0 .. MaxCmds
    /\ inbox \in Seq(Msg) /\ arrived \in 0 .. MaxMsgs
    /\ remote \in {"open", "eof", "closed"}
    /\ driver \in {"select", "appended", "ended", "dead", "done"}
    /\ holding \in Chunk

\* RemotePane::subscribe does not have the semantics of Pane::subscribe, as its
\* comment says it does: StreamContiguous fails here, for drive_channel sends after
\* it has released the scrollback lock.  This is how far it fails.  No byte is lost
\* unannounced, and what a subscription may see twice is one chunk: the one that was
\* in its snapshot and still on its way to the channel when it was made.
AtMostOneChunkTwice ==
    \A s \in Subs : \A i \in 1 .. Len(out[s]) - 1 :
        \/ out[s][i].to = out[s][i + 1].from
        \/ /\ i = 1 /\ out[s][2].kind = "output"
           /\ out[s][2].from < out[s][1].to
           /\ out[s][2].to = out[s][1].to

\* The types, the scrollback, and the exit protocol: as for a local pane, and here
\* Exit is also the last thing in the channel, for one task sends everything.
RemotePaneInv == RemoteTypeOK /\ ScrollbackIsTail /\ ExitProtocolKept /\ NoBytesAfterExit

\* Closing a pane ends it for every subscription even while output keeps coming:
\* the driver reaches Close, and each forwarder gets PaneExit unless it was
\* aborted or overran Exit.
CloseEndsPane ==
    ~registered ~> /\ driver = "done"
                   /\ \A s \in Subs :
                         pc[s] \in {"idle", "refused", "done", "gone"} \/ PastExit(s)
=============================================================================

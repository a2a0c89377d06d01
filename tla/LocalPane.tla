------------------------------ MODULE LocalPane ------------------------------
(***************************************************************************)
(* tepegoz-pty: a pane whose child runs behind a local pty.  Two threads   *)
(* own it.  The reader copies output from the pty master to the scrollback *)
(* and the channel, both under the scrollback lock.  The waiter reaps the  *)
(* child, records the exit code, clears alive and sends Exit, each under   *)
(* its own lock and none under the scrollback lock.  Nothing orders the    *)
(* two threads.                                                            *)
(***************************************************************************)
EXTENDS PaneStream

CONSTANTS ReadSize,  \* the reader's buffer, 8192 bytes
          MaxBytes   \* bound: bytes written to the terminal in a behaviour

ASSUME LocalConstants == ReadSize \in Nat \ {0} /\ MaxBytes \in Nat

VARIABLES
    written,    \* bytes written to the slave side so far
    slaveOpen,  \* some process still has the slave side open
    child,      \* the child: "running" or "exited"
    reader,     \* reader thread: "read" or "done"
    waiter      \* waiter thread: "wait", "reaped", "dead", "done"

threadVars == <<written, slaveOpen, child, reader, waiter>>
localVars == <<streamVars, threadVars>>

\* The child, or a process it left behind, writes one byte to the terminal.
ChildWrites ==
    /\ slaveOpen
    /\ written < MaxBytes
    /\ written' = written + 1
    /\ UNCHANGED <<streamVars, slaveOpen, child, reader, waiter>>

\* The child exits; background processes may keep its terminal open.
ChildExits ==
    /\ child = "running"
    /\ child' = "exited"
    /\ slaveOpen' \in BOOLEAN
    /\ UNCHANGED <<streamVars, written, reader, waiter>>

LastWriterCloses ==
    /\ child = "exited"
    /\ slaveOpen
    /\ slaveOpen' = FALSE
    /\ UNCHANGED <<streamVars, written, child, reader, waiter>>

\* reader_loop, Ok(n): append and broadcast under one lock.
ReaderRead ==
    /\ reader = "read"
    /\ \E n \in 1 .. ReadSize :
          /\ pos + n <= written
          /\ LET c == [from |-> pos, to |-> pos + n]
             IN  ScrollAppend(c) /\ Send(BytesUpdate(c))
    /\ UNCHANGED <<alive, exitCode, registered, pc, next, out, threadVars>>

\* reader_loop, Ok(0) or Err: the terminal is closed and drained.
ReaderEnds ==
    /\ reader = "read"
    /\ ~slaveOpen
    /\ pos = written
    /\ reader' = "done"
    /\ UNCHANGED <<streamVars, written, slaveOpen, child, waiter>>

\* child.wait() returns (its code is None when the wait fails).
WaiterReaps ==
    /\ waiter = "wait"
    /\ child = "exited"
    /\ exitCode' \in Code
    /\ waiter' = "reaped"
    /\ UNCHANGED <<scroll, total, pos, sent, alive, registered, pc, next, out,
                   written, slaveOpen, child, reader>>

\* Mutant: the waiter thread returns without sending Exit.
WaiterMarksDead_NoExit ==
    /\ waiter = "reaped"
    /\ alive' = FALSE
    /\ waiter' = "done"
    /\ UNCHANGED <<scroll, total, pos, sent, exitCode, registered, pc, next, out,
                   written, slaveOpen, child, reader>>

WaiterMarksDead ==
    /\ waiter = "reaped"
    /\ alive' = FALSE
    /\ waiter' = "dead"
    /\ UNCHANGED <<scroll, total, pos, sent, exitCode, registered, pc, next, out,
                   written, slaveOpen, child, reader>>

WaiterSendsExit ==
    /\ waiter = "dead"
    /\ Send(ExitUpdate(SentTo, exitCode))
    /\ waiter' = "done"
    /\ UNCHANGED <<scroll, total, pos, alive, exitCode, registered, pc, next, out,
                   written, slaveOpen, child, reader>>

\* PtyManager::close: the map entry goes, the Arc of each forwarder stays.
CloseLocalPane ==
    /\ registered
    /\ registered' = FALSE
    /\ UNCHANGED <<scroll, total, pos, sent, alive, exitCode, pc, next, out,
                   threadVars>>

LocalInit ==
    /\ StreamInit
    /\ written = 0 /\ slaveOpen = TRUE
    /\ child = "running" /\ reader = "read" /\ waiter = "wait"

Reader == ReaderRead \/ ReaderEnds
Waiter == WaiterReaps \/ WaiterMarksDead \/ WaiterSendsExit
LocalClient(s) ==
    (AttachPane(s) \/ Forward(s) \/ AbortForwarder(s)) /\ UNCHANGED threadVars

LocalNext ==
    \/ ChildWrites \/ ChildExits \/ LastWriterCloses
    \/ Reader
    \/ Waiter
    \/ CloseLocalPane
    \/ \E s \in Subs : LocalClient(s)

\* Threads and tasks run: the kernel and tokio schedule them.  Nothing obliges
\* a child to write or exit, or a client to attach, leave or close.
LocalFairness ==
    /\ WF_localVars(Reader)
    /\ WF_localVars(Waiter)
    /\ \A s \in Subs : WF_localVars(Forward(s) /\ UNCHANGED threadVars)

LocalSpec == LocalInit /\ [][LocalNext]_localVars /\ LocalFairness

-----------------------------------------------------------------------------

LocalTypeOK ==
    /\ StreamTypeOK
    /\ written \in Nat
    /\ slaveOpen \in BOOLEAN
    /\ child \in {"running", "exited"}
    /\ reader \in {"read", "done"}
    /\ waiter \in {"wait", "reaped", "dead", "done"}

\* Once the child has exited every attached subscription is told, unless it was
\* aborted or overran Exit.
ExitIsForwarded ==
    \A s \in Subs :
        child = "exited" /\ pc[s] \in {"spawned", "check", "stream"}
            ~> \/ pc[s] \in {"done", "gone"}
               \/ PastExit(s)

-----------------------------------------------------------------------------
(* The pane as its subscribers know it.                                    *)

\* A forwarder that was refused or aborted adds nothing to its transcript.
Standing(s) ==
    IF pc[s] = "done" THEN "ended"
    ELSE IF pc[s] \in {"refused", "gone"} THEN "left" ELSE "open"

Log == INSTANCE PaneLog WITH
    Keep <- ScrollCap,
    produced <- pos,
    ended <- ~alive,
    code <- IF alive THEN NoCode ELSE exitCode,
    heard <- out,
    standing <- [s \in Subs |-> Standing(s)]

\* A local pane is a PaneLog: whatever the threads, the ring and the eviction
\* do, a subscriber's transcript is one that the abstract log allows.
KeepsPaneLog == Log!Spec
=============================================================================

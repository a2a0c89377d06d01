------------------------------ MODULE TuiPanes ------------------------------
(***************************************************************************)
(* The pane stack of the TUI (tepegoz-tui, app.rs and session.rs) against  *)
(* the session that the daemon runs for it (tepegoz-core, client.rs).      *)
(*                                                                         *)
(* The two directions of the socket, with the unbounded queues at either   *)
(* end, are the sequences up and down.  Positions in the stack count from  *)
(* 1.  A pane's output and the screens drawn from it are left out, as are  *)
(* the overlays, which only keep input from arriving here.                 *)
(***************************************************************************)
EXTENDS Integers, Sequences, SequencesExt

CONSTANTS MaxPanes,   \* panes the daemon can open
          MaxSubs,    \* pane subscriptions the TUI can allocate
          MaxSize,    \* dimensions of the pty tile, numbered as they occur
          Reuse,      \* tepegoz tui attaches to a living pane, connect does not
          MaxUp, MaxDown   \* bounds on what is in flight

ASSUME TuiPanesConstants ==
    /\ MaxPanes \in Nat \ {0} /\ MaxSubs \in Nat \ {0}
    /\ MaxSize \in Nat \ {0} /\ Reuse \in BOOLEAN /\ MaxUp \in Nat /\ MaxDown \in Nat

Panes == 1 .. MaxPanes
Subs == 1 .. MaxSubs
Sizes == 1 .. MaxSize
Root == 1

VARIABLES
    phase,     \* start-up, the event loop, or how it ended
    stack,     \* App.pane_stack
    active,    \* App.active_pane
    pending,   \* App.pending_opens
    focus,     \* View.focused, as far as panes care
    size,      \* pty_content_dims of the current layout
    nextSub,   \* App.next_sub_id
    heir,      \* history: the subscription asked for in place of the last tab
    up,        \* commands on their way to the daemon
    down,      \* replies and events on their way to the TUI
    exists,    \* panes that were opened
    listed,    \* panes in the managers' maps
    alive,     \* panes whose child or remote shell runs
    paneSize,  \* the size each pane was last given
    fwd,       \* pane_subs and the forwarder tasks behind it
    verdict,   \* history: what the daemon did with the open of a subscription
    fate       \* history: what the TUI made of it

tuiVars == <<phase, stack, active, pending, focus, size, nextSub, heir, fate>>
daemonVars == <<exists, listed, alive, paneSize, fwd, verdict>>
vars == <<tuiVars, up, down, daemonVars>>

Phase == {"start", "listing", "opening", "running", "ended", "crashed"}
PaneEntry == [pane : Panes, sub : Subs]
PendingOpen == [sub : Subs, alias : {"local", "remote"}]

Idle == [pane |-> 0, st |-> "none"]
Command(t, p, s, z) == [t |-> t, pane |-> p, sub |-> s, size |-> z]
Reply(t, p, s) == [t |-> t, pane |-> p, sub |-> s]

\* A session opens with panes 1 .. n left by earlier clients, alive or not.
Init ==
    /\ phase = "start" /\ stack = <<>> /\ active = 1 /\ pending = <<>> /\ focus = "pty"
    /\ size = 1 /\ nextSub = Root + 1 /\ heir = 0 /\ up = <<>> /\ down = <<>>
    /\ exists \in {{}, {1}} /\ listed = exists /\ alive \in SUBSET exists
    /\ paneSize = [p \in Panes |-> size]
    /\ fwd = [s \in Subs |-> Idle]
    /\ verdict = [s \in Subs |-> "none"]
    /\ fate = [s \in Subs |-> "none"]

Live == phase = "running"
Room(n) == Len(up) + n <= MaxUp

-----------------------------------------------------------------------------
(* Start-up: ensure_pane, then App::new and initial_actions.               *)

\* The tab that App::new puts on the stack, attached and sized at once.
EnterWith(p) ==
    /\ phase' = "running"
    /\ stack' = <<[pane |-> p, sub |-> Root]>>
    /\ fate' = [fate EXCEPT ![Root] = "tab"]
    /\ up' = up \o <<Command("attach", p, Root, 0), Command("resize", p, 0, size)>>

AskRoot ==
    /\ phase' = "opening"
    /\ up' = Append(up, Command("open", 0, Root, size))
    /\ fate' = [fate EXCEPT ![Root] = "pending"]

Start ==
    /\ phase = "start"
    /\ IF Reuse THEN /\ phase' = "listing"
                     /\ up' = Append(up, Command("list", 0, 0, 0))
                     /\ UNCHANGED fate
                ELSE AskRoot
    /\ UNCHANGED <<stack, active, pending, focus, size, nextSub, heir, down, daemonVars>>

Listed ==
    /\ phase = "listing" /\ down # <<>> /\ Head(down).t = "list"
    /\ down' = Tail(down)
    /\ IF Head(down).pane # 0 THEN EnterWith(Head(down).pane)
       ELSE AskRoot /\ UNCHANGED stack
    /\ UNCHANGED <<active, pending, focus, size, nextSub, heir, daemonVars>>

RootAnswered ==
    /\ phase = "opening" /\ down # <<>>
    /\ down' = Tail(down)
    /\ \/ Head(down).t = "opened" /\ EnterWith(Head(down).pane)
       \/ /\ Head(down).t = "openError"
          /\ phase' = "ended" /\ fate' = [fate EXCEPT ![Root] = "failed"]
          /\ UNCHANGED <<stack, up>>
    /\ UNCHANGED <<active, pending, focus, size, nextSub, heir, daemonVars>>

-----------------------------------------------------------------------------
(* The user.                                                               *)

\* Leaving drops the connection and aborts reader and writer: what is under way
\* is lost.  The daemon's side of it is ClientSession's teardown.
Leave(how) == phase' = how /\ up' = <<>>

\* Keys, Tab and Shift-Tab while the pty tile has the focus go to the active
\* pane: active_pane_id indexes the stack.  Bound: input is queued behind
\* nothing, since no answer to it exists and the daemon ignores what it cannot
\* deliver.
PtyInput ==
    /\ Live /\ focus = "pty"
    /\ IF stack = <<>> THEN Leave("crashed")
       ELSE /\ up = <<>>
            /\ up' = Append(up, Command("input", stack[active].pane, 0, 0))
            /\ UNCHANGED phase
    /\ UNCHANGED <<stack, active, pending, focus, size, nextSub, heir, down, fate, daemonVars>>

FocusMoves(tile) ==
    /\ Live /\ focus # tile /\ focus' = tile
    /\ UNCHANGED <<phase, stack, active, pending, size, nextSub, heir, fate, up, down, daemonVars>>

\* A click on a tab also focuses the pty tile.
TabClick(i) ==
    /\ Live /\ i \in DOMAIN stack /\ (i # active \/ focus # "pty")
    /\ active' = i /\ focus' = "pty"
    /\ UNCHANGED <<phase, stack, pending, size, nextSub, heir, fate, up, down, daemonVars>>

\* Mutant: the last tab is closed without opening a local shell.
CloseActive_LeavesBlank ==
    /\ Live /\ focus = "pty" /\ stack # <<>> /\ Room(3)
    /\ stack' = RemoveAt(stack, active)
    /\ fate' = [fate EXCEPT ![stack[active].sub] = "over"]
    /\ up' = up \o <<Command("close", stack[active].pane, 0, 0),
                     Command("unsub", 0, stack[active].sub, 0)>>
    /\ active' = IF stack' = <<>> THEN 1
                 ELSE IF active > Len(stack') THEN Len(stack') ELSE active
    /\ UNCHANGED <<phase, pending, focus, size, nextSub, heir, down, daemonVars>>

\* close_active_pane: the tab goes at once; the last one is replaced by a fresh
\* local shell, which arrives later.
CloseActive ==
    /\ Live /\ focus = "pty" /\ stack # <<>> /\ Room(3)
    /\ LET tab == stack[active]
           bye == <<Command("close", tab.pane, 0, 0), Command("unsub", 0, tab.sub, 0)>>
       IN  IF Len(stack) = 1
           THEN /\ nextSub \in Subs /\ nextSub' = nextSub + 1
                /\ pending' = Append(pending, [sub |-> nextSub, alias |-> "local"])
                /\ up' = up \o bye \o <<Command("open", 0, nextSub, size)>>
                /\ fate' = [fate EXCEPT ![tab.sub] = "over", ![nextSub] = "pending"]
                /\ stack' = <<>> /\ active' = 1 /\ heir' = nextSub
           ELSE /\ stack' = RemoveAt(stack, active)
                /\ active' = IF active > Len(stack') THEN Len(stack') ELSE active
                /\ up' = up \o bye
                /\ fate' = [fate EXCEPT ![tab.sub] = "over"]
                /\ UNCHANGED <<pending, nextSub, heir>>
    /\ UNCHANGED <<phase, focus, size, down, daemonVars>>

\* Enter or a double click on a Fleet row: dispatch_open_remote_pane.
OpenRemote ==
    /\ Live /\ focus = "fleet" /\ nextSub \in Subs /\ Room(1)
    /\ pending' = Append(pending, [sub |-> nextSub, alias |-> "remote"])
    /\ nextSub' = nextSub + 1
    /\ fate' = [fate EXCEPT ![nextSub] = "pending"]
    /\ up' = Append(up, Command("open", 0, nextSub, size))
    /\ UNCHANGED <<phase, stack, active, focus, size, heir, down, daemonVars>>

\* handle_resize: every pane on the stack is told.
Resize(z) ==
    /\ Live /\ z = size + 1 /\ Room(Len(stack))
    /\ size' = z
    /\ up' = up \o [i \in DOMAIN stack |-> Command("resize", stack[i].pane, 0, z)]
    /\ UNCHANGED <<phase, stack, active, pending, focus, nextSub, heir, fate, down, daemonVars>>

Detach ==
    /\ Live /\ Leave("ended")
    /\ UNCHANGED <<stack, active, pending, focus, size, nextSub, heir, fate, down, daemonVars>>

-----------------------------------------------------------------------------
(* What arrives from the daemon.                                           *)

Arrives(t) == Live /\ down # <<>> /\ Head(down).t = t /\ down' = Tail(down)

TabOf(s) == {i \in DOMAIN stack : stack[i].sub = s}

\* PaneSnapshot and PaneOutput feed the tab's screen; events of an unknown
\* subscription are dropped.
PaneBytes ==
    /\ Arrives("bytes")
    /\ UNCHANGED <<tuiVars, up, daemonVars>>

\* Mutant: the tab that goes is the one on top, not the one that exited.
PaneExit_RemovesActive ==
    /\ Arrives("exit") /\ TabOf(Head(down).sub) # {} /\ Len(stack) > 1
    /\ stack' = RemoveAt(stack, active)
    /\ active' = IF active > 1 THEN active - 1 ELSE 1
    /\ fate' = [fate EXCEPT ![Head(down).sub] = "over"]
    /\ UNCHANGED <<phase, pending, focus, size, nextSub, heir, up, daemonVars>>

\* handle_pane_event, PaneExit: the tab goes, and the TUI with the last one.
PaneExit ==
    /\ Arrives("exit")
    /\ \E i \in TabOf(Head(down).sub) :
          /\ stack' = RemoveAt(stack, i)
          /\ fate' = [fate EXCEPT ![Head(down).sub] = "over"]
          /\ IF stack' = <<>> THEN Leave("ended") /\ UNCHANGED active
             ELSE /\ active' = IF i <= active /\ active > 1 THEN active - 1 ELSE active
                  /\ UNCHANGED <<phase, up>>
    /\ UNCHANGED <<pending, focus, size, nextSub, heir, daemonVars>>

StaleExit ==
    /\ Arrives("exit") /\ TabOf(Head(down).sub) = {}
    /\ UNCHANGED <<tuiVars, up, daemonVars>>

\* handle_pane_opened: the oldest request is answered; the new tab comes to the
\* front with the focus.
PaneOpened ==
    /\ Arrives("opened")
    /\ IF pending = <<>> THEN UNCHANGED <<stack, active, pending, focus, fate, up>>
       ELSE LET s == Head(pending).sub
                p == Head(down).pane
            IN  /\ pending' = Tail(pending)
                /\ stack' = Append(stack, [pane |-> p, sub |-> s])
                /\ active' = Len(stack') /\ focus' = "pty"
                /\ fate' = [fate EXCEPT ![s] = "tab"]
                /\ up' = up \o <<Command("attach", p, s, 0), Command("resize", p, 0, size)>>
    /\ UNCHANGED <<phase, size, nextSub, heir, daemonVars>>

\* An Error whose message starts with "open pane" or "open remote pane" answers
\* the oldest request; the toast blames that request's alias.
OpenFailed ==
    /\ Arrives("openError")
    /\ IF pending = <<>> THEN UNCHANGED <<pending, fate>>
       ELSE /\ pending' = Tail(pending)
            /\ fate' = [fate EXCEPT ![Head(pending).sub] = "failed"]
    /\ UNCHANGED <<phase, stack, active, focus, size, nextSub, heir, up, daemonVars>>

\* Mutant: any Error answers the oldest open request.
OtherError_AnswersOpen ==
    /\ Arrives("paneError") /\ pending # <<>>
    /\ pending' = Tail(pending)
    /\ fate' = [fate EXCEPT ![Head(pending).sub] = "failed"]
    /\ UNCHANGED <<phase, stack, active, focus, size, nextSub, heir, up, daemonVars>>

\* Any other Error is a toast and nothing else.
OtherError ==
    /\ Arrives("paneError")
    /\ UNCHANGED <<tuiVars, up, daemonVars>>

\* The daemon stops, or the socket breaks: DaemonClosed, DaemonError.
DaemonGoes ==
    /\ Live /\ Leave("ended")
    /\ UNCHANGED <<stack, active, pending, focus, size, nextSub, heir, fate, down, daemonVars>>

-----------------------------------------------------------------------------
(* The daemon's session: one command at a time, in order.                  *)

Asked(t) == up # <<>> /\ Head(up).t = t /\ up' = Tail(up)
Say(m) == down' = Append(down, m)

DaemonLists ==
    /\ Asked("list")
    /\ \/ \E p \in listed \cap alive : Say(Reply("list", p, 0))
       \/ listed \cap alive = {} /\ Say(Reply("list", 0, 0))
    /\ UNCHANGED <<tuiVars, daemonVars>>

\* OpenPane: PaneOpened, or an Error that names the failing open.
DaemonOpens ==
    /\ Asked("open")
    /\ LET s == Head(up).sub IN
       \/ \E p \in Panes \ exists :
             /\ \A q \in Panes \ exists : p <= q
             /\ exists' = exists \cup {p} /\ listed' = listed \cup {p}
             /\ alive' = alive \cup {p}
             /\ paneSize' = [paneSize EXCEPT ![p] = Head(up).size]
             /\ verdict' = [verdict EXCEPT ![s] = "opened"]
             /\ Say(Reply("opened", p, s))
       \/ /\ verdict' = [verdict EXCEPT ![s] = "refused"]
          /\ Say(Reply("openError", 0, s))
          /\ UNCHANGED <<exists, listed, alive, paneSize>>
    /\ UNCHANGED <<tuiVars, fwd>>

DaemonAttaches ==
    /\ Asked("attach")
    /\ LET m == Head(up) IN
       IF m.pane \in listed
       THEN /\ fwd' = [fwd EXCEPT ![m.sub] = [pane |-> m.pane, st |-> "new"]]
            /\ UNCHANGED <<down, verdict>>
       ELSE /\ Say(Reply("paneError", m.pane, m.sub))
            /\ verdict' = [verdict EXCEPT ![m.sub] = "unattached"]
            /\ UNCHANGED fwd
    /\ UNCHANGED <<tuiVars, exists, listed, alive, paneSize>>

\* SendInput and ResizePane against an unknown pane are ignored.
DaemonTypes ==
    /\ Asked("input")
    /\ UNCHANGED <<tuiVars, down, daemonVars>>

DaemonResizes ==
    /\ Asked("resize")
    /\ paneSize' = IF Head(up).pane \in listed
                   THEN [paneSize EXCEPT ![Head(up).pane] = Head(up).size] ELSE paneSize
    /\ UNCHANGED <<tuiVars, down, exists, listed, alive, fwd, verdict>>

\* ClosePane: out of the map, and its child is killed.
DaemonCloses ==
    /\ Asked("close")
    /\ listed' = listed \ {Head(up).pane}
    /\ UNCHANGED <<tuiVars, down, exists, alive, paneSize, fwd, verdict>>

DaemonUnsubscribes ==
    /\ Asked("unsub")
    /\ fwd' = IF fwd[Head(up).sub].st \in {"new", "live"}
              THEN [fwd EXCEPT ![Head(up).sub].st = "aborted"] ELSE fwd
    /\ UNCHANGED <<tuiVars, down, exists, listed, alive, paneSize, verdict>>

\* forward_pane: a snapshot, output while the pane lives, then PaneExit.  An
\* aborted forwarder can still finish what it was sending.
Forwards(s, from, t, to) ==
    /\ fwd[s].st = from /\ Len(down) < MaxDown
    /\ Say(Reply(t, 0, s))
    /\ fwd' = [fwd EXCEPT ![s].st = to]
    /\ UNCHANGED <<tuiVars, up, exists, listed, alive, paneSize, verdict>>

ForwardSnapshot(s) == Forwards(s, "new", "bytes", "live")
ForwardOutput(s) == fwd[s].pane \in alive /\ Forwards(s, "live", "bytes", "live")
ForwardExit(s) == fwd[s].pane \notin alive /\ Forwards(s, "live", "exit", "over")
ForwardLate(s) == \E t \in {"bytes", "exit"} : Forwards(s, "aborted", t, "over")
Dropped(s) ==
    /\ fwd[s].st = "aborted" /\ fwd' = [fwd EXCEPT ![s].st = "over"]
    /\ UNCHANGED <<tuiVars, up, down, exists, listed, alive, paneSize, verdict>>

\* A child exits, is killed, or a remote shell's connection ends.
ChildExits(p) ==
    /\ p \in alive /\ alive' = alive \ {p}
    /\ UNCHANGED <<tuiVars, up, down, exists, listed, paneSize, fwd, verdict>>

\* Another client of the daemon closes the pane.
OtherCloses(p) ==
    /\ p \in listed /\ listed' = listed \ {p}
    /\ UNCHANGED <<tuiVars, up, down, exists, alive, paneSize, fwd, verdict>>

-----------------------------------------------------------------------------
User ==
    \/ PtyInput \/ CloseActive \/ OpenRemote \/ Detach
    \/ \E tile \in {"pty", "fleet"} : FocusMoves(tile)
    \/ \E i \in 1 .. MaxSubs : TabClick(i)
    \/ \E z \in Sizes : Resize(z)

Receive ==
    \/ Start \/ Listed \/ RootAnswered
    \/ PaneBytes \/ PaneExit \/ StaleExit \/ PaneOpened \/ OpenFailed \/ OtherError

Session ==
    \/ DaemonLists \/ DaemonOpens \/ DaemonAttaches \/ DaemonTypes
    \/ DaemonResizes \/ DaemonCloses \/ DaemonUnsubscribes

Forwarders ==
    \E s \in Subs : \/ ForwardSnapshot(s) \/ ForwardOutput(s) \/ ForwardExit(s)
                    \/ ForwardLate(s) \/ Dropped(s)

Next ==
    /\ phase \notin {"ended", "crashed"}
    /\ \/ User \/ Receive \/ Session \/ Forwarders \/ DaemonGoes
       \/ \E p \in Panes : ChildExits(p) \/ OtherCloses(p)

\* The TUI's event loop takes what arrives and the daemon's session what is
\* asked: a dial and a fork end.
Spec == Init /\ [][Next]_vars /\ WF_vars(Receive) /\ WF_vars(Session)

-----------------------------------------------------------------------------
(* Properties.                                                             *)

InFlight(q, t, s) == \E i \in DOMAIN q : q[i].t = t /\ q[i].sub = s

\* The type invariant; the active position names a tab whenever there is one,
\* or the next keystroke or click would index past the stack and panic.
TypeOK ==
    /\ phase \in Phase
    /\ stack \in Seq(PaneEntry) /\ focus \in {"pty", "fleet"}
    /\ active \in 1 .. MaxSubs /\ (stack # <<>> /\ Live => active <= Len(stack))
    /\ pending \in Seq(PendingOpen)
    /\ size \in Sizes /\ paneSize \in [Panes -> Sizes] /\ nextSub \in 1 .. MaxSubs + 1
    /\ alive \subseteq exists /\ listed \subseteq exists /\ exists \subseteq Panes
    /\ fwd \in [Subs -> [pane : 0 .. MaxPanes,
                         st : {"none", "new", "live", "aborted", "over"}]]

\* OpenPane has no request id; "correlation is FIFO, which works because the
\* daemon's session loop processes commands serially".  Every open is answered
\* once, with its own outcome: a tab or a failure toast only for the request
\* that got it, and no request waits for an answer that was given to another.
OpensAnswered ==
    \A s \in Subs :
        /\ fate[s] = "failed" => verdict[s] = "refused"
        /\ fate[s] = "tab" /\ s # Root => verdict[s] \in {"opened", "unattached"}
        /\ Live /\ fate[s] = "pending" /\ verdict[s] # "none" =>
              InFlight(down, "opened", s) \/ InFlight(down, "openError", s)

\* A tab on the stack will be fed or told: its AttachPane is under way, its
\* forwarder runs on the same pane, or its PaneExit is coming.  The exception is
\* a pane that another client closed between its PaneOpened and the AttachPane:
\* the daemon answers with an Error and the tab stays, showing nothing.
TabIsServed ==
    Live => \A i \in DOMAIN stack :
        LET s == stack[i].sub IN
        \/ InFlight(up, "attach", s) \/ InFlight(down, "exit", s)
        \/ fwd[s].pane = stack[i].pane /\ fwd[s].st \in {"new", "live"}
        \/ verdict[s] = "unattached"

\* However opens, resizes and attaches interleave, a pane on the stack ends up
\* with the size of the tile it is drawn in: by the last ResizePane under way,
\* or by the size it already has.
TabFitsTile ==
    Live => \A i \in DOMAIN stack :
        LET p == stack[i].pane
            resizes == {j \in DOMAIN up : up[j].t = "resize" /\ up[j].pane = p}
        IN  p \in listed =>
                IF resizes = {} THEN paneSize[p] = size
                ELSE \E j \in resizes : (\A k \in resizes : k <= j) /\ up[j].size = size

\* The TUI's types, and what a tab on the stack can count on: bytes or an end,
\* and in the end the size it is drawn in.
TabsInv == TypeOK /\ TabIsServed /\ TabFitsTile

\* active_pane_id "panics if the stack is empty": the stack never is while the
\* event loop runs.  It is from closing the last tab to the PaneOpened of the
\* shell that replaces it, and for good when that shell cannot be opened.
ActivePaneExists == Live => stack # <<>>

\* close_active_pane "auto-reopens local root to keep the PTY tile from going
\* blank": unless a keystroke panics first, a blank tile gets a tab, or the open
\* that was sent for this very blank failed, or the session is over.
BlankTileEnds ==
    [](phase # "crashed") =>
        (Live /\ stack = <<>> ~>
            \/ stack # <<>> \/ phase = "ended"
            \/ heir # 0 /\ fate[heir] = "failed")
=============================================================================

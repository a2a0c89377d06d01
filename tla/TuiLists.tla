------------------------------- MODULE TuiLists -------------------------------
(***************************************************************************)
(* The list tiles of the TUI that keep their cursor on a row by key        *)
(* (tepegoz-tui, app.rs): Ports and Processes, which share a tile, and     *)
(* Fleet, with the state of its hosts and the double click that opens a    *)
(* remote pane.                                                            *)
(*                                                                         *)
(* Rows are keys: (protocol, port, pid), (pid, start time), or an alias.   *)
(* Events come from the daemon in any order; a retarget of Ports or        *)
(* Processes is TuiDocker's with another list behind it.                   *)
(***************************************************************************)
EXTENDS Integers, Sequences, SequencesExt, FilteredRows

CONSTANTS RowKeys,      \* row keys; for Fleet, the aliases
          RowLists,     \* lists that a probe or the configuration can yield
          Passing,      \* Passing[n]: the keys that pass a filter of length n
          Height,       \* lines inside a tile's border
          MaxClicks,    \* bound: clicks on rows in a behaviour
          Answered      \* bound: the sets of views whose lists arrive in a behaviour

Views == {"ports", "processes", "fleet"}
TileOf(v) == IF v = "fleet" THEN "fleet" ELSE "ports"
FilterLengths == DOMAIN Passing
States == {"Disconnected", "Connected"}   \* two of the eight

ASSUME TuiListsConstants ==
    /\ Height \in Nat /\ Height >= 4
    /\ MaxClicks \in Nat /\ Answered \subseteq SUBSET Views
    /\ \A l \in RowLists : l \in Seq(RowKeys) /\ Len(l) = Cardinality(Range(l))
    /\ 0 \in FilterLengths /\ Passing[0] = RowKeys
    /\ \A n \in FilterLengths \ {0} :
          n - 1 \in FilterLengths /\ Passing[n] \subseteq Passing[n - 1]

VARIABLES
    answered,  \* the views whose lists arrive
    focused,   \* View.focused: a tile, or "other"
    active,    \* PortsScope.active
    view,      \* PortsView, ProcessesView and FleetScope: [st, rows, sel, filter, typing]
    states,    \* FleetScopeState.states, "none" for an absent alias
    last,      \* App.last_click: the set of it, or {}; key: its row (history)
    opened,    \* history: [first, host] of the panes opened by a double click
    clicks     \* clicks so far

listVars == <<answered, focused, active, view, states, last, opened, clicks>>
mouseVars == <<last, opened, clicks>>

View == [st : {"connecting", "available", "unavailable"}, rows : Seq(RowKeys),
         sel : Nat \ {0}, filter : FilterLengths, typing : BOOLEAN]
Empty(st) == [st |-> st, rows |-> <<>>, sel |-> 1, filter |-> 0, typing |-> FALSE]

ListsInit ==
    /\ answered \in Answered
    /\ focused = "other" /\ active = "ports"
    /\ view = [v \in Views |-> Empty("connecting")]
    /\ states = [a \in RowKeys |-> "none"]
    /\ last = {} /\ opened = {} /\ clicks = 0

\* The rows of a view that pass its filter, the key under its cursor, and the
\* place of a key among the rows.
VisibleKeys(w) == FilterRows(w.rows, Passing[w.filter])
SelectedKey(w) == LET s == VisibleKeys(w) IN IF w.sel \in DOMAIN s THEN {s[w.sel]} ELSE {}
PlaceOf(w, key) == {i \in DOMAIN VisibleKeys(w) : VisibleKeys(w)[i] \in key}

\* Mutant: the cursor is only clamped, as in the Docker tile.
Reanchored_Clamps(w, key) ==
    LET n == Len(VisibleKeys(w))
    IN  [w EXCEPT !.sel = IF n = 0 THEN 1 ELSE IF w.sel > n THEN n ELSE w.sel]

\* reanchor_selection: to the old key if it is visible, else clamped.
Reanchored(w, key) ==
    LET n == Len(VisibleKeys(w)) IN
    IF w.st # "available" THEN [w EXCEPT !.sel = 1]
    ELSE IF PlaceOf(w, key) # {} THEN [w EXCEPT !.sel = CHOOSE i \in PlaceOf(w, key) : TRUE]
    ELSE [w EXCEPT !.sel = IF n = 0 THEN 1 ELSE IF w.sel > n THEN n ELSE w.sel]

\* What the first click hit is unknown once other rows are shown.
Forgets(v) == last' = {IF c.tile = TileOf(v) THEN [c EXCEPT !.key = {}] ELSE c : c \in last}

-----------------------------------------------------------------------------
(* Keys of the focused view.                                               *)

\* Movement in the list.
Moved(w) ==
    LET n == Len(VisibleKeys(w)) IN
    {[w EXCEPT !.sel = i] : i \in {IF w.sel > 1 THEN w.sel - 1 ELSE 1,
                                   IF w.sel < n THEN w.sel + 1 ELSE w.sel,
                                   1, IF n = 0 THEN 1 ELSE n}}

\* "/" or Enter; Escape; a character or Backspace.  The key to re-anchor to is
\* taken after the filter has changed, so it is the row now under the old position.
Filtered(w) ==
    LET Under(f) == LET x == [w EXCEPT !.filter = f] IN Reanchored(x, SelectedKey(x)) IN
    IF w.typing
    THEN {[w EXCEPT !.typing = FALSE], [Under(0) EXCEPT !.typing = FALSE]}
         \cup {Under(f) : f \in {w.filter - 1, w.filter + 1} \cap FilterLengths}
    ELSE {[w EXCEPT !.typing = TRUE]}

ViewKey(v) ==
    /\ focused = TileOf(v)
    /\ \E w \in (IF view[v].typing THEN {} ELSE Moved(view[v])) \cup Filtered(view[v]) :
          /\ view' = [view EXCEPT ![v] = w]
          /\ IF w.filter = view[v].filter THEN UNCHANGED last ELSE Forgets(v)
    /\ UNCHANGED <<answered, focused, active, states, opened, clicks>>

PortsKey == active = "ports" /\ ViewKey("ports")
ProcessesKey == active = "processes" /\ ViewKey("processes")
FleetKey == ViewKey("fleet")

\* p toggles the two views, unless it is typed into a filter.
ToggleKey ==
    /\ focused = "ports" /\ ~view[active].typing
    /\ active' \in {"ports", "processes"} \ {active}
    /\ UNCHANGED <<answered, focused, view, states, mouseVars>>

FocusTile ==
    /\ focused' \in {"ports", "fleet", "other"} \ {focused}
    /\ UNCHANGED <<answered, active, view, states, mouseVars>>

\* retarget_ports and retarget_processes, by the host picker.
RetargetView(v) ==
    /\ view' = [view EXCEPT ![v].st = "connecting", ![v].rows = <<>>, ![v].sel = 1]
    /\ UNCHANGED <<answered, focused, active, states, mouseVars>>
RetargetPorts == active = "ports" /\ focused = "ports" /\ RetargetView("ports")
RetargetProcesses == active = "processes" /\ focused = "ports" /\ RetargetView("processes")

-----------------------------------------------------------------------------
(* What is drawn inside a tile, by the rows it shows: a line that shows row r  *)
(* of the visible ones is r, any other is 0.                               *)

\* status bar, filter bar while typing or filtering, the body cut to what is
\* left of the tile, help bar.
Framed(w, body) ==
    LET top == IF w.typing \/ w.filter # 0 THEN <<0, 0>> ELSE <<0>>
        room == Height - Len(top) - 1
    IN  top \o [i \in 1 .. room |-> IF i \in DOMAIN body THEN body[i] ELSE 0] \o <<0>>

RowLines(w) == [i \in DOMAIN VisibleKeys(w) |-> i]

\* A table with its header; a centered text if there is no row to show.
PortsDrawn ==
    LET w == view["ports"]
    IN  Framed(w, IF VisibleKeys(w) = <<>> THEN <<>> ELSE <<0>> \o RowLines(w))
ProcessesDrawn ==
    LET w == view["processes"]
    IN  Framed(w, IF VisibleKeys(w) = <<>> THEN <<>> ELSE <<0>> \o RowLines(w))

\* No header; before the first HostList a text takes the whole tile.
FleetDrawn ==
    LET w == view["fleet"] IN
    IF w.st = "connecting" THEN [i \in 1 .. Height |-> 0] ELSE Framed(w, RowLines(w))

Drawn(v) == CASE v = "ports" -> PortsDrawn
              [] v = "processes" -> ProcessesDrawn
              [] v = "fleet" -> FleetDrawn

-----------------------------------------------------------------------------
(* Clicks.                                                                 *)

\* Mutant: the bar is not counted until something has been typed.
FilterBar_NotWhileEmpty(v) == view[v].filter # 0

\* scope_filter_visible.
FilterBar(v) == view[v].typing \/ view[v].filter # 0

\* The rows that a click on line y of a tile's inside selects: one at most, and
\* none on the status, filter, header and help lines.
ClickedRows(v, y) ==
    LET body == 2 + (IF FilterBar(v) THEN 1 ELSE 0)
        row == y - body + (IF v = "fleet" THEN 1 ELSE 0)
    IN  {r \in DOMAIN VisibleKeys(view[v]) : r = row /\ y >= body /\ y < Height}

\* Mutant: any two clicks in the tile within the window count as one on a row.
IsDouble_AnyRow(v, row) == \E c \in last : c.tile = TileOf(v)

\* Same tile and row; the time window is left to chance.
IsDouble(v, row) == \E c \in last : c.tile = TileOf(v) /\ c.row = row

\* dispatch_scope_click.  key keeps what the first click hit as long as the
\* list and its filter stay as they were.
Click(v, y) ==
    /\ clicks < MaxClicks /\ clicks' = clicks + 1
    /\ v # "fleet" => v = active
    /\ focused' = TileOf(v)
    /\ \/ ClickedRows(v, y) = {} /\ UNCHANGED <<view, last, opened>>
       \/ \E row \in ClickedRows(v, y) :
             LET w == [view[v] EXCEPT !.sel = row] IN
             /\ view' = [view EXCEPT ![v] = w]
             /\ last' = {[tile |-> TileOf(v), row |-> row, key |-> SelectedKey(w)]}
             /\ \/ UNCHANGED opened
                \/ /\ v = "fleet" /\ IsDouble(v, row)
                   /\ \E c \in last, h \in SelectedKey(w) :
                         opened' = opened \cup {[first |-> c.key, host |-> h]}
    /\ UNCHANGED <<answered, active, states>>

-----------------------------------------------------------------------------
(* Events of the daemon.                                                   *)

Refreshed(v, l) ==
    LET w == [view[v] EXCEPT !.st = "available", !.rows = l] IN
    /\ v \in answered
    /\ view' = [view EXCEPT ![v] = Reanchored(w, SelectedKey(view[v]))]
    /\ Forgets(v)

PortList ==
    /\ \E l \in RowLists : Refreshed("ports", l)
    /\ UNCHANGED <<answered, focused, active, states, opened, clicks>>
ProcessList ==
    /\ \E l \in RowLists : Refreshed("processes", l)
    /\ UNCHANGED <<answered, focused, active, states, opened, clicks>>

\* PortsUnavailable, ProcessesUnavailable.
Unavailable ==
    /\ \E v \in {"ports", "processes"} :
          /\ view' = [view EXCEPT ![v].st = "unavailable", ![v].rows = <<>>, ![v].sel = 1]
          /\ Forgets(v)
    /\ UNCHANGED <<answered, focused, active, states, opened, clicks>>

\* HostList: the states of the aliases that stay are carried over.
HostList ==
    /\ \E l \in RowLists :
          /\ Refreshed("fleet", l)
          /\ states' = [a \in RowKeys |-> IF a \notin Range(l) THEN "none"
                                       ELSE IF states[a] # "none" THEN states[a]
                                       ELSE "Disconnected"]
    /\ UNCHANGED <<answered, focused, active, opened, clicks>>

\* HostStateChanged, of any alias.  Before the HostList it is ignored.
HostStateChanged ==
    /\ view["fleet"].st = "available"
    /\ \E a \in RowKeys, s \in States : states' = [states EXCEPT ![a] = s]
    /\ UNCHANGED <<answered, focused, active, view, mouseVars>>

-----------------------------------------------------------------------------
ListsNext ==
    \/ PortsKey \/ ProcessesKey \/ FleetKey \/ ToggleKey \/ FocusTile
    \/ RetargetPorts \/ RetargetProcesses
    \/ \E v \in Views, y \in 1 .. Height : Click(v, y)
    \/ PortList \/ ProcessList \/ Unavailable \/ HostList \/ HostStateChanged

ListsSpec == ListsInit /\ [][ListsNext]_listVars

-----------------------------------------------------------------------------
(* Properties.                                                             *)

\* Every row of the Fleet tile has a state for its marker and for the picker.
RowsHaveStates == \A a \in Range(view["fleet"].rows) : states[a] # "none"

\* "Never panics when the list shrinks under a live cursor": the cursor is on a
\* row whenever there is one.
ListsTypeOK ==
    /\ focused \in {"ports", "fleet", "other"} /\ active \in {"ports", "processes"}
    /\ states \in [RowKeys -> States \cup {"none"}]
    /\ RowsHaveStates
    /\ \A v \in Views : /\ view[v] \in View
                        /\ VisibleKeys(view[v]) # <<>> => SelectedKey(view[v]) # {}

\* A refresh that reorders, adds or drops rows never moves the cursor off a row
\* that is still shown: what a key acts on is what the user was looking at.
RefreshKeepsRow ==
    [][\A v \in Views :
          view'[v].rows # view[v].rows /\ SelectedKey(view[v]) # {}
             /\ PlaceOf(view'[v], SelectedKey(view[v])) # {}
          => SelectedKey(view'[v]) = SelectedKey(view[v])]_view

\* A click selects the row that is drawn under it, and only a click on a row
\* selects one: the hit test counts the lines above the rows as the renderers do,
\* whatever the filter is doing, and reaches no row that the help bar hides.
ClickHitsDrawnRow ==
    \A v \in Views, y \in 1 .. Height :
        ClickedRows(v, y) = {Drawn(v)[y]} \ {0}

\* The tiles' types (a list with rows has one selected), and what a click hits.
ListsInv == ListsTypeOK /\ ClickHitsDrawnRow

\* A double click opens a pane to the host that its first click selected, unless
\* a new list or filter came in between.
OpensWhatWasClicked == \A o \in opened : o.first \in {{}, {o.host}}
=============================================================================

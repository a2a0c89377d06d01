------------------------------ MODULE TuiInput ------------------------------
(***************************************************************************)
(* How a keystroke or a click becomes an action of the TUI (tepegoz-tui):  *)
(* the reads of stdin (session.rs), the mouse parser (mouse.rs), the       *)
(* filter for Ctrl-b commands (input.rs), the overlays and the dispatch to *)
(* the focused tile (app.rs), and the tiles themselves (tile.rs).          *)
(*                                                                         *)
(* The terminal sends whole gestures, the program reads chunks that may    *)
(* end anywhere.  A byte is known by its position in what was typed; the   *)
(* digits of a mouse report are one byte.  What a tile does with a key is  *)
(* left to TuiPanes, TuiDocker and TuiLists.                               *)
(***************************************************************************)
EXTENDS Integers, Sequences, FiniteSets, SequencesExt, TLC

CONSTANTS Mouse,       \* Mouse[report]: [kind, at], what its digits say
          Gestures,    \* Gestures[g]: the bytes the terminal sends for it
          Sizes,       \* terminal sizes, <<columns, rows>>
          MaxTyped,    \* gestures that are typed
          MaxUnread    \* bytes the terminal holds before more is typed

ASSUME TuiInputConstants ==
    /\ MaxTyped \in Nat /\ MaxUnread \in Nat
    /\ \A g \in DOMAIN Gestures : Gestures[g] # <<>>
    /\ \A m \in DOMAIN Mouse : Mouse[m].kind \in {"click", "hover", "other"}

VARIABLES
    typed,     \* the gestures so far
    stream,    \* their bytes, [b, g]: g counts gestures
    read,      \* bytes that were read
    mouse,     \* MouseParser: [st, held], held the bytes it keeps back
    filter,    \* InputFilter: [st, held]
    size, app  \* the terminal's size, and App: see Init

vars == <<typed, stream, read, mouse, filter, size, app>>

MouseState == {"idle", "esc", "csi", "params"}
FilterState == {"idle", "prefix", "prefixEsc", "prefixCsi", "csi", "collect"}
KeyParserState == {"idle", "esc", "csi"}
Idle == [st |-> "idle", held |-> <<>>]

Init ==
    /\ typed = <<>> /\ stream = <<>> /\ read = 0
    /\ mouse = Idle /\ filter = Idle
    /\ size = CHOOSE z \in Sizes : z[1] >= 80 /\ z[2] >= 24
    /\ app = [focus |-> "pty", help |-> FALSE, picker |-> FALSE, live |-> TRUE,
              keys |-> Idle,     \* ScopeKeyParser
              got |-> <<>>,      \* history: [tile, key, from] that reached a tile
              done |-> {}]       \* history: [cmd, from], events and commands handled

Byte(i) == stream[i].b
Hold(p, st, i) == [p EXCEPT !.st = st, !.held = Append(@, i)]

-----------------------------------------------------------------------------
(* The tiles.                                                              *)

Rect(x, y, w, h) == [x |-> x, y |-> y, w |-> w, h |-> h]

\* Mutant: the last column is as wide as the others.
DefaultFor_Narrow(z) ==
    LET cols == z[1]  rows == z[2]
        pty == ((rows - 3) * 3) \div 5
        scope == rows - 3 - pty
        third == cols \div 3
    IN  [pty |-> Rect(0, 0, cols, pty),
         docker |-> Rect(0, pty, third, scope), ports |-> Rect(third, pty, third, scope),
         fleet |-> Rect(2 * third, pty, third, scope),
         claude |-> Rect(0, rows - 3, cols, 3)]

\* TileLayout::default_for.
DefaultFor(z) ==
    LET cols == z[1]  rows == z[2]
        pty == LET share == ((rows - 3) * 3) \div 5 IN IF share < 6 THEN 6 ELSE share
        scope == rows - 3 - pty
        third == cols \div 3
    IN  IF cols < 80 \/ rows < 24 THEN [tooSmall |-> Rect(0, 0, cols, rows)]
        ELSE [pty |-> Rect(0, 0, cols, pty),
              docker |-> Rect(0, pty, third, scope),
              ports |-> Rect(third, pty, third, scope),
              fleet |-> Rect(2 * third, pty, cols - 2 * third, scope),
              claude |-> Rect(0, pty + scope, cols, 3)]

Layout == DefaultFor(size)
Tiles == {"pty", "docker", "ports", "fleet", "claude", "tooSmall"}

Inside(p, r) == p[1] \in r.x .. r.x + r.w - 1 /\ p[2] \in r.y .. r.y + r.h - 1
TilesAt(p) == {t \in DOMAIN Layout : Inside(p, Layout[t])}

\* next_focus: the nearest tile that lies wholly in the direction, by the gap
\* and then by how far it is out of line.
NextFocus(from, dir) ==
    LET f == Layout[from]
        gap(r) == CASE dir = "up" -> f.y - (r.y + r.h)
                    [] dir = "down" -> r.y - (f.y + f.h)
                    [] dir = "left" -> f.x - (r.x + r.w)
                    [] dir = "right" -> r.x - (f.x + f.w)
        off(r) == LET d == IF dir \in {"up", "down"} THEN r.x - f.x ELSE r.y - f.y
                  IN  IF d < 0 THEN -d ELSE d
        ahead == {t \in DOMAIN Layout \ {from} : gap(Layout[t]) >= 0}
        closer(t, u) == \/ gap(Layout[t]) < gap(Layout[u])
                        \/ gap(Layout[t]) = gap(Layout[u]) /\ off(Layout[t]) <= off(Layout[u])
    IN  IF ahead = {} THEN from ELSE CHOOSE t \in ahead : \A u \in ahead : closer(t, u)

\* cycle_focus; either every tile of the cycle is shown or none is.
CycleFocus(from, forward) ==
    LET order == <<"pty", "docker", "ports", "fleet", "claude">>
        at == CHOOSE n \in DOMAIN order : order[n] = from
    IN  IF from = "tooSmall" THEN from
        ELSE IF forward THEN order[(at % 5) + 1] ELSE order[((at + 3) % 5) + 1]

-----------------------------------------------------------------------------
(* MouseParser::parse, byte by byte: out are the bytes that pass, events   *)
(* the reports that were taken out.                                        *)

\* parse_sgr_params.
EventOf(held, press) ==
    IF Len(held) = 4 /\ Byte(held[4]) \in DOMAIN Mouse
    THEN LET m == Mouse[Byte(held[4])] IN
         CASE m.kind = "hover" -> [kind |-> "hover", at |-> m.at]
           [] m.kind = "click" /\ press -> [kind |-> "click", at |-> m.at]
           [] OTHER -> [kind |-> "none", at |-> m.at]
    ELSE [kind |-> "none", at |-> <<0, 0>>]

\* No report after all.
Flush(p, i) == [p EXCEPT !.st = "idle", !.held = <<>>, !.out = @ \o p.held \o <<i>>]

MouseStep(p, i) ==
    LET b == Byte(i) IN
    CASE p.st = "idle" -> IF b = "esc" THEN Hold(p, "esc", i) ELSE Flush(p, i)
      [] p.st = "esc" -> IF b = "[" THEN Hold(p, "csi", i) ELSE Flush(p, i)
      [] p.st = "csi" -> IF b = "<" THEN Hold(p, "params", i) ELSE Flush(p, i)
      [] p.st = "params" ->
            IF b \in {"M", "m"}
            THEN [p EXCEPT !.st = "idle", !.held = <<>>,
                           !.events = Append(@, [event |-> EventOf(p.held, b = "M"),
                                                 from |-> Append(p.held, i)])]
            ELSE Hold(p, "params", i)

\* Mutant: an unfinished report is forgotten when the chunk ends.
ParseMouse_Forgets(chunk) ==
    FoldLeft(MouseStep, [st |-> "idle", held |-> <<>>, out |-> <<>>, events |-> <<>>], chunk)

ParseMouse(chunk) ==
    FoldLeft(MouseStep,
             [st |-> mouse.st, held |-> mouse.held, out |-> <<>>, events |-> <<>>], chunk)

-----------------------------------------------------------------------------
(* InputFilter::process: acts are the runs of bytes to forward and the     *)
(* commands among them; whatever follows a command in the chunk is dropped.*)

Commands == [d |-> "detach", h |-> "left", j |-> "down", k |-> "up", l |-> "right",
             t |-> "picker"] @@ "?" :> "help" @@ "&" :> "close"
Arrows == [A |-> "up", B |-> "down", C |-> "right", D |-> "left"]
Parameters == {"5", "<"} \cup DOMAIN Mouse   \* what may precede a CSI final

Forward(from) == [cmd |-> "forward", from |-> from]
Flushed(p) == IF p.out = <<>> THEN p.acts ELSE Append(p.acts, Forward(p.out))
Pass(p, i) == [p EXCEPT !.st = "idle", !.held = <<>>, !.out = @ \o p.held \o <<i>>]

\* Mutant: the command overtakes the bytes that were typed before it.
Command_Overtakes(p, cmd, i) ==
    [p EXCEPT !.st = "idle", !.held = <<>>, !.stop = TRUE,
              !.acts = Append(@, [cmd |-> cmd, from |-> Append(p.held, i)])]

Command(p, cmd, i) ==
    [p EXCEPT !.st = "idle", !.held = <<>>, !.out = <<>>, !.stop = TRUE,
              !.acts = Append(Flushed(p), [cmd |-> cmd, from |-> Append(p.held, i)])]

\* bracket: the next byte of the chunk is "[", so an escape opens a sequence.
FilterStep(p, i, bracket) ==
    LET b == Byte(i) IN
    IF p.stop THEN p ELSE
    CASE p.st = "idle" ->
            CASE b = "tab" -> Command(p, "next", i)
              [] b = "^b" -> Hold(p, "prefix", i)
              [] b = "esc" /\ bracket -> Hold(p, "open", i)
              [] OTHER -> Pass(p, i)
      [] p.st = "prefix" ->
            CASE b \in DOMAIN Commands -> Command(p, Commands[b], i)
              [] b = "esc" -> Hold(p, "prefixEsc", i)
              [] OTHER -> Pass(p, i)
      [] p.st = "prefixEsc" -> IF b = "[" THEN Hold(p, "prefixCsi", i) ELSE Pass(p, i)
      [] p.st = "prefixCsi" ->
            IF b \in DOMAIN Arrows THEN Command(p, Arrows[b], i) ELSE Pass(p, i)
      [] p.st = "open" -> Hold(p, "csi", i)
      [] p.st = "csi" ->
            CASE b = "Z" -> Command(p, "prev", i)
              [] b \in Parameters -> Hold(p, "collect", i)
              [] OTHER -> Pass(p, i)
      [] p.st = "collect" -> IF b \in Parameters THEN Hold(p, "collect", i) ELSE Pass(p, i)

Filter(chunk) ==
    LET bracket(k) == k < Len(chunk) /\ Byte(chunk[k + 1]) = "["
        p == FoldLeft(LAMBDA q, k : FilterStep(q, chunk[k], bracket(k)),
                      [st |-> filter.st, held |-> filter.held, out |-> <<>>,
                       acts |-> <<>>, stop |-> FALSE],
                      [k \in 1 .. Len(chunk) |-> k])
    IN  [p EXCEPT !.acts = Flushed(p)]

-----------------------------------------------------------------------------
(* App, as a function from its state to the next.                          *)

Did(a, cmd, from) == [a EXCEPT !.done = @ \cup {[cmd |-> cmd, from |-> from]}]
Got(a, tile, key, from) ==
    [a EXCEPT !.got = Append(@, [tile |-> tile, key |-> key, from |-> from])]

\* handle_mouse_click_at and handle_mouse_hover.
MouseEvent(a, e) ==
    LET b == Did(a, e.event.kind, e.from) IN
    IF e.event.kind # "click" THEN b
    ELSE IF a.help THEN [b EXCEPT !.help = FALSE]
    ELSE IF a.picker THEN [b EXCEPT !.picker = FALSE]
    ELSE IF TilesAt(e.event.at) = {} THEN b
    ELSE [b EXCEPT !.focus = CHOOSE t \in TilesAt(e.event.at) : TRUE]

Simple(b) == CASE b = "cr" -> "Enter" [] OTHER -> "Char"

\* ScopeKeyParser::parse: the keys it recognises, each with its bytes.
KeyStep(p, i) ==
    LET b == Byte(i)
        whole == Append(p.held, i)
        key(k, from) == [key |-> k, from |-> from]
        end(ks) == [p EXCEPT !.st = "idle", !.held = <<>>, !.keys = @ \o ks]
    IN
    CASE p.st = "idle" -> IF b = "esc" THEN Hold(p, "esc", i) ELSE end(<<key(Simple(b), <<i>>)>>)
      [] p.st = "esc" ->
            CASE b = "[" -> Hold(p, "csi", i)
              [] b = "esc" -> [p EXCEPT !.held = <<i>>, !.keys = Append(@, key("Escape", p.held))]
              [] OTHER -> end(<<key("Escape", p.held), key(Simple(b), <<i>>)>>)
      [] p.st = "csi" ->
            CASE b = "A" -> end(<<key("Up", whole)>>)
              [] b = "~" -> end(<<key("PgUp", whole)>>)
              [] b = "5" -> Hold(p, "csi", i)
              [] OTHER -> end(<<key("none", whole)>>)

Keys(a, from) ==
    LET p == FoldLeft(KeyStep, [st |-> a.keys.st, held |-> a.keys.held, keys |-> <<>>], from)
    IN  IF p.st = "esc"
        THEN [p EXCEPT !.st = "idle", !.held = <<>>,
                       !.keys = Append(@, [key |-> "Escape", from |-> p.held])]
        ELSE p

\* handle_host_picker_key, as far as it closes the picker; after that the rest of
\* the keys are gone.
PickerKey(a, k) ==
    LET b == Got(a, "picker", k.key, k.from)
    IN  IF k.key \in {"Enter", "Escape"} THEN [b EXCEPT !.picker = FALSE] ELSE b

\* handle_forward_bytes.
Forwarded(a, from) ==
    IF a.focus = "pty"
    THEN FoldLeft(LAMBDA b, i : Got(b, "pty", "byte", <<i>>), a, from)
    ELSE IF a.focus \in {"docker", "ports", "fleet"}
    THEN LET p == Keys(a, from) IN
         FoldLeft(LAMBDA b, k : Got(b, a.focus, k.key, k.from),
                  [a EXCEPT !.keys = [st |-> p.st, held |-> p.held]], p.keys)
    ELSE Got(a, a.focus, "dropped", from)

\* handle_stdin.  An overlay takes the action first.
Handle(a, act) ==
    LET did == Did(a, act.cmd, act.from)
        cycled(forward) ==
            IF a.focus = "pty" THEN Got(did, "pty", "byte", act.from)   \* handle_tab
            ELSE [did EXCEPT !.focus = CycleFocus(a.focus, forward)]
    IN
    IF ~a.live THEN a
    ELSE IF act.cmd = "detach" THEN [did EXCEPT !.live = FALSE]
    ELSE IF a.help THEN [did EXCEPT !.help = FALSE]
    ELSE IF a.picker THEN
        CASE act.cmd = "help" -> [did EXCEPT !.picker = FALSE, !.help = TRUE]
          [] act.cmd = "forward" ->
                LET p == Keys(a, act.from) IN
                FoldLeft(LAMBDA b, k : IF b.picker THEN PickerKey(b, k)
                                       ELSE Got(b, "picker", "dropped", k.from),
                         [a EXCEPT !.keys = [st |-> p.st, held |-> p.held]], p.keys)
          [] OTHER -> [did EXCEPT !.picker = FALSE]
    ELSE
        CASE act.cmd = "forward" -> Forwarded(a, act.from)
          [] act.cmd \in {"left", "right", "up", "down"} ->
                [did EXCEPT !.focus = NextFocus(a.focus, act.cmd)]
          [] act.cmd = "next" -> cycled(TRUE)
          [] act.cmd = "prev" -> cycled(FALSE)
          [] act.cmd = "help" -> [did EXCEPT !.help = TRUE]
          [] act.cmd = "picker" -> [did EXCEPT !.picker = a.focus \in {"docker", "ports"}]
          [] act.cmd = "close" -> did

-----------------------------------------------------------------------------
(* Steps.                                                                  *)

\* The user types, clicks or moves the mouse.
Type ==
    /\ Len(typed) < MaxTyped /\ Len(stream) - read <= MaxUnread
    /\ \E g \in DOMAIN Gestures :
          /\ typed' = Append(typed, g)
          /\ stream' = stream \o [k \in DOMAIN Gestures[g] |->
                                    [b |-> Gestures[g][k], g |-> Len(typed) + 1]]
    /\ UNCHANGED <<read, mouse, filter, size, app>>

\* One turn of the event loop: mouse events first, then the rest of the chunk.
Read ==
    /\ app.live
    /\ \E n \in 1 .. Len(stream) - read :
          LET m == ParseMouse([k \in 1 .. n |-> read + k])
              f == Filter(m.out)
          IN  /\ read' = read + n
              /\ mouse' = [st |-> m.st, held |-> m.held]
              /\ filter' = [st |-> f.st, held |-> f.held]
              /\ app' = FoldLeft(Handle, FoldLeft(MouseEvent, app, m.events), f.acts)
    /\ UNCHANGED <<typed, stream, size>>

\* SIGWINCH: handle_resize.
Resize ==
    /\ app.live
    /\ \E z \in Sizes \ {size} :
          /\ size' = z
          /\ app' = IF app.focus \in DOMAIN DefaultFor(z) THEN app
                    ELSE [app EXCEPT !.focus = IF "pty" \in DOMAIN DefaultFor(z)
                                               THEN "pty" ELSE "tooSmall"]
    /\ UNCHANGED <<typed, stream, read, mouse, filter>>

Next == Type \/ Read \/ Resize
Spec == Init /\ [][Next]_vars

-----------------------------------------------------------------------------
(* Properties.                                                             *)

TypeOK ==
    /\ typed \in Seq(DOMAIN Gestures) /\ read \in 0 .. Len(stream) /\ size \in Sizes
    /\ mouse.st \in MouseState /\ filter.st \in FilterState
    /\ app.keys.st \in KeyParserState
    /\ app.focus \in Tiles /\ app.help \in BOOLEAN /\ app.picker \in BOOLEAN

Positions(n) == {i \in DOMAIN stream : stream[i].g = n}
IsMouse(n) == LET g == Gestures[typed[n]] IN Len(g) > 3 /\ g[3] = "<"
Key(n) == Gestures[typed[n]]

\* What was typed just before gesture n looks like the start of a sequence.
AfterEscape(n) ==
    /\ n > 1
    /\ \/ Key(n - 1) = <<"esc">>
       \/ n > 2 /\ Key(n - 1) = <<"[">> /\ Key(n - 2) = <<"esc">>

Delivered == UNION {Range(e.from) : e \in Range(app.got)}

\* A mouse report, however the reads cut it, is handled once and as one report, and
\* none of its bytes reaches a tile; except for one that follows a bare Escape,
\* which MouseParser takes for part of the key.
MouseExact ==
    \A n \in DOMAIN typed :
        IsMouse(n) /\ Positions(n) \subseteq 1 .. read /\ ~AfterEscape(n) =>
            /\ Positions(n) \cap Delivered = {}
            /\ Cardinality({d \in app.done : Range(d.from) = Positions(n)}) = 1

\* What the three parsers keep back and let go later stays in the order of typing,
\* and nothing is delivered twice.
InOrderOnce ==
    LET all == FoldLeft(LAMBDA s, e : s \o e.from, <<>>, app.got)
    IN  \A k \in 2 .. Len(all) : all[k - 1] < all[k]

\* A tile in the middle of a list or a log is not told Escape, which would leave it,
\* because an arrow key was read in two halves.
EscapeIsPressed ==
    \A e \in Range(app.got) :
        e.key = "Escape" => LET n == stream[e.from[1]].g
                            IN  Key(n) = <<"esc">> \/ AfterEscape(n)

\* A byte that is read is handled, delivered or held back, or it follows a command
\* in the same chunk: InputFilter drops nothing else.
Held == Range(mouse.held) \cup Range(filter.held) \cup Range(app.keys.held)
Handled == UNION {Range(d.from) : d \in app.done}
NothingVanishes ==
    [][\A i \in Held \cup (read + 1 .. read') :
          \/ i \in (Held \cup Handled \cup Delivered)'
          \/ \E d \in app'.done \ app.done :
                /\ d.cmd \notin {"click", "hover", "none", "forward"}
                /\ \A j \in Range(d.from) : j < i]_vars

\* What reaches a tile is what was typed: all of it, in order, once, and no
\* Escape that was half of an arrow key.
KeysAsTyped == [](InOrderOnce /\ EscapeIsPressed) /\ NothingVanishes

\* The tiles of a layout share no cell and leave none out, so a click always finds
\* the tile it is on; and the tile with the focus is one of them.
LayoutIsWhole ==
    /\ app.focus \in DOMAIN Layout
    /\ LET area(t) == Layout[t].w * Layout[t].h
           overlap(r, s) == /\ r.x < s.x + s.w /\ s.x < r.x + r.w
                            /\ r.y < s.y + s.h /\ s.y < r.y + r.h
       IN  /\ \A t, u \in DOMAIN Layout : t # u => ~overlap(Layout[t], Layout[u])
           /\ size[1] * size[2] = FoldLeft(LAMBDA n, t : n + area(t), 0,
                                           SetToSeq(DOMAIN Layout))

\* The types of the parsers and of the app, and the tiles of the screen.
InputInv == TypeOK /\ LayoutIsWhole
=============================================================================

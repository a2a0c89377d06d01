------------------------------ MODULE DockerLogs ------------------------------
(***************************************************************************)
(* The logs view of the Docker tile while one log subscription lasts       *)
(* (tepegoz-tui, app.rs LogsView; scope/docker.rs): chunks of the two      *)
(* streams of a container become lines, the lines a window that the user   *)
(* scrolls.  Entering, leaving and retargeting the view is TuiDocker's.    *)
(*                                                                         *)
(* A byte is a newline, a carriage return or anything else; the decoding   *)
(* of a line's text is left out.                                           *)
(***************************************************************************)
EXTENDS Integers, Sequences, SequencesExt, FilteredRows

CONSTANTS MaxLines,     \* MAX_LOG_LINES
          Page,         \* LOGS_PAGE_LINES
          LogHeight,    \* lines inside the tile's border
          MaxChunk,     \* bound: bytes of a chunk
          MaxBytes      \* bound: bytes of a container's output

Streams == {"stdout", "stderr"}
Bytes == {"x", "cr", "nl"}

\* A tile has room for its bars, a line and the mark that the stream has ended: below
\* MIN_ROWS (tile.rs) no tile is drawn, and there a scope tile has seven lines.
ASSUME DockerLogsConstants ==
    /\ {MaxLines, Page, MaxChunk} \subseteq Nat \ {0} /\ MaxBytes \in Nat
    /\ LogHeight \in Nat /\ LogHeight >= 4

LogLine == [stream : Streams, text : Seq(Bytes \ {"nl"})]

VARIABLES
    output,    \* history: what the container wrote to each stream so far
    partial,   \* pending_stdout, pending_stderr
    lines,     \* LogsView.lines: [stream, text]
    pushed,    \* history: all lines ever pushed
    scroll,    \* scroll_offset
    tail,      \* at_tail
    ended      \* stream_ended is set

logVars == <<output, partial, lines, pushed, scroll, tail, ended>>
scrollVars == <<scroll, tail>>

LogsInit ==
    /\ output = [s \in Streams |-> <<>>] /\ partial = [s \in Streams |-> <<>>]
    /\ lines = <<>> /\ pushed = <<>>
    /\ scroll = 0 /\ tail = TRUE /\ ended = FALSE

-----------------------------------------------------------------------------
(* Lines.                                                                  *)

\* The places of the newlines, in order; the text of a line without the newline
\* and a carriage return before it; the lines of a buffer, and what is after them.
Ends(b) ==
    LET places == PlacesOf(b, {"nl"})
    IN  [k \in 1 .. Cardinality(places) |-> KthOf(places, k)]
Text(raw) == IF raw # <<>> /\ Last(raw) = "cr" THEN Front(raw) ELSE raw
Complete(b) ==
    LET ends == Ends(b)
    IN  [i \in DOMAIN ends |->
            Text(SubSeq(b, IF i = 1 THEN 1 ELSE ends[i - 1] + 1, ends[i] - 1))]
Rest(b) == IF Ends(b) = <<>> THEN b ELSE SubSeq(b, Last(Ends(b)) + 1, Len(b))

Of(s, texts) == [i \in DOMAIN texts |-> [stream |-> s, text |-> texts[i]]]

\* push_line, for some lines in order: beyond the cap the oldest go.
Push(new) ==
    LET l == lines \o new
    IN  /\ lines' = IF Len(l) > MaxLines THEN SubSeq(l, Len(l) - MaxLines + 1, Len(l)) ELSE l
        /\ pushed' = pushed \o new

\* Mutant: a line that is split between two chunks is two lines.
Ingest_LineForChunk(s, data) ==
    /\ Push(Of(s, Complete(data) \o IF Rest(data) = <<>> THEN <<>> ELSE <<Rest(data)>>))
    /\ UNCHANGED partial

\* ingest.
Ingest(s, data) ==
    /\ Push(Of(s, Complete(partial[s] \o data)))
    /\ partial' = [partial EXCEPT ![s] = Rest(@ \o data)]

\* Event::ContainerLog: what logs_stream yields and forward_docker_logs sends,
\* cut anywhere.  At most MaxBytes of output in a behaviour.
ContainerLog(s) ==
    /\ ~ended
    /\ \E n \in 1 .. MaxChunk : \E data \in [1 .. n -> Bytes] :
          /\ Len(output["stdout"]) + Len(output["stderr"]) + n <= MaxBytes
          /\ output' = [output EXCEPT ![s] = @ \o data]
          /\ Ingest(s, data)
    /\ UNCHANGED <<scrollVars, ended>>

Unterminated(s) == IF partial[s] = <<>> THEN <<>> ELSE Of(s, <<partial[s]>>)

\* Event::DockerStreamEnded, end_stream: what has no newline is a line now.
StreamEnded ==
    /\ ~ended /\ ended' = TRUE
    /\ Push(Unterminated("stdout") \o Unterminated("stderr"))
    /\ partial' = [s \in Streams |-> <<>>]
    /\ tail' = FALSE
    /\ UNCHANGED <<output, scroll>>

-----------------------------------------------------------------------------
(* The window.                                                             *)

MaxOffset == IF lines = <<>> THEN 0 ELSE Len(lines) - 1

ScrollUp ==
    \E n \in {1, Page} :
       /\ scroll' = Min({scroll + n, MaxOffset})
       /\ tail' = IF scroll' > 0 THEN FALSE ELSE tail
       /\ UNCHANGED <<output, partial, lines, pushed, ended>>

ScrollDown ==
    \E n \in {1, Page} :
       /\ scroll' = Max({scroll - n, 0})
       /\ tail' = IF scroll' = 0 THEN TRUE ELSE tail
       /\ UNCHANGED <<output, partial, lines, pushed, ended>>

\* jump_to_tail.
JumpToTail ==
    /\ scroll' = 0 /\ tail' = TRUE
    /\ UNCHANGED <<output, partial, lines, pushed, ended>>

\* The lines between the status and the help bar.
Body == LogHeight - 2

\* render_transcript: the places, among the lines and the mark that the stream has
\* ended, of what is on the screen.
Window ==
    LET total == Len(lines) + (IF ended THEN 1 ELSE 0)
        end == Max({total - scroll, 0})
    IN  Max({end - Body, 0}) + 1 .. end

LogsKey == ScrollUp \/ ScrollDown \/ JumpToTail

-----------------------------------------------------------------------------
LogsNext ==
    \/ \E s \in Streams : ContainerLog(s)
    \/ StreamEnded \/ LogsKey

LogsSpec == LogsInit /\ [][LogsNext]_logVars

-----------------------------------------------------------------------------
(* Properties.                                                             *)

\* The transcript is the output: the lines of a stream are its own, whole and in
\* order, wherever the chunks were cut and however the streams were mixed; at the
\* end what had no newline is there too; the cap takes the oldest and nothing else.
TranscriptIsOutput ==
    /\ \A s \in Streams :
          FilterRows(pushed, {l \in Range(pushed) : l.stream = s})
            = Of(s, Complete(output[s])
                    \o IF ended /\ Rest(output[s]) # <<>> THEN <<Rest(output[s])>> ELSE <<>>)
    /\ Len(lines) = Min({Len(pushed), MaxLines})
    /\ lines = SubSeq(pushed, Len(pushed) - Len(lines) + 1, Len(pushed))

\* The window never runs off the lines: there is always one on the screen if there
\* is one at all, and while the stream lives the tail label says whether it is the
\* newest.
WindowTellsTail ==
    /\ lines # <<>> => Window \cap DOMAIN lines # {}
    /\ ~ended /\ lines # <<>> => (tail <=> Len(lines) \in Window)

\* What the logs view holds and what it shows.
LogsViewKept == lines \in Seq(LogLine) /\ TranscriptIsOutput /\ WindowTellsTail
=============================================================================

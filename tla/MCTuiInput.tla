------------------------------ MODULE MCTuiInput ------------------------------
(* TuiInput for TLC: three gestures, of every kind the parsers tell apart. *)
EXTENDS TuiInput

MCMouse == [docker |-> [kind |-> "click", at |-> <<1, 15>>],
            claude |-> [kind |-> "click", at |-> <<1, 22>>],
            moved |-> [kind |-> "hover", at |-> <<1, 1>>]]

Report(m, final) == <<"esc", "[", "<", m, final>>

MCGestures ==
    [x |-> <<"x">>, esc |-> <<"esc">>, bracket |-> <<"[">>, enter |-> <<"cr">>,
     up |-> <<"esc", "[", "A">>, pageUp |-> <<"esc", "[", "5", "~">>,
     tab |-> <<"tab">>, shiftTab |-> <<"esc", "[", "Z">>, prefix |-> <<"^b">>,
     help |-> <<"^b", "?">>, picker |-> <<"^b", "t">>, detach |-> <<"^b", "d">>,
     close |-> <<"^b", "&">>, down |-> <<"^b", "esc", "[", "B">>,
     clickDocker |-> Report("docker", "M"), clickClaude |-> Report("claude", "M"),
     release |-> Report("docker", "m"), hover |-> Report("moved", "M")]

MCSizes == {<<80, 24>>, <<101, 30>>, <<79, 24>>}
=============================================================================

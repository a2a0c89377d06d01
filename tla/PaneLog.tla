------------------------------- MODULE PaneLog -------------------------------
(***************************************************************************)
(* What a pane promises its subscribers, without rings, receivers, threads *)
(* or the scrollback's eviction: the pane is an append-only log of bytes   *)
(* and every subscriber keeps a transcript of it.  A transcript starts     *)
(* with a snapshot of at most Keep bytes that ends at the newest byte,     *)
(* goes on where it stands and never past what the pane has produced,      *)
(* names every stretch it loses, and closes with the exit of a pane that   *)
(* has ended, after which it never changes.                                *)
(***************************************************************************)
EXTENDS Integers, Sequences

CONSTANTS Subs,   \* the subscribers
          Keep,   \* how many bytes of history a snapshot holds at most
          Code,   \* what an ended pane can report
          NoCode  \* it reported nothing, or has not ended

VARIABLES produced,  \* bytes the pane has produced
          ended,     \* the pane has ended
          code,      \* what it reported
          heard,     \* each subscriber's transcript
          standing   \* "open", "ended" (told of the exit) or "left"

logVars == <<produced, ended, code, heard, standing>>

Stands(s) == heard[s][Len(heard[s])].to

\* The event that a step adds to a transcript.
Heard(s) == heard'[s][Len(heard[s]) + 1]

Hears(s, kind, from) ==
    /\ standing[s] = "open"
    /\ Len(heard'[s]) = Len(heard[s]) + 1
    /\ heard' = [heard EXCEPT ![s] = Append(@, Heard(s))]
    /\ Heard(s).kind = kind
    /\ Heard(s).from = from
    /\ UNCHANGED <<produced, ended, code>>

\* Output goes on after the exit too: a process the child left behind may
\* still write.
Produce ==
    /\ produced' \in Nat
    /\ produced' > produced
    /\ UNCHANGED <<ended, code, heard, standing>>

End ==
    /\ ~ended
    /\ ended' = TRUE
    /\ code' \in Code
    /\ UNCHANGED <<produced, heard, standing>>

Attach(s) ==
    /\ heard[s] = <<>>
    /\ Hears(s, "snapshot", Heard(s).from)
    /\ Heard(s).from \in produced - Keep .. produced
    /\ Heard(s).to = produced
    /\ UNCHANGED standing

Deliver(s) ==
    /\ heard[s] # <<>>
    /\ Hears(s, "output", Stands(s))
    /\ Heard(s).to \in Stands(s) .. produced
    /\ UNCHANGED standing

Lose(s) ==
    /\ heard[s] # <<>>
    /\ Hears(s, "lagged", Stands(s))
    /\ Heard(s).to \in Stands(s) .. produced
    /\ UNCHANGED standing

Tell(s) ==
    /\ ended
    /\ heard[s] # <<>>
    /\ Hears(s, "exit", Stands(s))
    /\ Heard(s).to = Stands(s)
    /\ Heard(s).code = code
    /\ standing' = [standing EXCEPT ![s] = "ended"]

Leave(s) ==
    /\ standing[s] # "left"
    /\ standing' = [standing EXCEPT ![s] = "left"]
    /\ UNCHANGED <<produced, ended, code, heard>>

Init ==
    /\ produced = 0 /\ ended = FALSE /\ code = NoCode
    /\ heard = [s \in Subs |-> <<>>]
    /\ standing = [s \in Subs |-> "open"]

Next ==
    \/ Produce \/ End
    \/ \E s \in Subs : Attach(s) \/ Deliver(s) \/ Lose(s) \/ Tell(s) \/ Leave(s)

Spec == Init /\ [][Next]_logVars
=============================================================================

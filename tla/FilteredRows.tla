----------------------------- MODULE FilteredRows -----------------------------
(***************************************************************************)
(* The rows of a list that pass a filter, in the order of the list: what   *)
(* the list tiles of the TUI iterate over (tepegoz-tui, app.rs), as        *)
(* containers.iter().filter(..).                                           *)
(*                                                                         *)
(* It is SelectSeq, by the places of the rows that pass instead of by      *)
(* recursion over the list.                                                *)
(***************************************************************************)
EXTENDS Integers, Sequences, FiniteSets

\* The places of the rows that pass, and the k-th of them.
PlacesOf(rows, Passing) == {i \in DOMAIN rows : rows[i] \in Passing}
KthOf(places, k) == CHOOSE i \in places : Cardinality({j \in places : j <= i}) = k

FilterRows(rows, Passing) ==
    LET places == PlacesOf(rows, Passing)
    IN  [k \in 1 .. Cardinality(places) |-> rows[KthOf(places, k)]]
=============================================================================

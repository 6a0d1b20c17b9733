------------------------------ MODULE MCDashboard -----------------------------
(***************************************************************************)
(* The instance of the dashboard for TLC.  Its bounds are those at which   *)
(* the scenario of each property still happens: two of everything that can *)
(* be confused, and requests enough to overtake each other.                *)
(***************************************************************************)
EXTENDS Dashboard

\* The characters of a stream, fences among them, in chunks that cut them anywhere.
Chunks == {<<"t", "t", "t">>, <<"n", "t", "t", "t">>, <<"n">>, <<"x">>, <<"t">>}
=============================================================================

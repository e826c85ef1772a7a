----------------------------- MODULE MCReembed -----------------------------
(***************************************************************************)
(* An instance of Reembed for TLC: two documents of two and one chunks,    *)
(* batches of two; an ingest can insert rows before, between and behind    *)
(* them.                                                                   *)
(***************************************************************************)
EXTENDS Reembed

CONSTANTS a, b

MCTables == {<<NoRow, <<a, 1>>, NoRow, <<b, 0>>, <<a, 0>>, NoRow>>}
=============================================================================

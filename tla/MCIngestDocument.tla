-------------------------- MODULE MCIngestDocument --------------------------
(***************************************************************************)
(* Instances of IngestDocument for TLC: calls that all race for the same   *)
(* source_url, and texts of zero, one and two chunks.                      *)
(***************************************************************************)
EXTENDS IngestDocument

CONSTANTS empty, short, note, long

MCChunkCount ==
  [c \in Texts |-> CASE c = empty -> 0 [] c \in {short, note} -> 1 [] c = long -> 2]
=============================================================================

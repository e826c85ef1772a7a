----------------------------- MODULE MCManifest -----------------------------
(***************************************************************************)
(* Instances of Manifest for TLC: walks over three entries, two of them    *)
(* for one source or one that is no object, and one of which makes no      *)
(* chunks or cannot be read at first.                                      *)
(***************************************************************************)
EXTENDS Manifest

CONSTANTS w1, w2, w3, a, b, old, new, empty

MCKindOf == [w \in Walks |-> IF w = w1 THEN "http" ELSE IF w = w2 THEN "all" ELSE "one"]
MCManifests == {<<a, b, a>>, <<a, Malformed, b>>}
MCContents == {<<new, empty, new>>, <<new, Unreadable, new>>, <<empty, new, new>>}
MCChunkCount == [c \in Texts |-> IF c = empty THEN 0 ELSE IF c = old THEN 1 ELSE 2]
=============================================================================
